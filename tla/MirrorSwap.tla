----------------------------- MODULE MirrorSwap -----------------------------
(***************************************************************************)
(* A directory mirror (a tree the producer owns whole) is brought to the   *)
(* files of its source by a swap: the source is copied aside, what must    *)
(* stay local is laid over the copy, what the source omits is quarantined, *)
(* the live directory is renamed away, the copy renamed in and the old     *)
(* directory deleted.  Files have an origin the predicates of the install  *)
(* tell apart; an editor may write into the live directory at any time.    *)
(***************************************************************************)
EXTENDS Naturals, FiniteSets

CONSTANTS Names,        \* file names below the mirrored directory
          Declared,     \* names the manifest places itself (mirrorSkipPredicate)
          ReleaseOnly,  \* RELEASE_ONLY_DIR_MIRROR_FILES
          Unlisted,     \* node_modules, .venv, symbolic links: never walked
          MaxShrink,    \* maxShrinkRatio of the entry, 2 by default
          MaxEdits, MaxDeaths   \* bounds on the edits and on the kills

ASSUME NamesAssumption == Declared \cup ReleaseOnly \cup Unlisted \subseteq Names
ASSUME MaxShrinkAssumption == MaxShrink \in Nat

Contents == {"none", "fleet", "local", "edited"}
Empty == [n \in Names |-> "none"]
Listed(dir) == {n \in Names \ Unlisted : dir[n] # "none"}

VARIABLES live,       \* name -> content of the live directory
          present,    \* the live directory exists
          source,     \* name -> content in the pack
          incoming,   \* the staged copy
          outgoing,   \* the live directory this run has renamed away
          stranded,   \* those of runs that died, left under the cache
          reaped,     \* <<name, content>> copied to the quarantine
          targetFiles,\* what this run has listed
          seen,       \* <<name, content>> pairs that were live when listed
          mirrorAt, edits, deaths

mirrorVars == <<live, present, source, incoming, outgoing, stranded, reaped, targetFiles,
                seen, mirrorAt, edits, deaths>>

(* Names the swap leaves to the member or to another step of the install. *)
StaysLocal(name) == name \in Declared \cup ReleaseOnly

MirrorInit ==
  /\ source \in [Names -> {"none", "fleet"}] /\ \A n \in Unlisted \cup ReleaseOnly : source[n] = "none"
  /\ live \in [Names -> {"none", "fleet", "local"}] /\ present \in BOOLEAN
  /\ ~present => live = Empty
  /\ incoming = Empty /\ outgoing = {} /\ stranded = {} /\ reaped = {} /\ targetFiles = {} /\ seen = {}
  /\ mirrorAt = "start" /\ edits = 0 /\ deaths = 0

Pairs(dir) == {<<n, dir[n]>> : n \in Listed(dir)}

(* No swap without drift; no swap that would drop most of the directory.  *)
(* An empty source is never mirrored.                                     *)
Compare ==
  /\ mirrorAt = "start"
  /\ LET listed     == Listed(live)
         comparable == {n \in listed : ~StaysLocal(n)}
         offered    == Cardinality(Listed(source))
         drift      == {n \in comparable : source[n] = "none"} # {}
     IN /\ mirrorAt' = IF ~present \/ offered = 0 THEN "done"
                      ELSE IF Cardinality(comparable) > MaxShrink * offered THEN "refused"
                      ELSE IF drift THEN "stage" ELSE "done"
        /\ targetFiles' = listed /\ seen' = seen \cup Pairs(live)
  /\ UNCHANGED <<live, present, source, stranded, incoming, outgoing, reaped, edits, deaths>>

(* copyDirectorySync of the source, then the local files over it as they are now. *)
Stage ==
  /\ mirrorAt = "stage"
  /\ \/ /\ incoming' = [n \in Names |->
                          IF n \in targetFiles /\ StaysLocal(n) THEN live[n] ELSE source[n]]
        /\ \A n \in targetFiles : StaysLocal(n) => live[n] # "none"
        /\ mirrorAt' = "quarantine"
     \/ incoming' = Empty /\ mirrorAt' = "failed"
  /\ UNCHANGED <<live, present, source, stranded, outgoing, reaped, targetFiles, seen, edits, deaths>>

Quarantine ==
  /\ mirrorAt = "quarantine"
  /\ LET omitted == {n \in targetFiles : source[n] = "none" /\ ~StaysLocal(n)}
     IN \/ /\ \A n \in omitted : live[n] # "none"
           /\ reaped' = reaped \cup {<<n, live[n]>> : n \in omitted}
           /\ mirrorAt' = "aside" /\ incoming' = incoming
        \/ reaped' = reaped /\ mirrorAt' = "failed" /\ incoming' = Empty
  /\ UNCHANGED <<live, present, source, stranded, outgoing, targetFiles, seen, edits, deaths>>

(* Either rename may be refused; the live directory may be gone by now. *)
MoveAside ==
  /\ mirrorAt = "aside"
  /\ \/ /\ outgoing' = IF present THEN {live} ELSE {}
        /\ live' = Empty /\ present' = FALSE /\ mirrorAt' = "in" /\ UNCHANGED incoming
     \/ present /\ mirrorAt' = "failed" /\ incoming' = Empty /\ UNCHANGED <<live, present, outgoing>>
  /\ UNCHANGED <<source, stranded, reaped, targetFiles, seen, edits, deaths>>

MoveIn ==
  /\ mirrorAt = "in"
  /\ \/ /\ ~present
        /\ live' = incoming /\ present' = TRUE /\ incoming' = Empty /\ mirrorAt' = "drop"
     \/ mirrorAt' = "back" /\ UNCHANGED <<live, present, incoming>>
  /\ UNCHANGED <<source, stranded, outgoing, reaped, targetFiles, seen, edits, deaths>>

(* The second rename failed: the old directory is renamed back, if that works. *)
RollBack ==
  /\ mirrorAt = "back"
  /\ \/ /\ ~present
        /\ \E old \in outgoing :
             live' = old /\ present' = TRUE /\ outgoing' = {}
     \/ UNCHANGED <<live, present, outgoing>>
  /\ incoming' = Empty /\ mirrorAt' = "failed"
  /\ UNCHANGED <<source, stranded, reaped, targetFiles, seen, edits, deaths>>

DropOld ==
  /\ mirrorAt = "drop"
  /\ \/ outgoing' = {} \/ outgoing' = outgoing   \* rmSync may fail: logged
  /\ mirrorAt' = "done"
  /\ UNCHANGED <<live, present, source, stranded, incoming, reaped, targetFiles, seen, edits, deaths>>

(* A session, a build or an editor writes one file of the live directory. *)
Edit ==
  /\ edits < MaxEdits /\ edits' = edits + 1 /\ present
  /\ \E n \in Names : live' = [live EXCEPT ![n] = "edited"]
  /\ UNCHANGED <<present, source, stranded, incoming, outgoing, reaped, targetFiles, seen, mirrorAt, deaths>>

DieInSwap ==
  /\ mirrorAt \notin {"start", "done", "refused", "failed"}
  /\ deaths < MaxDeaths /\ deaths' = deaths + 1
  /\ mirrorAt' = "start"
  /\ incoming' = Empty   \* the next run works under other names
  /\ stranded' = stranded \cup outgoing /\ outgoing' = {}
  /\ UNCHANGED <<live, present, source, reaped, targetFiles, seen, edits>>

MirrorNext ==
  \/ Compare \/ Stage \/ Quarantine \/ MoveAside \/ MoveIn \/ RollBack \/ DropOld
  \/ Edit \/ DieInSwap

MirrorSpec == MirrorInit /\ [][MirrorNext]_mirrorVars

Somewhere == Pairs(live) \cup reaped \cup UNION {Pairs(old) : old \in outgoing \cup stranded}

(* Whatever the swap listed and the member had changed is still live, beside *)
(* it, or in the quarantine: through failing renames, the roll-back and a    *)
(* kill between any two steps of ensureDirectoryMirrorsMatch.  (A file the   *)
(* source ships is the source's; one edited after the listing is not seen.)  *)
MirrorKeepsLocal ==
  \A pair \in seen :
    LET name == pair[1]
    IN \/ pair \in Somewhere
       \/ ~StaysLocal(name) /\ source[name] # "none"
       \/ <<name, "edited">> \in Somewhere /\ edits > 0

(* A swap that was neither killed nor refused leaves the files that stay local *)
(* in their place, and none that the source omits.                             *)
SwapIsComplete ==
  mirrorAt = "drop" /\ edits = 0 =>
    /\ \A pair \in seen : StaysLocal(pair[1]) => live[pair[1]] = pair[2]
    /\ \A n \in Listed(live) : StaysLocal(n) \/ source[n] # "none"
=============================================================================
