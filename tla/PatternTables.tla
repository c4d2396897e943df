---------------------------- MODULE PatternTables ----------------------------
(***************************************************************************)
(* The detector tables of the package (scripts/repo): slices of pinned     *)
(* upstreams are materialized, generators derive row sets from them, the   *)
(* tables are composed of the row sets.  Two gates judge what is           *)
(* committed: data-is-regenerated generates again into a scratch directory *)
(* and compares; copyleft-slices-are-tests-only looks at the slices and    *)
(* what cites them.  All of these are processes of their own on one        *)
(* checkout, and may be killed; people edit it meanwhile.                  *)
(***************************************************************************)
EXTENDS Naturals, Sequences, FiniteSets

CONSTANTS Upstreams,   \* the upstreams there are
          Moving,      \* the upstreams that are pinned anew, relicensed, removed
          Touched,     \* the data files that are edited by hand
          Parse(_, _), \* the rows of a source in a version of its upstream: [id, path]
          MaxEdits, MaxKills, MaxTag,
          MaxOverlap   \* the first so many runs may overlap, two at a time

Blocked   == {"trufflehog"}
Ordered   == <<"agentshield", "codex-security", "gitleaks", "skillspector", "trivy", "zizmor",
               "trufflehog">>
Derived   == Upstreams \ Blocked

(* GENERATORS: the source files each writes. *)
SourcesOf(u) == IF u = "agentshield" THEN <<"agentshield-agent-configs", "agentshield-skills">>
                ELSE <<u>>
Sources == UNION {{SourcesOf(u)[i] : i \in DOMAIN SourcesOf(u)} : u \in Derived}

(* TABLE_PLANS, and the manifests view. *)
Plan == [agentConfigs |-> {"agentshield-agent-configs"}, secrets |-> {"gitleaks", "trivy"},
         skills |-> {"agentshield-skills", "codex-security", "skillspector"},
         workflows |-> {"zizmor"}, manifests |-> {"gitleaks", "trivy"}]
Tables == <<"agentConfigs", "secrets", "skills", "workflows", "manifests">>
DataFiles == Sources \cup DOMAIN Plan

(* What is at a path of data/: rows, nothing, or a file whose write was cut off. *)
Written(rows) == [kind |-> "rows", rows |-> rows]
NoFile == [kind |-> "none", rows |-> {}]
Torn   == [kind |-> "torn", rows |-> {}]

(* Upstreams are those of the package, and one that is derived stays. *)
ASSUME UpstreamAssumption ==
    /\ Upstreams \subseteq {Ordered[i] : i \in DOMAIN Ordered}
    /\ Moving \subseteq Upstreams /\ Derived \ Moving # {} /\ Touched \subseteq DataFiles /\ MaxTag \in Nat

VARIABLES
    pinned,      \* the tag .gitmodules pins, 0 where it declares none
    sparse,   \* the copyleft slice's sparse patterns and mode
    gens,     \* the upstreams a generator resolves
    licence,  \* UPSTREAM_SLICE_LICENSES
    slice,    \* the worktrees under upstream/: version, implementation on disk
    data,     \* data/: file -> rows
    fresh,    \* the drift check's scratch directory
    gpc, todo, stamp,  \* per generation run: where it is, what is left, what it resolved
    drift, gate, look, found,  \* the two checks
    mpc, names, left,  \* the materializer, the slices it was asked for and has left
    still,      \* history: the runs since whose start nobody else changed anything
    edits, kills

repo     == <<pinned, sparse, gens, licence>>
runs     == <<gpc, todo, stamp>>
checks   == <<drift, gate, look, found>>
material == <<mpc, names, left>>
tableVars == <<repo, slice, data, fresh, runs, checks, material, still, edits, kills>>

DeclaredSlices == {u \in Upstreams : pinned[u] # 0}
Copyleft == {u \in Upstreams : licence[u] = "copyleft"}
Present(u) == slice[u].version # 0

Active == {g \in {"gen", "drift"} : gpc[g] \notin {"idle", "ok", "failed"}}
            \cup (IF gate = "running" THEN {"gate"} ELSE {})
            \cup (IF mpc \in {"clone", "apply", "assert"} THEN {"materialize"} ELSE {})
Started == {r \in {"gen", "drift", "gate", "materialize"} :
               CASE r = "gen" -> gpc["gen"] # "idle" [] r = "drift" -> drift # "off"
                 [] r = "gate" -> gate # "off" [] OTHER -> mpc # "off"}
MayStart == Active = {} \/ (Cardinality(Active) = 1 /\ Cardinality(Started) < MaxOverlap)

(* The one of some that is first in an order. *)
First(order, some) ==
    order[CHOOSE i \in DOMAIN order : /\ order[i] \in some
                                      /\ \A j \in DOMAIN order : order[j] \in some => i <= j]

(* Who changes something disturbs everyone else. *)
Disturbs(who) == still' = still \cap {who}

------------------------------------------------------------------------------
Row(u, tag, version, r) ==
    [of |-> u, tag |-> tag, version |-> version, id |-> r.id, path |-> r.path]
RowsOf(u, s, from) == {Row(u, from.tag, from.version, r) : r \in Parse(s, from.version)}

(* assertRuleIdsUnique: ids carry their upstream's name. *)
IdsUnique(rows) == \A r, q \in rows : r.of = q.of /\ r.id = q.id => r = q

(* mergeRowSets, and the view of the path-gated rules for the manifests. *)
Composed(t, dir) ==
    LET rows == UNION {dir[s].rows : s \in Plan[t] \cap Sources}
    IN IF t = "manifests" THEN {r \in rows : r.path} ELSE rows
Readable(t, dir) == \A s \in Plan[t] \cap Sources : dir[s].kind = "rows"

Generation(from) ==   \* what a whole generation leaves
    [f \in DataFiles |->
        LET source(s) == CHOOSE u \in Derived : \E i \in DOMAIN SourcesOf(u) : SourcesOf(u)[i] = s
            dir == [s \in Sources |-> Written(RowsOf(source(s), s, from[source(s)]))]
        IN IF f \in Sources THEN dir[f] ELSE Written(Composed(f, dir))]

TestsOnly == [patterns |-> "tests", mode |-> "no-cone"]

TablesInit ==
    /\ pinned = [u \in Upstreams |-> 1]
    /\ sparse = TestsOnly
    /\ gens = Derived
    /\ licence = [u \in Upstreams |-> IF u \in Blocked THEN "copyleft" ELSE "permissive"]
    /\ \E there \in {0, 1} : slice = [u \in Upstreams |-> [version |-> there, impl |-> u \in Derived]]
    /\ data = Generation([u \in Derived |-> [tag |-> 1, version |-> 1]])
    /\ fresh = [f \in DataFiles |-> NoFile]
    /\ gpc = [g \in {"gen", "drift"} |-> "idle"] /\ todo = [g \in {"gen", "drift"} |-> {}]
    /\ stamp = [g \in {"gen", "drift"} |-> [tag |-> 0, version |-> 0]]
    /\ drift = "off" /\ gate = "off" /\ look = {} /\ found = FALSE
    /\ mpc = "off" /\ names = {} /\ left = {} /\ still = {} /\ edits = 0 /\ kills = 0

------------------------------------------------------------------------------
(* gen/all.mts *)
BeginRun(g) ==
    /\ gpc' = [gpc EXCEPT ![g] = "derive"]
    /\ todo' = [todo EXCEPT ![g] = gens]
    /\ stamp' = stamp
Goes(g, to) == gpc' = [gpc EXCEPT ![g] = to]
Turn(g) == First(IF gpc[g] = "compose" THEN Tables ELSE Ordered, todo[g])
Done(g) == todo' = [todo EXCEPT ![g] = @ \ {Turn(g)}]
ToTables(g) == Goes(g, "compose") /\ todo' = [todo EXCEPT ![g] = DOMAIN Plan]

Puts(g, f, file) ==
    IF g = "gen" THEN data' = [data EXCEPT ![f] = file] /\ fresh' = fresh /\ Disturbs("gen")
    ELSE fresh' = [fresh EXCEPT ![f] = file] /\ UNCHANGED <<data, still>>
Dir(g) == IF g = "gen" THEN data ELSE fresh

StartGeneration ==
    /\ MayStart /\ gpc["gen"] = "idle" /\ BeginRun("gen") /\ still' = still \cup {"gen"}
    /\ UNCHANGED <<repo, slice, data, fresh, checks, material, edits, kills>>

(* resolveUpstreamSlice: neither a blocked upstream nor one without a pin or a *)
(* worktree resolves.                                                          *)
Resolves(u) == u \notin Blocked /\ u \in DeclaredSlices /\ Present(u)

(* A mutant of Derive: a slice that does not resolve is passed over. *)
DeriveResolved(g) ==
    /\ gpc[g] = "derive"
    /\ LET u == Turn(g)
       IN IF Resolves(u) /\ Parse(SourcesOf(u)[1], slice[u].version) # {}
            THEN /\ Goes(g, "write") /\ todo' = todo
                 /\ stamp' = [stamp EXCEPT ![g] = [tag |-> pinned[u], version |-> slice[u].version]]
          ELSE IF todo[g] # {u} THEN Done(g) /\ UNCHANGED <<gpc, stamp>>
          ELSE ToTables(g) /\ stamp' = stamp
    /\ UNCHANGED <<repo, slice, data, fresh, checks, material, still, edits, kills>>

(* The rows are of whatever version the worktree has, under the pinned tag; too *)
(* few of them fail the run, as does a slice that does not resolve.             *)
Derive(g) ==
    /\ gpc[g] = "derive"
    /\ LET u == Turn(g)
       IN IF Resolves(u) /\ Parse(SourcesOf(u)[1], slice[u].version) # {}
            THEN /\ Goes(g, "write")
                 /\ stamp' = [stamp EXCEPT ![g] = [tag |-> pinned[u], version |-> slice[u].version]]
            ELSE Goes(g, "failed") /\ UNCHANGED stamp
    /\ UNCHANGED <<repo, slice, data, fresh, todo, checks, material, still, edits, kills>>

(* The file a run writes next. *)
Pending(g) == IF gpc[g] = "compose" THEN Turn(g)
              ELSE SourcesOf(Turn(g))[IF gpc[g] = "write" THEN 1 ELSE 2]

(* writeSourceRowSet, once per source file of the generator. *)
WriteSource(g) ==
    /\ gpc[g] \in {"write", "second"}
    /\ LET u == Turn(g)
       IN /\ Puts(g, Pending(g), Written(RowsOf(u, Pending(g), stamp[g])))
          /\ IF gpc[g] = "write" /\ Len(SourcesOf(u)) > 1 THEN Goes(g, "second") /\ UNCHANGED todo
             ELSE IF todo[g] # {u} THEN Goes(g, "derive") /\ Done(g)
             ELSE ToTables(g)
    /\ UNCHANGED <<repo, slice, stamp, checks, material, edits, kills>>

(* composeAllTables: the row sets are read back, the ids of a table are unique. *)
Compose(g) ==
    /\ gpc[g] = "compose"
    /\ LET t == Turn(g)
           ok == Readable(t, Dir(g)) /\ IdsUnique(Composed(t, Dir(g)))
       IN IF ok THEN /\ Puts(g, t, Written(Composed(t, Dir(g)))) /\ Done(g)
                     /\ Goes(g, IF todo[g] # {t} THEN "compose" ELSE "ok")
          ELSE Goes(g, "failed") /\ UNCHANGED <<todo, data, fresh, still>>
    /\ UNCHANGED <<repo, slice, stamp, checks, material, edits, kills>>

(* A kill: the file being written may be cut off. *)
KillGeneration ==
    /\ kills < MaxKills /\ kills' = kills + 1
    /\ gpc["gen"] \notin {"idle", "ok", "failed"} /\ Goes("gen", "failed")
    /\ \/ UNCHANGED <<data, fresh, still>>
       \/ gpc["gen"] # "derive" /\ Puts("gen", Pending("gen"), Torn)
    /\ UNCHANGED <<repo, slice, todo, stamp, checks, material, edits>>

------------------------------------------------------------------------------
(* check/data-is-regenerated.mts *)
StartDrift ==
    /\ MayStart /\ drift = "off"
    /\ LET missing == {u \in DeclaredSlices \ Copyleft : ~Present(u)}
       IN IF missing # {} THEN drift' = "skipped" /\ UNCHANGED <<runs, still>>
          ELSE IF \A f \in DataFiles : data[f] = NoFile THEN drift' = "failed" /\ UNCHANGED <<runs, still>>
          ELSE drift' = "running" /\ BeginRun("drift") /\ still' = still \cup {"drift"}
    /\ UNCHANGED <<repo, slice, data, fresh, gate, look, found, material, edits, kills>>

(* compareDataTrees: nothing changed, nothing added, nothing removed. *)
CompareTrees ==
    /\ drift = "running" /\ gpc["drift"] \in {"ok", "failed"}
    /\ drift' = IF gpc["drift"] = "ok" /\ data = fresh THEN "passed" ELSE "failed"
    /\ UNCHANGED <<repo, slice, data, fresh, runs, gate, look, found, material, still, edits, kills>>

------------------------------------------------------------------------------
(* check/copyleft-slices-are-tests-only.mts *)
Cites(u) == \E f \in DataFiles : \E r \in data[f].rows : r.of = u

Watched == {u \in DeclaredSlices : u \in Copyleft}

(* checkSliceDeclaration: every other slice declares directories, so one that *)
(* becomes copyleft offends.                                                  *)
Misdeclared(u) == IF u \in Blocked THEN sparse # TestsOnly ELSE TRUE

(* The declarations are read first, then tree and citations of each slice. *)
StartGate ==
    /\ MayStart /\ gate = "off" /\ gate' = "running" /\ still' = still \cup {"gate"}
    /\ look' = Watched \X {"tree", "rows"}
    /\ found' = \E u \in DeclaredSlices : licence[u] = "unknown" \/ (u \in Watched /\ Misdeclared(u))
    /\ UNCHANGED <<repo, slice, data, fresh, runs, drift, material, edits, kills>>

(* checkSliceWorktree and checkNoDerivation *)
Offends(u, what) ==
    IF what = "tree" THEN Present(u) /\ slice[u].impl ELSE u \in gens \/ Cites(u)

LookNext ==
    /\ gate = "running"
    /\ IF look = {} THEN gate' = (IF found THEN "failed" ELSE "passed") /\ UNCHANGED <<look, found>>
       ELSE LET u == First(Ordered, {pair[1] : pair \in look})
                what == First(<<"tree", "rows">>, {pair[2] : pair \in look \cap ({u} \X {"tree", "rows"})})
            IN found' = (found \/ Offends(u, what)) /\ look' = look \ {<<u, what>>} /\ gate' = gate
    /\ UNCHANGED <<repo, slice, data, fresh, runs, drift, material, still, edits, kills>>

------------------------------------------------------------------------------
(* materialize-upstream.mts: one slice after the other. *)
StartMaterialize ==
    /\ MayStart /\ mpc = "off" /\ mpc' = "clone" /\ still' = still \cup {"materialize"}
    /\ names' \in {DeclaredSlices} \cup {{u} : u \in DeclaredSlices \cap Moving} /\ left' = names'
    /\ UNCHANGED <<repo, slice, data, fresh, runs, checks, edits, kills>>

Cloning == First(Ordered, left)

(* The partial clone checks the pinned version out in cone mode. *)
Clone ==
    /\ mpc = "clone" /\ left # {}
    /\ \/ /\ Cloning \in DeclaredSlices /\ mpc' = "apply" /\ Disturbs("materialize")
          /\ slice' = [slice EXCEPT ![Cloning] = [version |-> pinned[Cloning], impl |-> TRUE]]
       \/ mpc' = "failed" /\ UNCHANGED <<slice, still>>
    /\ UNCHANGED <<repo, data, fresh, runs, checks, names, left, edits, kills>>

(* applySliceSparseMode *)
ApplyMode ==
    /\ mpc = "apply" /\ mpc' = "assert"
    /\ IF Cloning \in Blocked /\ sparse.mode = "no-cone" /\ sparse.patterns # "none"
         THEN /\ slice' = [slice EXCEPT ![Cloning].impl = sparse.patterns = "wide"]
              /\ Disturbs("materialize")
         ELSE UNCHANGED <<slice, still>>
    /\ UNCHANGED <<repo, data, fresh, runs, checks, names, left, edits, kills>>

(* assertCopyleftSliceIsTestsOnly *)
AssertTests ==
    /\ mpc = "assert"
    /\ IF Cloning \in DeclaredSlices \ {u \in Copyleft : slice[u].impl}
         THEN left' = left \ {Cloning} /\ mpc' = IF left # {Cloning} THEN "clone" ELSE "done"
         ELSE mpc' = "failed" /\ UNCHANGED left
    /\ UNCHANGED <<repo, slice, data, fresh, runs, checks, names, still, edits, kills>>

KillMaterialize ==
    /\ mpc \in {"clone", "apply", "assert"} /\ kills < MaxKills /\ kills' = kills + 1 /\ mpc' = "failed"
    /\ UNCHANGED <<repo, slice, data, fresh, runs, checks, names, left, still, edits>>

------------------------------------------------------------------------------
(* People. *)
ForeignRow == Row("trufflehog", 1, 1, [id |-> 1, path |-> FALSE])
EditData(f) ==
    \E file \in {NoFile, Written({}), Written({ForeignRow})} : data' = [data EXCEPT ![f] = file]
Edit ==
    /\ edits < MaxEdits /\ edits' = edits + 1 /\ Disturbs("people")
    /\ \/ /\ \E u \in Moving, tag \in (0..MaxTag) : tag # pinned[u] /\ pinned' = [pinned EXCEPT ![u] = tag]
          /\ UNCHANGED <<sparse, gens, licence, slice, data>>
       \/ /\ \E u \in Moving, l \in {"copyleft", "unknown"} : licence' = [licence EXCEPT ![u] = l]
          /\ UNCHANGED <<pinned, sparse, gens, slice, data>>
       \/ /\ sparse' \in {[TestsOnly EXCEPT !.patterns = "wide"], [TestsOnly EXCEPT !.patterns = "none"],
                         [TestsOnly EXCEPT !.mode = "cone"], TestsOnly}
          /\ UNCHANGED <<pinned, gens, licence, slice, data>>
       \/ /\ \E u \in Moving \cup Blocked : gens' = IF u \in gens THEN gens \ {u} ELSE gens \cup {u}
          /\ UNCHANGED <<pinned, sparse, licence, slice, data>>
       \/ /\ \E u \in Moving : Present(u) /\ slice' = [slice EXCEPT ![u].version = 0]
          /\ UNCHANGED <<repo, data>>
       \/ /\ \E f \in Touched : EditData(f)
          /\ UNCHANGED <<repo, slice>>
    /\ UNCHANGED <<fresh, runs, checks, material, kills>>

TablesNext ==
    \/ StartGeneration \/ KillGeneration
    \/ \E g \in {"gen", "drift"} : Derive(g) \/ WriteSource(g) \/ Compose(g)
    \/ StartDrift \/ CompareTrees \/ StartGate \/ LookNext
    \/ StartMaterialize \/ Clone \/ ApplyMode \/ AssertTests \/ KillMaterialize
    \/ Edit
TablesSpec == TablesInit /\ [][TablesNext]_tableVars
------------------------------------------------------------------------------
(* Every table is composed of the row sets beside it. *)
TablesAreComposed ==
    \A t \in DOMAIN Plan : Readable(t, data) /\ data[t] = Written(Composed(t, data))
(* Every row set is what its generator makes of the worktree, under the pinned tag. *)
SourcesAreDerived(us) ==
    \A u \in us : \A i \in DOMAIN SourcesOf(u) :
        LET s == SourcesOf(u)[i]
        IN data[s] = Written(RowsOf(u, s, [tag |-> pinned[u], version |-> slice[u].version]))
Unmixed(who) == who \in still

(* What a success stands for, if nothing but the run itself has changed the    *)
(* checkout since it began -- however tables, slices, pins and licences came   *)
(* to be what they are, with every kill, edit and other run before.  A         *)
(* generation leaves derived row sets and tables of them, none of two          *)
(* generations.  The materializer leaves no copyleft implementation on disk.   *)
(* Both gates passing, data/ is whole, derived, and cites no copyleft          *)
(* upstream, whose implementation is not on disk either.                       *)
TablesAreVouched ==
    /\ gpc["gen"] = "ok" /\ Unmixed("gen") => TablesAreComposed /\ SourcesAreDerived(gens)
    /\ mpc = "done" /\ Unmixed("materialize")
         => \A u \in names \cap Copyleft : ~slice[u].impl
    /\ drift = "passed" /\ gate = "passed" /\ {"drift", "gate"} \subseteq still
         => /\ TablesAreComposed /\ SourcesAreDerived(Derived)
            /\ \A u \in Copyleft : ~Cites(u) /\ (Present(u) /\ u \in DeclaredSlices => ~slice[u].impl)
=============================================================================
