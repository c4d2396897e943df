----------------------------- MODULE MCPrepare -----------------------------
(***************************************************************************)
(* What a hydration does to the files of a member, one concern explored at *)
(* a time: the rule files, the moved files, a directory mirror, the files  *)
(* shared line by line and entry by entry, the fetch of the pack, and the  *)
(* doctor around it all.                                                   *)
(***************************************************************************)
EXTENDS RuleFile, Placement, ManagedText, WorkspaceMerge, PayloadFetch, PrepareDoctor, TLC

VARIABLE part

Idle == "idle"

------------------------------------------------------------------------------
(* What CLAUDE.md was, newest first. *)
McHistories == {<<>>, <<"absent">>, <<"rules", "older">>, <<"older">>,
                <<"generated", "rules", "older">>, <<"generated", "generated", "rules">>,
                <<"generated", "absent", "rules">>}

------------------------------------------------------------------------------
(* Two plain files and three workflows.  The moves chain, swap, meet, collide *)
(* and carry a retired job, also to where its repair is moved.                *)
Text(text) == [kind |-> "file", text |-> text, name |-> "", calls |-> {}]
Link == [Text("link") EXCEPT !.kind = "link"]
Workflow(text, name, calls) == [kind |-> "file", text |-> text, name |-> name, calls |-> calls]
McTrees ==
  {("a" :> a @@ "b" :> b @@ "w1" :> w1 @@ "w2" :> w2 @@ "w3" :> w3) :
     a \in {Text("plain"), Link}, b \in {Absent, Text("plain"), Text("other")},
     w1 \in {Workflow(t, "w1", {}) : t \in {"one", "retired", "customised"}} \cup {Workflow("one", "", {})},
     w2 \in {Absent, Workflow("one", "w2", {}), Workflow("two", "w2", {"w1"})},
     w3 \in {Workflow("three", "w3", {"w1", "w2"}), Workflow("one", "w3", {}), Workflow("repair", "w3", {})}}
McFileTexts == {"", "plain", "link", "other", "one", "two", "three", "retired", "customised", "repair"}
Moved(from, to) == [from |-> from, to |-> to, job |-> FALSE]
McMoveLists ==
  {<<Moved("a", "b")>>, <<Moved("a", "b"), Moved("b", "a")>>,
   <<Moved("w1", "w2")>>, <<[Moved("w1", "w2") EXCEPT !.job = TRUE]>>,
   <<Moved("w1", "w2"), Moved("w3", "w2")>>, <<[Moved("w1", "w2") EXCEPT !.job = TRUE], Moved("w3", "w2")>>,
   <<Moved("w1", "w2"), Moved("w2", "w3")>>,
   <<Moved("w1", "w2"), Moved("a", "b")>>, <<Moved("w2", "w1"), Moved("w3", "w1")>>}

------------------------------------------------------------------------------
(* Documents with every arrangement of markers in five lines; owned files of  *)
(* three parts.  A second list of an older fetcher is not something a member  *)
(* has: each refresh strips one.                                              *)
McDocuments == UNION {[1..n -> {"begin", "end", "own", "heading", "blank"}] : n \in 1..4}
Parts == {<<>>, <<"own">>, <<"blank", "also", "blank">>, <<"<fleet>", "old rule", "</fleet>">>,
          <<"<fleet>", "dir/file", "<pack>", "old", "</pack>", "</fleet>">>,
          <<"<pack>", "old", "</pack>">>, <<"<repo>", "own", "*", "</repo>">>, <<"*", "!*/">>,
          <<"<allow>", "!/dir/", "</allow>">>, <<"# legacy list", "dir/file">>, <<"# note">>,
          <<"<repo>">>, <<"<fleet>", "dir/file", "</fleet>">>}
Lists(lines) == Cardinality({i \in DOMAIN lines : lines[i] = "# legacy list"})
McIgnores == {lines \in {p \o q \o r : p, q, r \in Parts} : Lists(lines) <= 1}
McAttributes == UNION {[1..n -> {"<fleet>", "</fleet>", "own", "<repo>", "</repo>"}] : n \in 0..4}

------------------------------------------------------------------------------
(* Blocks of a workspace file; a key twice only where a merge notices.  *)
Fleets(ids) == Block({[id |-> id, text |-> "fleet"] : id \in ids}, FALSE)
Owns(ids) == Block({[id |-> id, text |-> "own"] : id \in ids}, FALSE)
Scalar(value) == Block({[id |-> value, text |-> "own"]}, TRUE)
McPackage ==
  [id \in {"a", "b", "mine", "src", "lib", "hooks/*", "[lib]", "react", "7", "9", "true", "maybe",
           "unindented", "later", "p@1", "p@own", "q@1", "z@own"} |->
     CASE id \in {"p@1", "p@own"} -> "p" [] id = "q@1" -> "q" [] id = "z@own" -> "z" [] OTHER -> id]
McBundle ==
  "catalog" :> <<Fleets({"a", "b"})>> @@ "patchedDependencies" :> <<Fleets({"p@1", "q@1"})>>
    @@ "minimumReleaseAge" :> <<Scalar("7")>>
McFleetKeys == {"catalog", "patchedDependencies", "minimumReleaseAge"}
McFleetPackages == {"hooks/*", "lib"}
McBlocks ==
  "catalog" :> {Owns({"a", "mine"}), Scalar("unindented")} @@
  "patchedDependencies" :> {Owns({"p@own", "z@own"}), Fleets({"q@1"})} @@
  "minimumReleaseAge" :> {Scalar("9")} @@ "packages" :> {Owns({"src"}), Scalar("[lib]")} @@
  "catalogDriftIgnore" :> {Owns({"react"}), Scalar("react")} @@
  "confirmModulesPurge" :> {Scalar("true"), Scalar("maybe")}
McSingle == UNION {{key :> <<block>> : block \in McBlocks[key]} : key \in DOMAIN McBlocks}
McTwice ==
  UNION {{key :> <<b, c>> : b, c \in McBlocks[key]} : key \in {"catalog", "catalogDriftIgnore"}}
McWorkspaces == {<<>>} \cup McSingle \cup McTwice \cup {f @@ g : f, g \in McSingle}

Hook(event, matcher, command) == [event |-> event, matcher |-> matcher, command |-> command]
McFleetSettings ==
  [keys  |-> {"<fleet>", "hooks", "model", "</fleet>"},
   hooks |-> {Hook("Stop", "", "dispatch"), Hook("PreToolUse", "Bash", "dispatch"), Hook("PreToolUse", "", "gate")}]
McMemberSettings ==
  {[keys |-> {"<fleet>", "hooks", "theme", "legacy env", "</fleet>"},
    hooks |-> {Hook("Stop", "", "launcher"), Hook("PreToolUse", "Bash", "repo"),
               Hook("Notify", "", "repo2"), Hook("Stop", "", "stray")}]}
McPrepares == {<<"own">>, <<"prepare", "own">>}

------------------------------------------------------------------------------
(* Two packs of one revision, one behind an index, one green by mistake, one  *)
(* without a JSON manifest.                                                   *)
Layer(digest, media, title) == [digest |-> digest, media |-> media, title |-> title]
Manifest(revision, layers, index) == [revision |-> revision, layers |-> layers, index |-> index]
McManifests ==
  "m1" :> Manifest("r1", <<Layer("j1", "manifest", FALSE), Layer("t1", "tar", TRUE)>>, "none") @@
  "m1again" :> Manifest("r1", <<Layer("j1again", "manifest", FALSE), Layer("t1", "tar", TRUE)>>, "none") @@
  "m2" :> Manifest("r2", <<Layer("t2", "tar", FALSE), Layer("j2", "manifest", FALSE)>>, "none") @@
  "i2" :> Manifest("none", <<>>, "m2") @@
  "m3" :> Manifest("none", <<Layer("t3", "tar", TRUE)>>, "none") @@
  "m4" :> Manifest("r2", <<Layer("t3", "tar", TRUE)>>, "none")
(* Bodies of no manifest: one that names blobs of two packs, and one without layers. *)
McAltered ==
  {[digest |-> "x1", revision |-> "r1", layers |-> <<Layer("t1", "tar", TRUE), Layer("j2", "manifest", FALSE)>>],
   [digest |-> "x2", revision |-> "r2", layers |-> <<>>]}
McRefusals == {{}, {"plain", "challenge"}}

------------------------------------------------------------------------------
NoRules == claude = Idle /\ agents = Idle /\ history = Idle /\ tracked = Idle /\ stage = Idle
  /\ step = Idle /\ temporary = Idle /\ deferred = Idle /\ lock = Idle /\ crashes = Idle
NoMoves == tree = Idle /\ moves = Idle /\ shipped = Idle /\ kept = Idle /\ plans = Idle
  /\ updates = Idle /\ told = Idle /\ phase = Idle /\ kills = Idle /\ before = {}
NoMirror == live = Idle /\ present = Idle /\ source = Idle /\ incoming = Idle /\ outgoing = Idle
  /\ stranded = Idle /\ reaped = Idle /\ targetFiles = Idle /\ seen = {} /\ mirrorAt = Idle
  /\ edits = Idle /\ deaths = Idle
NoText == doc = <<>> /\ style = Idle /\ ignore = <<>> /\ attributes = <<>> /\ docAtFirst = <<>>
  /\ ignoreAtFirst = <<>> /\ attributesAtFirst = <<>> /\ installs = 0
NoSettings == [keys |-> {}, hooks |-> {}]
NoMerge == yaml = Idle /\ config = Idle /\ declared = Idle /\ locked = Idle /\ settings = NoSettings
  /\ prepareScript = <<>> /\ carried = Idle /\ mergeStep = Idle /\ merges = Idle /\ fresh = FALSE
  /\ own = {} /\ dropped = {} /\ settingsAtFirst = NoSettings /\ prepareAtFirst = <<>>
NoFetch == green = Idle /\ tags = Idle /\ refuses = Idle /\ env = Idle /\ fetchPhase = Idle
  /\ wanted = Idle /\ receipt = Idle /\ pulled = Idle /\ tarball = Idle /\ manifest = Idle
  /\ placed = <<>> /\ greens = Idle /\ lied = Idle /\ pushes = Idle /\ badAnswers = Idle /\ fetches = Idle
NoDoctor == content = Idle /\ folder = Idle /\ owns = Idle /\ fetcher = Idle /\ args = Idle
  /\ at = Idle /\ held = Idle /\ captured = Idle /\ statted = Idle /\ prints = Idle
  /\ installed = Idle /\ putBack = Idle /\ result = [d \in Doctors |-> Idle] /\ changes = Idle

McInit ==
  \/ part = "rules"  /\ RuleInit /\ NoMoves /\ NoMirror /\ NoText /\ NoMerge /\ NoFetch /\ NoDoctor
  \/ part = "moves"  /\ NoRules /\ MovesInit /\ NoMirror /\ NoText /\ NoMerge /\ NoFetch /\ NoDoctor
  \/ part = "mirror" /\ NoRules /\ NoMoves /\ MirrorInit /\ NoText /\ NoMerge /\ NoFetch /\ NoDoctor
  \/ part = "text"   /\ NoRules /\ NoMoves /\ NoMirror /\ TextInit /\ NoMerge /\ NoFetch /\ NoDoctor
  \/ part = "merge"  /\ NoRules /\ NoMoves /\ NoMirror /\ NoText /\ MergeInit /\ NoFetch /\ NoDoctor
  \/ part = "fetch"  /\ NoRules /\ NoMoves /\ NoMirror /\ NoText /\ NoMerge /\ FetchInit /\ NoDoctor
  \/ part = "doctor" /\ NoRules /\ NoMoves /\ NoMirror /\ NoText /\ NoMerge /\ NoFetch /\ DoctorInit

McNext ==
  /\ part' = part
  /\ \/ /\ part = "rules" /\ RuleNext
        /\ UNCHANGED <<moveVars, mirrorVars, textVars, mergeVars, fetchVars, doctorVars>>
     \/ /\ part = "moves" /\ MovesNext
        /\ UNCHANGED <<ruleVars, mirrorVars, textVars, mergeVars, fetchVars, doctorVars>>
     \/ /\ part = "mirror" /\ MirrorNext
        /\ UNCHANGED <<ruleVars, moveVars, textVars, mergeVars, fetchVars, doctorVars>>
     \/ /\ part = "text" /\ TextNext
        /\ UNCHANGED <<ruleVars, moveVars, mirrorVars, mergeVars, fetchVars, doctorVars>>
     \/ /\ part = "merge" /\ MergeNext
        /\ UNCHANGED <<ruleVars, moveVars, mirrorVars, textVars, fetchVars, doctorVars>>
     \/ /\ part = "fetch" /\ FetchNext
        /\ UNCHANGED <<ruleVars, moveVars, mirrorVars, textVars, mergeVars, doctorVars>>
     \/ /\ part = "doctor" /\ DoctorNext
        /\ UNCHANGED <<ruleVars, moveVars, mirrorVars, textVars, mergeVars, fetchVars>>

McSpec == McInit /\ [][McNext]_<<ruleVars, moveVars, mirrorVars, textVars, mergeVars, fetchVars, doctorVars, part>>

(* The merges of the fleet's part of a file keep the member's part: its lines *)
(* (MemberTextSurvives), its entries and its registrations (EntriesAreKept).  *)
SharedFilesKept == MemberTextSurvives /\ EntriesAreKept
=============================================================================
