----------------------------- MODULE ManagedText -----------------------------
(***************************************************************************)
(* Files of which the fleet owns some lines and the member the rest: a     *)
(* document with a fleet block (AGENTS.md, README, a workflow), the        *)
(* .gitignore with its owned regions and the .gitattributes cutouts.       *)
(* Every install writes the fleet's part again over what it finds.  A      *)
(* document is a sequence of lines; a line is one of a few kinds.          *)
(***************************************************************************)
EXTENDS Naturals, Sequences, FiniteSets, SequencesExt

CONSTANTS Documents,  \* documents a member may have before its first install
          Ignores,    \* .gitignore files, likewise
          Attributes, \* .gitattributes files, likewise
          MaxInstalls \* bound on the installs of a behaviour

VARIABLES doc, style,    \* the document and its comment style
          ignore,        \* the .gitignore
          attributes,    \* the .gitattributes
          docAtFirst, ignoreAtFirst, attributesAtFirst,
          installs

textVars == <<doc, style, ignore, attributes, docAtFirst, ignoreAtFirst,
              attributesAtFirst, installs>>

Trimmed(lines) ==
  LET inked == {i \in DOMAIN lines : lines[i] # "blank"}
  IN IF inked = {} THEN <<>>
     ELSE SubSeq(lines, CHOOSE i \in inked : \A j \in inked : i <= j,
                        CHOOSE i \in inked : \A j \in inked : j <= i)

Unpadded(lines) ==   \* without the empty lines at its end
  LET inked == {i \in DOMAIN lines : lines[i] # "blank"}
  IN IF inked = {} THEN <<"blank">>
     ELSE SubSeq(lines, 1, CHOOSE i \in inked : \A j \in inked : j <= i)

(***************************************************************************)
(* The fleet block of a document.                                          *)
(***************************************************************************)
FleetBlock == <<"begin", "fleet", "end">>

(* findFleetBlockSpans: an open marker pairs with the next close marker. *)
CloseAfter(lines, i) ==
  LET ends == {j \in DOMAIN lines : j > i /\ lines[j] = "end"}
  IN IF ends = {} THEN 0 ELSE CHOOSE j \in ends : \A k \in ends : j <= k

Spans(lines) ==
  LET Scan(acc, i) ==
        IF acc.over \/ i <= acc.upto \/ lines[i] # "begin" THEN acc
        ELSE LET close == CloseAfter(lines, i)
             IN IF close = 0 THEN [acc EXCEPT !.over = TRUE]
                ELSE [acc EXCEPT !.upto = close, !.spans = Append(@, <<i, close>>)]
  IN FoldLeft(Scan, [spans |-> <<>>, upto |-> 0, over |-> FALSE],
              [i \in DOMAIN lines |-> i]).spans

(* spliceFleetBlock over existing blocks: the first is replaced, later ones *)
(* go, and with a block between two blanks goes one of them.                *)
ReplacedBlocks(lines, spans) ==
  LET Later(acc, span) ==
        LET between == SubSeq(lines, acc.cursor, span[1] - 1)
            doubled == /\ between # <<>> /\ Last(between) = "blank"
                       /\ span[2] < Len(lines) /\ lines[span[2] + 1] = "blank"
        IN [out |-> acc.out \o (IF doubled THEN Front(between) ELSE between),
            cursor |-> span[2] + 1]
      first == [out |-> SubSeq(lines, 1, spans[1][1] - 1) \o FleetBlock,
                cursor |-> spans[1][2] + 1]
      all   == FoldLeft(Later, first, Tail(spans))
  IN all.out \o SubSeq(lines, all.cursor, Len(lines))

(* Without a block: before the first second-level heading of a markdown file *)
(* (never its first line), else at the end.                                  *)
InsertedBlock(lines, comments) ==
  LET headings == {i \in DOMAIN lines : i > 1 /\ lines[i] = "heading"}
      at == IF headings = {} THEN Len(lines) + 1 ELSE CHOOSE i \in headings : \A j \in headings : i <= j
  IN IF comments = "html"
     THEN SubSeq(lines, 1, at - 1) \o FleetBlock \o <<"blank">> \o SubSeq(lines, at, Len(lines))
     ELSE Unpadded(lines) \o <<"blank">> \o FleetBlock \o <<"blank">>

Spliced(lines, comments) ==
  LET spans == Spans(lines)
  IN IF spans # <<>> THEN ReplacedBlocks(lines, spans) ELSE InsertedBlock(lines, comments)

(***************************************************************************)
(* The owned regions of a .gitignore.                                      *)
(***************************************************************************)
Opens  == [l \in {"<fleet>", "<repo>", "<pack>", "<allow>"} |->
             CASE l = "<fleet>" -> "fleet" [] l = "<repo>" -> "repo"
               [] l = "<pack>" -> "pack" [] OTHER -> "allow"]
Closes == [l \in {"</fleet>", "</repo>", "</pack>", "</allow>"} |->
             CASE l = "</fleet>" -> "fleet" [] l = "</repo>" -> "repo"
               [] l = "</pack>" -> "pack" [] OTHER -> "allow"]

NoSections == [fleet |-> <<>>, repo |-> <<>>, pack |-> <<>>, allow |-> <<>>,
               deny |-> FALSE, stack |-> <<>>, bad |-> FALSE]

(* updateGitignoreOwners: the pack and the allowlist may stand inside the *)
(* fleet region, no other region inside another.                          *)
OwnersAfter(acc, line) ==
  IF line \in DOMAIN Closes
    THEN IF acc.stack # <<>> /\ Last(acc.stack) = Closes[line]
           THEN [acc EXCEPT !.stack = Front(@)] ELSE [acc EXCEPT !.bad = TRUE]
  ELSE IF /\ acc.stack # <<>>
          /\ ~(Opens[line] \in {"pack", "allow"} /\ Last(acc.stack) = "fleet")
    THEN [acc EXCEPT !.bad = TRUE]
    ELSE [acc EXCEPT !.stack = Append(@, Opens[line])]

(* parseGitignoreSections; a line outside every region is the member's unless *)
(* the file marks only the member's region.                                   *)
Sections(lines, unmarked) ==
  LET kinds == Range(lines)
      default == IF unmarked # "" THEN unmarked
                 ELSE IF kinds \cap {"<fleet>", "</fleet>"} # {} \/ kinds \cap {"<repo>", "</repo>"} = {}
                   THEN "repo" ELSE "fleet"
      Add(acc, line) ==
        LET owner == IF acc.stack = <<>> THEN default ELSE Last(acc.stack)
        IN IF acc.bad THEN acc
           ELSE IF line \in DOMAIN Opens \cup DOMAIN Closes THEN OwnersAfter(acc, line)
           ELSE IF line = "*" /\ owner \in {"fleet", "repo"} THEN [acc EXCEPT !.deny = TRUE]
           ELSE [acc EXCEPT ![owner] = Append(@, line)]
      parsed == FoldLeft(Add, NoSections, lines)
      open(part) == Trimmed(IF parsed.deny THEN SelectSeq(part, LAMBDA l : l # "!*/") ELSE part)
  IN [parsed EXCEPT !.fleet = open(@), !.repo = open(@), !.pack = Trimmed(@),
                    !.allow = Trimmed(@), !.bad = @ \/ parsed.stack # <<>>]

(* closeGitignorePackDirectories: a directory made visible under a pack root *)
(* is closed again, once.                                                    *)
Closed(allowed, pack) ==
  LET Close(acc, line) ==
        LET once == IF line \in Range(acc) THEN acc ELSE Append(acc, line)
        IN IF line = "!/dir/" /\ "dir/file" \in Range(pack) /\ "/dir/*" \notin Range(once)
           THEN Append(once, "/dir/*") ELSE once
  IN FoldLeft(Close, <<>>, allowed)

Region(open, lines, close) == IF lines = <<>> THEN <<>> ELSE <<open>> \o lines \o <<close>>

(* composeGitignore with a new fleet block, pack list or allowlist (<<>>: keep). *)
Composed(lines, block, pack, allow) ==
  LET current == Sections(lines, "")
      given   == Sections(block, "fleet")
      fleet   == IF block = <<>> THEN current.fleet ELSE given.fleet
      packed  == IF pack = <<>> THEN current.pack ELSE pack
      allowed == IF allow = <<>> THEN current.allow ELSE allow
      deny    == IF Trimmed(lines) = <<>> /\ block # <<>> THEN given.deny ELSE current.deny
  IN (IF deny THEN <<"*", "!*/">> ELSE <<>>) \o fleet
     \o Region("<pack>", packed, "</pack>")
     \o <<"<repo>">> \o current.repo \o <<"</repo>">>
     \o Region("<allow>", Closed(allowed, packed), "</allow>")

(* stripLegacyPackBlock and stripLegacyUntrackEntriesFromFleetBlock: what an *)
(* older fetcher wrote without markers, or between the fleet's.              *)
WithoutLegacy(lines) ==
  LET header == {i \in DOMAIN lines : lines[i] = "# legacy list"}
      start  == CHOOSE i \in header : \A j \in header : i <= j
      stop   == {j \in DOMAIN lines : j > start /\ lines[j] \in {"# note", "<fleet>", "<repo>", "</repo>",
                                                               "</fleet>", "<pack>", "</pack>", "<allow>", "</allow>"}}
      ends   == IF stop = {} THEN Len(lines) + 1 ELSE CHOOSE j \in stop : \A k \in stop : j <= k
  IN IF header = {} THEN lines
     ELSE SubSeq(lines, 1, start - 1) \o SubSeq(lines, ends, Len(lines))
WithoutOldEntries(lines) ==
  LET begin == {i \in DOMAIN lines : lines[i] = "<fleet>"}
      end   == {i \in DOMAIN lines : lines[i] = "</fleet>"}
      first(set) == CHOOSE i \in set : \A j \in set : i <= j
  IN IF begin = {} \/ end = {} \/ "<pack>" \in Range(lines) THEN lines
     ELSE SubSeq(lines, 1, first(begin))
          \o SelectSeq(SubSeq(lines, first(begin) + 1, first(end) - 1), LAMBDA l : l # "dir/file")
          \o SubSeq(lines, first(end), Len(lines))
Migrated(lines) == WithoutLegacy(WithoutOldEntries(lines))

FleetRules == <<"<fleet>", "rule", "</fleet>">>
PackList   == <<"dir/file">>
AllowList  == <<"!/dir/", "!/dir/kept">>

(***************************************************************************)
(* spliceFleetOwnedCutouts: fleet lines first, the member's in one region. *)
(* An unclosed region of a cutout file runs to the end of the file.        *)
(***************************************************************************)
CutoutRegions(lines, open, close) ==
  LET Scan(acc, i) ==
        IF i <= acc.upto \/ lines[i] # open THEN acc
        ELSE LET ends == {j \in DOMAIN lines : j > i /\ lines[j] = close}
                 last == IF ends = {} THEN Len(lines) + 1 ELSE CHOOSE j \in ends : \A k \in ends : j <= k
             IN [upto |-> last, regions |-> Append(acc.regions, <<i, last>>)]
  IN FoldLeft(Scan, [upto |-> 0, regions |-> <<>>], [i \in DOMAIN lines |-> i]).regions

Outside(lines, regions) ==
  LET Kept(i) == \A r \in Range(regions) : ~(r[1] <= i /\ i <= r[2])
      kept    == SelectSeq([i \in DOMAIN lines |-> i], Kept)
  IN [k \in DOMAIN kept |-> lines[kept[k]]]

MemberCutout(lines) ==
  LET fleet == CutoutRegions(lines, "<fleet>", "</fleet>")
      repo  == CutoutRegions(lines, "<repo>", "</repo>")
      inner == FlattenSeq([k \in DOMAIN repo |-> SubSeq(lines, repo[k][1] + 1, repo[k][2] - 1)])
  IN Trimmed(IF fleet # <<>>
             THEN SelectSeq(Outside(lines, fleet), LAMBDA l : l \notin {"<repo>", "</repo>"})
             ELSE IF repo # <<>> THEN inner ELSE lines)

Cutout(lines) == <<"rule", "<repo>">> \o MemberCutout(lines) \o <<"</repo>">>

(***************************************************************************)
(* Installs.                                                               *)
(***************************************************************************)
TextInit ==
  /\ style \in {"html", "hash"}
  /\ \/ doc \in Documents /\ ignore = <<>> /\ attributes = <<>>
     \/ doc = <<"blank">> /\ ignore \in Ignores /\ attributes \in {<<>>}
     \/ doc = <<"blank">> /\ ignore = <<>> /\ attributes \in Attributes
  /\ docAtFirst = doc /\ ignoreAtFirst = ignore /\ attributesAtFirst = attributes
  /\ installs = 0

Refused == Sections(ignore, "").bad

(* installSegments; a .gitignore whose markers do not balance refuses the install. *)
InstallText ==
  /\ installs < MaxInstalls /\ installs' = installs + 1
  /\ doc' = Spliced(doc, style)
  /\ ignore' = IF Refused THEN ignore ELSE Composed(ignore, FleetRules, <<>>, <<>>)
  /\ attributes' = IF Refused THEN attributes ELSE Cutout(attributes)
  /\ UNCHANGED <<style, docAtFirst, ignoreAtFirst, attributesAtFirst>>

(* refreshFleetPackIgnores of a thin install. *)
RefreshPackIgnores ==
  /\ installs \in 1..(MaxInstalls - 1) /\ installs' = installs + 1
  /\ ~Sections(Migrated(ignore), "").bad
  /\ ignore' = Composed(Migrated(ignore), <<>>, PackList, AllowList)
  /\ UNCHANGED <<doc, style, attributes, docAtFirst, ignoreAtFirst, attributesAtFirst>>

TextNext == InstallText \/ RefreshPackIgnores

(***************************************************************************)
(* What the member wrote.                                                  *)
(***************************************************************************)
Inked(lines) == SelectSeq(lines, LAMBDA l : l # "blank")
OutsideBlocks(lines) == Inked(Outside(lines, Spans(lines)))
Balanced(lines) ==
  \A i \in DOMAIN lines : lines[i] = "begin" =>
    \E j \in DOMAIN lines : /\ j > i /\ lines[j] = "end"
                            /\ \A k \in (i + 1)..(j - 1) : lines[k] # "begin"

(* Install after install, the lines a member wrote outside the fleet's block  *)
(* and regions keep their order and number in all three files, and a second   *)
(* install writes what it finds: spliceFleetBlock, composeGitignore and       *)
(* spliceFleetOwnedCutouts over what each other and they themselves wrote.    *)
MemberTextSurvives ==
  /\ Balanced(docAtFirst) => OutsideBlocks(doc) = OutsideBlocks(docAtFirst)
  /\ installs > 0 /\ Balanced(docAtFirst) => Spliced(doc, style) = doc
  /\ ~Sections(ignoreAtFirst, "").bad =>
       /\ ~Refused
       /\ LET own == Sections(ignoreAtFirst, "").repo
          IN Inked(Sections(ignore, "").repo) \in {Inked(own), Inked(WithoutLegacy(own))}
       /\ installs > 0 => Composed(ignore, FleetRules, <<>>, <<>>) = ignore
  /\ ~Sections(attributesAtFirst, "").bad =>
       MemberCutout(attributes) = MemberCutout(attributesAtFirst)

=============================================================================
