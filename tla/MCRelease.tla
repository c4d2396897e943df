------------------------------ MODULE MCRelease ------------------------------
(* Releases of a machine-built package with a version bump, two at a time in  *)
(* part "staging"; in part "record" one release, of natives already built,    *)
(* that is given up while it is being staged, and one other package.          *)
EXTENDS ReleaseRecord

VARIABLE part

McTargets == {"linux-x64", "darwin-arm64", "wasm32-wasi"}
McCommits == {"head", "bump"}
McParents(sha) == IF sha = "bump" THEN {"head"} ELSE {}
McBumpOf(sha) == IF sha = "head" THEN "bump" ELSE None

Built == << [sha |-> "head", state |-> "success", built |-> MatrixOf(McTargets)] >>

McInit ==
  \/ /\ part = "record"
     /\ PromiseInit /\ RecordInit
     /\ builds = Built /\ place = IdlePlace
     /\ runs = << >> /\ job = NoJob /\ stages = << >> /\ public = NoTarball
     /\ receipts = << >> /\ coord = IdleCoord
  \/ /\ part = "staging"
     /\ ReleaseInit /\ RecordInit
     /\ member = [name \in Members |-> "absent"]
McNext ==
  /\ part' = part
  /\ \/ part = "record" /\ Next /\ Len(runs') <= 1
     \/ part = "staging" /\ ReleaseNext /\ UNCHANGED recordVars
McSpec == McInit /\ [][McNext]_<<vars, part>>
=============================================================================
