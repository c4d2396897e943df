-------------------------- MODULE MCFleetHydration --------------------------
(* Instances of FleetHydration for TLC. *)
EXTENDS FleetHydration, TLC

CONSTANTS p1, p2,
          kept,   \* a path that every pack ships and git does not track
          extra,  \* a path that only the middle pack ships
          rules   \* a path the early packs ship and the consumer tracks

OneRun  == {p1}
TwoRuns == {p1, p2}
RunSymmetry == Permutations(Proc)

Paths == {kept, extra, rules}
OwnRules == {rules}
IndexBytes == (kept :> 8 @@ extra :> 8 @@ rules :> 8)

(* Pack 2 adds a file to pack 1 and changes nothing; pack 3 drops it and   *)
(* the tracked path, which it tombstones, and changes the kept one.        *)
Packs == 1..3
Bodies == << (kept :> 1 @@ extra :> 0 @@ rules :> 1),
             (kept :> 1 @@ extra :> 1 @@ rules :> 1),
             (kept :> 2 @@ extra :> 0 @@ rules :> 0) >>
Removed == << {}, {}, {rules} >>

(* The two sort orders agree on lower-case names.  They do not when extra  *)
(* is a README.md beside an index.mts, as in the mirrors that .gitignore   *)
(* lists.                                                                  *)
PlainOrder == <<extra, kept, rules>>
UpperLast  == <<kept, extra, rules>>

ChannelModes == {"refresh"}
CachedModes  == {"cached", "refresh"}
==============================================================================
