--------------------------- MODULE MCTypecheckMemo ---------------------------
(* Instances of TypecheckMemo for TLC. *)
EXTENDS TypecheckMemo, TLC

CONSTANTS p1, p2

OnePush   == {p1}
TwoPushes == {p1, p2}
PushSymmetry == Permutations(Proc)

(* api.mts declares what use.mts calls; api comes first in git status. *)
Files == {"api", "use"}
ApiFirst == [api |-> 1, use |-> 2]
Nothing == {}
UseOnly == {"use"}

(* Version 1 of api.mts breaks version 0 of use.mts, and version 2 of      *)
(* either file is half-finished.                                           *)
ErrorFiles(t) ==
    {f \in File : t[f] = 2}
        \cup IF t["api"] = 1 /\ t["use"] = 0 THEN {"use"} ELSE {}

Old        == [api |-> 0, use |-> 0]
ApiChanged == [api |-> 1, use |-> 0]

TwoVersions == {0, 1}
ThreeVersions == {0, 1, 2}
OnlyChanged == {ApiChanged}
EitherHead == {Old, ApiChanged}
==============================================================================
