--------------------------- MODULE MCHydrationRuns ---------------------------
(***************************************************************************)
(* Two explorations of one instance.  In part "channel" nobody loses its   *)
(* turn or pins a pack: the channel and the clock move, runs are killed    *)
(* and files drift.  In part "overlap" the lock of a live run is retired   *)
(* and pinned installs run beside the others.                              *)
(***************************************************************************)
EXTENDS MCFleetHydration

VARIABLE part

McInit == Init /\ part \in {"channel", "overlap"} /\ (part = "overlap" => green = 2)
McNext ==
  /\ part' = part
  /\ \/ \E p \in Proc : Ensure(p) \/ Install(p)
     \/ /\ part = "channel"
        /\ \/ \E p \in Proc : Crash(p)
           \/ \E f \in File : Drift(f)
           \/ GreenMoves \/ ClockMoves
     \/ /\ part = "overlap"
        /\ LoseTurn \/ \E p \in Proc, v \in Pack : StartPinned(p, v)
  /\ part = "overlap" => faults' = 0 /\ \A p \in Proc : mode'[p] # "cached"
McSpec == McInit /\ [][McNext]_<<vars, part>>
==============================================================================
