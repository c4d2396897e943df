----------------------------- MODULE InstallTurn -----------------------------
(***************************************************************************)
(* What ensureCurrentFleet relies on when it serialises hydrations of one  *)
(* checkout: a turn that at most one live run has, until the turn is lost  *)
(* (a stale takeover retired the lock of a run that is still alive).       *)
(* The lock directory protocol of HydrationLock implements it, and         *)
(* FleetHydration takes its turn through these actions.                    *)
(***************************************************************************)
CONSTANT Proc

VARIABLES
    turn,    \* the live runs that believe the turn is theirs
    lost     \* TRUE once the turn of a live run has been taken away

turnVars == <<turn, lost>>

TurnInit == turn = {} /\ lost = FALSE

Take(p) ==
    /\ p \notin turn
    /\ turn = {} \/ lost
    /\ turn' = turn \cup {p}
    /\ UNCHANGED lost

(* A run gives its turn back, or dies with it. *)
Leave(p) ==
    /\ p \in turn
    /\ turn' = turn \ {p}
    /\ UNCHANGED lost

Lose ==
    /\ ~lost
    /\ lost' = TRUE
    /\ UNCHANGED turn

TurnNext == Lose \/ \E p \in Proc : Take(p) \/ Leave(p)

TurnSpec == TurnInit /\ [][TurnNext]_turnVars
==============================================================================
