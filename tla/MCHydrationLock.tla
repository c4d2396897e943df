--------------------------- MODULE MCHydrationLock ---------------------------
(* Instances of HydrationLock for TLC. *)
EXTENDS HydrationLock

CONSTANTS p1, p2, p3

TwoRuns   == {p1, p2}
ThreeRuns == {p1, p2, p3}

(* A kill at any step. *)
AnyStep == Step \ Idle
(* A kill at any step that leaves no directory without its owner file. *)
OwnedSteps == AnyStep \ {"own", "rmdir"}
(* A kill between mkdirSync(lock) and writeFileSync(owner). *)
UnownedStep == {"own"}
==============================================================================
