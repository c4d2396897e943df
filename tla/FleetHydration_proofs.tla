----------------------- MODULE FleetHydration_proofs -----------------------
(***************************************************************************)
(* Proofs about hydration, for every set of runs, packs and payload paths. *)
(***************************************************************************)
EXTENDS FleetHydration, TLAPS

(* The inductive strengthening of TypeOK, in three parts: the runs' local  *)
(* state, with a pack to install where one is installed, the files of the  *)
(* checkout, and the rest.                                                 *)
RunOK ==
    /\ pc \in [Proc -> PC]
    /\ mode \in [Proc -> AllModes]
    /\ target \in [Proc -> Pack \cup {0}]
    /\ latest \in [Proc -> Pack \cup {0}]
    /\ seen \in [Proc -> Nat]
    /\ todo \in [Proc -> SUBSET File]
    /\ \A p \in Proc : pc[p] \notin {"placing", "pruning"} => todo[p] = {}
    /\ exit \in [Proc -> {"none", "ok", "failed"}]
    /\ \A p \in Proc : pc[p] \in Installing \cup {"fetching", "markReceipt"}
                        => target[p] \in Pack

FilesOK ==
    /\ disk \in [File -> Nat]
    /\ ref \in Pack \cup {0}
    /\ appliedFiles \in SUBSET File
    /\ manifest \in [File -> Nat]
    /\ receipt \in [pack : Pack \cup {0}, at : Nat]
    /\ placed \in SUBSET File

WorldOK ==
    /\ turn \in SUBSET Proc /\ lost \in BOOLEAN
    /\ green \in Pack /\ clock \in Nat
    /\ moves \in Nat /\ faults \in Nat
    /\ muddled \in BOOLEAN /\ meddled \in BOOLEAN

TypeInv == RunOK /\ FilesOK /\ WorldOK

(* The parts of TypeInv give TypeOK. *)
LEMMA TypeInvTypes == TypeInv => TypeOK
  BY DEF TypeOK, TypeInv, RunOK, FilesOK, WorldOK

(* A run that ends, or returns through the finally block, is well typed.   *)
LEMMA EndsTyped ==
  ASSUME RunOK, NEW p \in Proc, NEW code \in {"none", "ok", "failed"},
         Ends(p, code)
  PROVE  RunOK'
  BY DEF RunOK, Ends, Goto, PC, InTurn, Installing, AllModes

(* The same of a run that returns a result of its hydration. *)
LEMMA ReturnsTyped ==
  ASSUME RunOK, NEW p \in Proc, NEW code \in {"none", "ok", "failed"},
         Returns(p, code)
  PROVE  RunOK'
<1>1. CASE mode[p] = "pinned"
  BY <1>1, EndsTyped DEF Returns
<1>2. CASE mode[p] # "pinned"
  BY <1>2 DEF RunOK, Returns, Goto, local, PC, InTurn, Installing
<1>3. QED
  BY <1>1, <1>2

(* A fresh checkout and idle runs are well typed. *)
LEMMA TypeInit == Init => TypeInv
<1> SUFFICES ASSUME Init PROVE TypeInv
  OBVIOUS
<1>1. RunOK
  BY DEF Init, RunOK, PC, InTurn, Installing, AllModes
<1>2. FilesOK
  BY HydrationAssumption DEF HydrationAssumption, Init, FilesOK, NoReceipt
<1>3. WorldOK
  BY DEF Init, WorldOK, T!TurnInit
<1>4. QED
  BY <1>1, <1>2, <1>3 DEF TypeInv

(* One step per action: each keeps every variable's type.                  *)
LEMMA TypeStep == TypeInv /\ [Next]_vars => TypeInv'
<1> SUFFICES ASSUME RunOK, FilesOK, WorldOK, [Next]_vars
             PROVE  RunOK' /\ FilesOK' /\ WorldOK'
  BY DEF TypeInv
<1> USE HydrationAssumption
    DEF HydrationAssumption, Meddles, markers, local, history, world, turnVars
<1>1. ASSUME NEW p \in Proc, NEW m \in Modes, NEW r \in BOOLEAN,
             StartEnsure(p, m, r)
      PROVE  RunOK' /\ FilesOK' /\ WorldOK'
  <2>1. RunOK'
    <3>1. CASE Ends(p, "ok")
      BY <3>1, EndsTyped
    <3>2. CASE ~Ends(p, "ok")
      <4>1. m \in AllModes /\ receipt.at \in Nat
        BY DEF FilesOK
      <4>2. /\ Goto(p, "waiting")
            /\ mode' = [mode EXCEPT ![p] = m]
            /\ seen' = [seen EXCEPT ![p] = receipt.at]
            /\ exit' = [exit EXCEPT ![p] = "none"]
            /\ UNCHANGED <<target, latest, todo>>
        BY <1>1, <3>2 DEF StartEnsure
      <4>3. QED
        BY <1>1, <4>1, <4>2
           DEF StartEnsure, RunOK, Goto, PC, InTurn, Installing
    <3>3. QED
      BY <3>1, <3>2
  <2>2. FilesOK'
    <3>1. Repaired(r) \in [File -> Nat]
      BY DEF Repaired, RepairedBody, FilesOK
    <3>2. QED
      BY <1>1, <3>1 DEF StartEnsure, FilesOK
  <2>3. WorldOK'
    BY <1>1 DEF StartEnsure, WorldOK
  <2>4. QED
    BY <2>1, <2>2, <2>3
<1>2. ASSUME NEW p \in Proc, TakeTurn(p)
      PROVE  RunOK' /\ FilesOK' /\ WorldOK'
  <2>1. RunOK'
    BY <1>2 DEF TakeTurn, T!Take, RunOK, Goto, PC, InTurn, Installing
  <2>2. FilesOK'
    BY <1>2 DEF TakeTurn, T!Take, RunOK, WorldOK, FilesOK
  <2>3. WorldOK'
    BY <1>2 DEF TakeTurn, T!Take, WorldOK
  <2>4. QED
    BY <2>1, <2>2, <2>3
<1>3. ASSUME NEW p \in Proc, PeerDone(p)
      PROVE  RunOK' /\ FilesOK' /\ WorldOK'
  <2>1. RunOK'
    BY <1>3, EndsTyped DEF RunOK, PeerDone
  <2>2. FilesOK'
    BY <1>3 DEF PeerDone, RunOK, WorldOK, FilesOK
  <2>3. WorldOK'
    BY <1>3 DEF PeerDone, WorldOK
  <2>4. QED
    BY <2>1, <2>2, <2>3
<1>4. ASSUME NEW p \in Proc, TimeOut(p)
      PROVE  RunOK' /\ FilesOK' /\ WorldOK'
  <2>1. RunOK'
    BY <1>4, EndsTyped DEF RunOK, TimeOut
  <2>2. FilesOK'
    BY <1>4 DEF TimeOut, RunOK, WorldOK, FilesOK
  <2>3. WorldOK'
    BY <1>4 DEF TimeOut, WorldOK
  <2>4. QED
    BY <2>1, <2>2, <2>3
<1>5. ASSUME NEW p \in Proc, ReadLatest(p)
      PROVE  RunOK' /\ FilesOK' /\ WorldOK'
  <2>1. RunOK'
    BY <1>5 DEF ReadLatest, RunOK, FilesOK, Goto, PC, InTurn, Installing
  <2>2. FilesOK'
    BY <1>5 DEF ReadLatest, RunOK, WorldOK, FilesOK
  <2>3. WorldOK'
    BY <1>5 DEF ReadLatest, WorldOK
  <2>4. QED
    BY <2>1, <2>2, <2>3
<1>6. ASSUME NEW p \in Proc, ResolveNothing(p)
      PROVE  RunOK' /\ FilesOK' /\ WorldOK'
  <2>1. RunOK'
    BY <1>6, ReturnsTyped DEF ResolveNothing
  <2>2. FilesOK'
    BY <1>6 DEF ResolveNothing, RunOK, WorldOK, FilesOK
  <2>3. WorldOK'
    BY <1>6 DEF ResolveNothing, WorldOK
  <2>4. QED
    BY <2>1, <2>2, <2>3
<1>7. ASSUME NEW p \in Proc, RefuseRollback(p)
      PROVE  RunOK' /\ FilesOK' /\ WorldOK'
  <2>1. RunOK'
    BY <1>7, ReturnsTyped DEF RefuseRollback
  <2>2. FilesOK'
    BY <1>7 DEF RefuseRollback, RunOK, WorldOK, FilesOK
  <2>3. WorldOK'
    BY <1>7 DEF RefuseRollback, WorldOK
  <2>4. QED
    BY <2>1, <2>2, <2>3
<1>8. ASSUME NEW p \in Proc, ResolveGreen(p)
      PROVE  RunOK' /\ FilesOK' /\ WorldOK'
  <2>1. RunOK'
    <3>1. CASE Complete(green)
      BY <1>8, <3>1 DEF ResolveGreen, RunOK, WorldOK, Goto, PC, InTurn, Installing
    <3>2. CASE ~Complete(green)
      BY <1>8, <3>2 DEF ResolveGreen, RunOK, WorldOK, Goto, PC, InTurn, Installing
    <3>3. QED
      BY <3>1, <3>2
  <2>2. FilesOK'
    BY <1>8 DEF ResolveGreen, RunOK, WorldOK, FilesOK
  <2>3. WorldOK'
    BY <1>8 DEF ResolveGreen, WorldOK
  <2>4. QED
    BY <2>1, <2>2, <2>3
<1>9. ASSUME NEW p \in Proc, MarkReceipt(p)
      PROVE  RunOK' /\ FilesOK' /\ WorldOK'
  <2>1. RunOK'
    BY <1>9, ReturnsTyped DEF MarkReceipt
  <2>2. FilesOK'
    BY <1>9 DEF MarkReceipt, RunOK, WorldOK, FilesOK
  <2>3. WorldOK'
    BY <1>9 DEF MarkReceipt, WorldOK
  <2>4. QED
    BY <2>1, <2>2, <2>3
<1>10. ASSUME NEW p \in Proc, LeaveTurn(p)
      PROVE  RunOK' /\ FilesOK' /\ WorldOK'
  <2>1. RunOK'
    BY <1>10, EndsTyped DEF RunOK, LeaveTurn, T!Leave
  <2>2. FilesOK'
    BY <1>10 DEF LeaveTurn, T!Leave, RunOK, WorldOK, FilesOK
  <2>3. WorldOK'
    BY <1>10 DEF LeaveTurn, T!Leave, WorldOK
  <2>4. QED
    BY <2>1, <2>2, <2>3
<1>11. ASSUME NEW p \in Proc, FetchFails(p)
      PROVE  RunOK' /\ FilesOK' /\ WorldOK'
  <2>1. RunOK'
    BY <1>11, ReturnsTyped DEF FetchFails
  <2>2. FilesOK'
    BY <1>11 DEF FetchFails, RunOK, WorldOK, FilesOK
  <2>3. WorldOK'
    BY <1>11 DEF FetchFails, WorldOK
  <2>4. QED
    BY <2>1, <2>2, <2>3
<1>12. ASSUME NEW p \in Proc, FetchVerified(p)
      PROVE  RunOK' /\ FilesOK' /\ WorldOK'
  <2>1. RunOK'
    <3>1. Owned(p) \in SUBSET File
      BY DEF Owned, Ships
    <3>2. QED
      BY <1>12, <3>1 DEF FetchVerified, RunOK, Goto, PC, InTurn, Installing
  <2>2. FilesOK'
    BY <1>12 DEF FetchVerified, RunOK, WorldOK, FilesOK
  <2>3. WorldOK'
    BY <1>12 DEF FetchVerified, WorldOK
  <2>4. QED
    BY <2>1, <2>2, <2>3
<1>13. ASSUME NEW p \in Proc, InstallFails(p)
      PROVE  RunOK' /\ FilesOK' /\ WorldOK'
  <2>1. RunOK'
    BY <1>13, ReturnsTyped DEF InstallFails
  <2>2. FilesOK'
    BY <1>13 DEF InstallFails, RunOK, WorldOK, FilesOK
  <2>3. WorldOK'
    BY <1>13 DEF InstallFails, WorldOK
  <2>4. QED
    BY <2>1, <2>2, <2>3
<1>14. ASSUME NEW p \in Proc, NEW f \in File, Place(p, f)
      PROVE  RunOK' /\ FilesOK' /\ WorldOK'
  <2>1. RunOK'
    BY <1>14 DEF Place, RunOK, Goto, PC, InTurn, Installing
  <2>2. FilesOK'
    <3>1. target[p] \in Pack
      BY <1>14 DEF Place, RunOK, Installing
    <3>2. Body[target[p]][f] \in Nat
      BY ZenonT(30), <3>1
    <3>3. QED
      BY <1>14, <3>2 DEF Place, FilesOK
  <2>3. WorldOK'
    BY <1>14 DEF Place, WorldOK
  <2>4. QED
    BY <2>1, <2>2, <2>3
<1>15. ASSUME NEW p \in Proc, NEW f \in File, Prune(p, f)
      PROVE  RunOK' /\ FilesOK' /\ WorldOK'
  <2>1. RunOK'
    BY <1>15 DEF Prune, RunOK, Goto, PC, InTurn, Installing
  <2>2. FilesOK'
    BY <1>15 DEF Prune, RunOK, WorldOK, FilesOK
  <2>3. WorldOK'
    BY <1>15 DEF Prune, WorldOK
  <2>4. QED
    BY <2>1, <2>2, <2>3
<1>16. ASSUME NEW p \in Proc, StartPrune(p)
      PROVE  RunOK' /\ FilesOK' /\ WorldOK'
  <2>1. RunOK'
    <3>1. StalePaths(p) \in SUBSET File
      BY <1>16 DEF StartPrune, StalePaths, RunOK, FilesOK, Installing
    <3>2. QED
      BY <1>16, <3>1 DEF StartPrune, RunOK, Goto, PC, InTurn, Installing
  <2>2. FilesOK'
    BY <1>16 DEF StartPrune, RunOK, WorldOK, FilesOK
  <2>3. WorldOK'
    BY <1>16 DEF StartPrune, WorldOK
  <2>4. QED
    BY <2>1, <2>2, <2>3
<1>17. ASSUME NEW p \in Proc, FinishFiles(p)
      PROVE  RunOK' /\ FilesOK' /\ WorldOK'
  <2>1. RunOK'
    BY <1>17 DEF FinishFiles, RunOK, Goto, PC, InTurn, Installing
  <2>2. FilesOK'
    BY <1>17 DEF FinishFiles, RunOK, WorldOK, FilesOK
  <2>3. WorldOK'
    BY <1>17 DEF FinishFiles, WorldOK
  <2>4. QED
    BY <2>1, <2>2, <2>3
<1>18. ASSUME NEW p \in Proc, MergeSegments(p)
      PROVE  RunOK' /\ FilesOK' /\ WorldOK'
  <2>1. RunOK'
    BY <1>18 DEF MergeSegments, RunOK, Goto, PC, InTurn, Installing
  <2>2. FilesOK'
    BY <1>18 DEF MergeSegments, RunOK, WorldOK, FilesOK
  <2>3. WorldOK'
    BY <1>18 DEF MergeSegments, WorldOK
  <2>4. QED
    BY <2>1, <2>2, <2>3
<1>19. ASSUME NEW p \in Proc, MarkRef(p)
      PROVE  RunOK' /\ FilesOK' /\ WorldOK'
  <2>1. RunOK'
    BY <1>19 DEF MarkRef, RunOK, Goto, PC, InTurn, Installing
  <2>2. FilesOK'
    BY <1>19 DEF MarkRef, RunOK, WorldOK, FilesOK
  <2>3. WorldOK'
    BY <1>19 DEF MarkRef, WorldOK
  <2>4. QED
    BY <2>1, <2>2, <2>3
<1>20. ASSUME NEW p \in Proc, MarkFiles(p)
      PROVE  RunOK' /\ FilesOK' /\ WorldOK'
  <2>1. RunOK'
    BY <1>20 DEF MarkFiles, RunOK, Goto, PC, InTurn, Installing
  <2>2. FilesOK'
    <3>1. Owned(p) \in SUBSET File
      BY DEF Owned, Ships
    <3>2. QED
      BY <1>20, <3>1 DEF MarkFiles, FilesOK
  <2>3. WorldOK'
    BY <1>20 DEF MarkFiles, WorldOK
  <2>4. QED
    BY <2>1, <2>2, <2>3
<1>21. ASSUME NEW p \in Proc, MarkManifest(p)
      PROVE  RunOK' /\ FilesOK' /\ WorldOK'
  <2>1. RunOK'
    <3>1. CASE mode[p] = "pinned"
      BY <1>21, <3>1, EndsTyped DEF MarkManifest
    <3>2. CASE mode[p] # "pinned"
      BY ZenonT(30), <1>21, <3>2 DEF MarkManifest, RunOK, Goto, PC, InTurn, Installing
    <3>3. QED
      BY <3>1, <3>2
  <2>2. FilesOK'
    <3>1. target[p] \in Pack
      BY <1>21 DEF MarkManifest, RunOK, Installing
    <3>2. \A f \in File : Body[target[p]][f] \in Nat
      BY <3>1
    <3>3. manifest' \in [File -> Nat]
      BY <1>21, <3>2 DEF MarkManifest
    <3>4. QED
      BY <1>21, <3>3 DEF MarkManifest, FilesOK
  <2>3. WorldOK'
    BY <1>21 DEF MarkManifest, WorldOK
  <2>4. QED
    BY <2>1, <2>2, <2>3
<1>22. ASSUME NEW p \in Proc, Crash(p)
      PROVE  RunOK' /\ FilesOK' /\ WorldOK'
  <2>1. RunOK'
    BY <1>22, EndsTyped DEF RunOK, Crash, TornWrite, T!Leave
  <2>2. FilesOK'
    <3>1. TornWrite(p) /\ UNCHANGED receipt
      BY <1>22 DEF Crash
    <3>2. Owned(p) \in SUBSET File
      BY DEF Owned, Ships
    <3>3. QED
      BY SMTT(30), <3>1, <3>2 DEF TornWrite, FilesOK, RunOK
  <2>3. WorldOK'
    BY <1>22 DEF Crash, TornWrite, T!Leave, WorldOK
  <2>4. QED
    BY <2>1, <2>2, <2>3
<1>23. ASSUME NEW p \in Proc, NEW v \in Pack, StartPinned(p, v)
      PROVE  RunOK' /\ FilesOK' /\ WorldOK'
  <2>1. RunOK'
    BY <1>23 DEF StartPinned, RunOK, Goto, PC, InTurn, Installing
  <2>2. FilesOK'
    BY <1>23 DEF StartPinned, RunOK, WorldOK, FilesOK
  <2>3. WorldOK'
    BY <1>23 DEF StartPinned, WorldOK
  <2>4. QED
    BY <2>1, <2>2, <2>3
<1>24. ASSUME LoseTurn
      PROVE  RunOK' /\ FilesOK' /\ WorldOK'
  <2>1. RunOK'
    BY <1>24 DEF LoseTurn, T!Lose, RunOK, Goto, PC, InTurn, Installing
  <2>2. FilesOK'
    BY <1>24 DEF LoseTurn, T!Lose, RunOK, WorldOK, FilesOK
  <2>3. WorldOK'
    BY <1>24 DEF LoseTurn, T!Lose, WorldOK
  <2>4. QED
    BY <2>1, <2>2, <2>3
<1>25. ASSUME GreenMoves
      PROVE  RunOK' /\ FilesOK' /\ WorldOK'
  <2>1. RunOK'
    BY <1>25 DEF GreenMoves, RunOK, Goto, PC, InTurn, Installing
  <2>2. FilesOK'
    BY <1>25 DEF GreenMoves, RunOK, WorldOK, FilesOK
  <2>3. WorldOK'
    BY <1>25 DEF GreenMoves, WorldOK
  <2>4. QED
    BY <2>1, <2>2, <2>3
<1>26. ASSUME ClockMoves
      PROVE  RunOK' /\ FilesOK' /\ WorldOK'
  <2>1. RunOK'
    BY <1>26 DEF ClockMoves, RunOK, Goto, PC, InTurn, Installing
  <2>2. FilesOK'
    BY <1>26 DEF ClockMoves, RunOK, WorldOK, FilesOK
  <2>3. WorldOK'
    BY <1>26 DEF ClockMoves, WorldOK
  <2>4. QED
    BY <2>1, <2>2, <2>3
<1>27. ASSUME NEW f \in File, Drift(f)
      PROVE  RunOK' /\ FilesOK' /\ WorldOK'
  <2>1. RunOK'
    BY <1>27 DEF Drift, RunOK, Goto, PC, InTurn, Installing
  <2>2. FilesOK'
    BY <1>27 DEF Drift, RunOK, WorldOK, FilesOK
  <2>3. WorldOK'
    BY <1>27 DEF Drift, WorldOK
  <2>4. QED
    BY <2>1, <2>2, <2>3
<1>28. ASSUME UNCHANGED vars
      PROVE  RunOK' /\ FilesOK' /\ WorldOK'
  BY <1>28 DEF vars, RunOK, FilesOK, WorldOK
<1>29. QED
  BY <1>1, <1>2, <1>3, <1>4, <1>5, <1>6, <1>7, <1>8, <1>9, <1>10,
     <1>11, <1>12, <1>13, <1>14, <1>15, <1>16, <1>17, <1>18, <1>19, <1>20,
     <1>21, <1>22, <1>23, <1>24, <1>25, <1>26, <1>27, <1>28
     DEF Next, Ensure, Install, Environment

(***************************************************************************)
(* Type correctness: no step of a run, crash, drift or move of the channel *)
(* takes a variable out of its type.                                       *)
(***************************************************************************)
THEOREM HydrationTypeCorrect == Spec => []TypeOK
<1>1. Init => TypeInv
  BY TypeInit
<1>2. TypeInv /\ [Next]_vars => TypeInv'
  BY TypeStep
<1>3. TypeInv => TypeOK
  BY TypeInvTypes
<1>4. QED
  BY <1>1, <1>2, <1>3, PTL DEF Spec

(***************************************************************************)
(* The inductive invariant of the receipt.  A run past the lock that is    *)
(* not pinned has the turn, and while no turn was lost it is alone with    *)
(* it: so the receipt it read is still the receipt, and the pack it        *)
(* installs is not older than the receipt it will replace.                 *)
(***************************************************************************)
TurnInv ==
    /\ ~lost => \A p, q \in turn : p = q
    /\ \A p \in turn : mode[p] # "pinned" /\ pc[p] \notin {"idle", "waiting"}
    /\ \A p \in Proc :
          /\ mode[p] # "pinned" /\ pc[p] \notin {"idle", "waiting"} => p \in turn
          /\ pc[p] \in {"waiting", "reading", "resolving", "markReceipt",
                      "leaving"}
                => mode[p] # "pinned"

AheadOfReceipt(p) ==
    /\ pc[p] = "resolving" => latest[p] = receipt.pack
    /\ mode[p] # "pinned" /\ pc[p] \in Installing \cup {"fetching", "markReceipt"}
          => target[p] >= receipt.pack

ReceiptInv ==
    /\ TypeInv
    /\ TurnInv
    /\ ~lost => \A p \in Proc : AheadOfReceipt(p)

(* Runs that are idle on a fresh checkout satisfy it. *)
LEMMA ReceiptInit == Init => ReceiptInv
<1> SUFFICES ASSUME Init PROVE ReceiptInv
  OBVIOUS
<1>1. TypeInv
  BY TypeInit
<1>2. \A p \in Proc : pc[p] = "idle"
  BY DEF Init
<1>3. TurnInv
  BY <1>2 DEF TurnInv, Init, T!TurnInit
<1>4. QED
  BY <1>1, <1>2, <1>3 DEF ReceiptInv, AheadOfReceipt, Installing

(* A run that returns keeps its turn if it has one, and installs nothing.  *)
LEMMA ReturnsKeepsTurn ==
  ASSUME TypeInv, ReceiptInv, NEW p \in Proc,
         NEW code \in {"none", "ok", "failed"},
         pc[p] \notin {"idle", "waiting"},
         Returns(p, code), UNCHANGED <<turn, lost>>
  PROVE  TurnInv' /\ (~lost' /\ UNCHANGED receipt
                           => \A q \in Proc : AheadOfReceipt(q)')
<1> USE DEF TypeInv, ReceiptInv, TurnInv, AheadOfReceipt, RunOK, WorldOK, Goto,
        Installing
<1>1. CASE mode[p] = "pinned"
  <2>1. Ends(p, code) /\ p \notin turn
    BY <1>1 DEF Returns
  <2>2. QED
    BY <2>1 DEF Ends
<1>2. CASE mode[p] # "pinned"
  BY <1>2 DEF Returns, local
<1>3. QED
  BY <1>1, <1>2

(* So does a run that starts: it enters no turn and reads no channel.      *)
LEMMA StartKeepsTurn ==
  ASSUME TypeInv, ReceiptInv, NEW p \in Proc, NEW m \in Modes,
         NEW r \in BOOLEAN, StartEnsure(p, m, r)
  PROVE  TurnInv' /\ (~lost' => \A q \in Proc : AheadOfReceipt(q)')
<1>1. p \notin turn /\ UNCHANGED <<turn, lost, receipt>>
  BY DEF ReceiptInv, TurnInv, StartEnsure, turnVars
<1>2. /\ mode \in [Proc -> AllModes] /\ pc \in [Proc -> PC]
      /\ target \in [Proc -> Pack \cup {0}] /\ latest \in [Proc -> Pack \cup {0}]
  BY DEF TypeInv, RunOK
<1>3. \A q \in Proc : q # p => /\ mode'[q] = mode[q] /\ pc'[q] = pc[q]
                              /\ target'[q] = target[q] /\ latest'[q] = latest[q]
  BY <1>2 DEF StartEnsure, Ends, Goto
<1>4. pc'[p] = "idle" \/ (pc'[p] = "waiting" /\ mode'[p] # "pinned")
  BY <1>2 DEF StartEnsure, Ends, Goto
<1>5. TurnInv'
  BY <1>1, <1>3, <1>4 DEF ReceiptInv, TypeInv, WorldOK, TurnInv
<1>6. ~lost' => \A q \in Proc : AheadOfReceipt(q)'
  BY <1>1, <1>3, <1>4 DEF ReceiptInv, AheadOfReceipt, Installing
<1>7. QED
  BY <1>5, <1>6

(* One step per action.  Only MarkReceipt writes the receipt, and TurnInv  *)
(* says that no other run holds a pack it compared with the old one.       *)
LEMMA ReceiptStep == ReceiptInv /\ [Next]_vars => ReceiptInv'
<1> SUFFICES ASSUME TypeInv, ReceiptInv, [Next]_vars, TypeInv'
             PROVE  TurnInv' /\ (~lost' => \A q \in Proc : AheadOfReceipt(q)')
  BY TypeStep DEF ReceiptInv
<1> USE DEF TypeInv, ReceiptInv, TurnInv, AheadOfReceipt, RunOK, Goto, Ends,
        Returns, local, history, world, turnVars, Installing
<1>1. ASSUME NEW p \in Proc, NEW m \in Modes, NEW r \in BOOLEAN,
             StartEnsure(p, m, r)
      PROVE  TurnInv' /\ (~lost' => \A q \in Proc : AheadOfReceipt(q)')
  BY <1>1, StartKeepsTurn
<1>2. ASSUME NEW p \in Proc, TakeTurn(p)
      PROVE  TurnInv' /\ (~lost' => \A q \in Proc : AheadOfReceipt(q)')
  <2>1. mode[p] # "pinned"
    BY <1>2 DEF TakeTurn
  <2>2. QED
    BY <1>2, <2>1 DEF TakeTurn, T!Take, WorldOK
<1>3. ASSUME NEW p \in Proc, PeerDone(p)
      PROVE  TurnInv' /\ (~lost' => \A q \in Proc : AheadOfReceipt(q)')
  BY <1>3 DEF PeerDone
<1>4. ASSUME NEW p \in Proc, TimeOut(p)
      PROVE  TurnInv' /\ (~lost' => \A q \in Proc : AheadOfReceipt(q)')
  BY <1>4 DEF TimeOut
<1>5. ASSUME NEW p \in Proc, ReadLatest(p)
      PROVE  TurnInv' /\ (~lost' => \A q \in Proc : AheadOfReceipt(q)')
  BY <1>5 DEF ReadLatest
<1>6. ASSUME NEW p \in Proc, ResolveNothing(p)
      PROVE  TurnInv' /\ (~lost' => \A q \in Proc : AheadOfReceipt(q)')
  <2>1. /\ Returns(p, IF Complete(ref) THEN "ok" ELSE "failed")
        /\ UNCHANGED <<turn, lost, receipt>>
    BY <1>6 DEF ResolveNothing
  <2>2. pc[p] \notin {"idle", "waiting"}
    BY <1>6 DEF ResolveNothing
  <2>3. QED
    BY <2>1, <2>2, ReturnsKeepsTurn
<1>7. ASSUME NEW p \in Proc, RefuseRollback(p)
      PROVE  TurnInv' /\ (~lost' => \A q \in Proc : AheadOfReceipt(q)')
  <2>1. Returns(p, "failed") /\ UNCHANGED <<turn, lost, receipt>>
    BY <1>7 DEF RefuseRollback
  <2>2. pc[p] \notin {"idle", "waiting"}
    BY <1>7 DEF RefuseRollback
  <2>3. QED
    BY <2>1, <2>2, ReturnsKeepsTurn
<1>8. ASSUME NEW p \in Proc, ResolveGreen(p)
      PROVE  TurnInv' /\ (~lost' => \A q \in Proc : AheadOfReceipt(q)')
  BY <1>8 DEF ResolveGreen
<1>9. ASSUME NEW p \in Proc, MarkReceipt(p)
      PROVE  TurnInv' /\ (~lost' => \A q \in Proc : AheadOfReceipt(q)')
  <2>1. Returns(p, "ok") /\ UNCHANGED <<turn, lost>>
    BY <1>9 DEF MarkReceipt
  <2>2. pc[p] \notin {"idle", "waiting"} /\ mode[p] # "pinned" /\ p \in turn
    BY <1>9 DEF MarkReceipt
  <2>3. TurnInv'
    BY <2>1, <2>2, ReturnsKeepsTurn
  <2>4. ASSUME ~lost', NEW q \in Proc PROVE AheadOfReceipt(q)'
    <3>1. CASE q = p
      BY <1>9, <2>2, <3>1 DEF MarkReceipt
    <3>2. CASE q # p
      <4>1. q \notin turn
        BY <2>1, <2>2, <2>4, <3>2
      <4>2. mode[q] = "pinned" \/ pc[q] \in {"idle", "waiting"}
        BY <4>1
      <4>3. pc'[q] = pc[q] /\ mode'[q] = mode[q]
        BY <1>9, <2>2, <3>2 DEF MarkReceipt
      <4>4. QED
        BY <4>2, <4>3
    <3>3. QED
      BY <3>1, <3>2
  <2>5. QED
    BY <2>3, <2>4
<1>10. ASSUME NEW p \in Proc, LeaveTurn(p)
      PROVE  TurnInv' /\ (~lost' => \A q \in Proc : AheadOfReceipt(q)')
  BY <1>10 DEF LeaveTurn, T!Leave
<1>11. ASSUME NEW p \in Proc, FetchFails(p)
      PROVE  TurnInv' /\ (~lost' => \A q \in Proc : AheadOfReceipt(q)')
  <2>1. Returns(p, "failed") /\ UNCHANGED <<turn, lost, receipt>>
    BY <1>11 DEF FetchFails
  <2>2. pc[p] \notin {"idle", "waiting"}
    BY <1>11 DEF FetchFails
  <2>3. QED
    BY <2>1, <2>2, ReturnsKeepsTurn
<1>12. ASSUME NEW p \in Proc, FetchVerified(p)
      PROVE  TurnInv' /\ (~lost' => \A q \in Proc : AheadOfReceipt(q)')
  BY <1>12 DEF FetchVerified
<1>13. ASSUME NEW p \in Proc, InstallFails(p)
      PROVE  TurnInv' /\ (~lost' => \A q \in Proc : AheadOfReceipt(q)')
  <2>1. Returns(p, "failed") /\ UNCHANGED <<turn, lost, receipt>>
    BY <1>13 DEF InstallFails
  <2>2. pc[p] \notin {"idle", "waiting"}
    BY <1>13 DEF InstallFails
  <2>3. QED
    BY <2>1, <2>2, ReturnsKeepsTurn
<1>14. ASSUME NEW p \in Proc, NEW f \in File, Place(p, f)
      PROVE  TurnInv' /\ (~lost' => \A q \in Proc : AheadOfReceipt(q)')
  BY <1>14 DEF Place
<1>15. ASSUME NEW p \in Proc, NEW f \in File, Prune(p, f)
      PROVE  TurnInv' /\ (~lost' => \A q \in Proc : AheadOfReceipt(q)')
  BY <1>15 DEF Prune
<1>16. ASSUME NEW p \in Proc, StartPrune(p)
      PROVE  TurnInv' /\ (~lost' => \A q \in Proc : AheadOfReceipt(q)')
  BY <1>16 DEF StartPrune
<1>17. ASSUME NEW p \in Proc, FinishFiles(p)
      PROVE  TurnInv' /\ (~lost' => \A q \in Proc : AheadOfReceipt(q)')
  BY <1>17 DEF FinishFiles
<1>18. ASSUME NEW p \in Proc, MergeSegments(p)
      PROVE  TurnInv' /\ (~lost' => \A q \in Proc : AheadOfReceipt(q)')
  BY <1>18 DEF MergeSegments
<1>19. ASSUME NEW p \in Proc, MarkRef(p)
      PROVE  TurnInv' /\ (~lost' => \A q \in Proc : AheadOfReceipt(q)')
  BY <1>19 DEF MarkRef
<1>20. ASSUME NEW p \in Proc, MarkFiles(p)
      PROVE  TurnInv' /\ (~lost' => \A q \in Proc : AheadOfReceipt(q)')
  BY <1>20 DEF MarkFiles
<1>21. ASSUME NEW p \in Proc, MarkManifest(p)
      PROVE  TurnInv' /\ (~lost' => \A q \in Proc : AheadOfReceipt(q)')
  <2>1. CASE mode[p] = "pinned"
    <3>1. Ends(p, "ok") /\ p \notin turn /\ UNCHANGED <<turn, lost, receipt>>
      BY <1>21, <2>1 DEF MarkManifest
    <3>2. QED
      BY <3>1 DEF WorldOK
  <2>2. CASE mode[p] # "pinned"
    <3>1. /\ Goto(p, "markReceipt")
          /\ UNCHANGED <<mode, target, latest, turn, lost, receipt>>
      BY <1>21, <2>2 DEF MarkManifest
    <3>2. pc[p] = "markManifest" /\ p \in turn
      BY <1>21, <2>2 DEF MarkManifest
    <3>3. QED
      BY <2>2, <3>1, <3>2
  <2>3. QED
    BY <2>1, <2>2
<1>22. ASSUME NEW p \in Proc, Crash(p)
      PROVE  TurnInv' /\ (~lost' => \A q \in Proc : AheadOfReceipt(q)')
  BY <1>22 DEF Crash, TornWrite, T!Leave
<1>23. ASSUME NEW p \in Proc, NEW v \in Pack, StartPinned(p, v)
      PROVE  TurnInv' /\ (~lost' => \A q \in Proc : AheadOfReceipt(q)')
  BY <1>23 DEF StartPinned
<1>24. ASSUME LoseTurn
      PROVE  TurnInv' /\ (~lost' => \A q \in Proc : AheadOfReceipt(q)')
  BY <1>24 DEF LoseTurn, T!Lose
<1>25. ASSUME GreenMoves
      PROVE  TurnInv' /\ (~lost' => \A q \in Proc : AheadOfReceipt(q)')
  BY <1>25 DEF GreenMoves
<1>26. ASSUME ClockMoves
      PROVE  TurnInv' /\ (~lost' => \A q \in Proc : AheadOfReceipt(q)')
  BY <1>26 DEF ClockMoves
<1>27. ASSUME NEW f \in File, Drift(f)
      PROVE  TurnInv' /\ (~lost' => \A q \in Proc : AheadOfReceipt(q)')
  BY <1>27 DEF Drift
<1>28. ASSUME UNCHANGED vars
      PROVE  TurnInv' /\ (~lost' => \A q \in Proc : AheadOfReceipt(q)')
  BY <1>28 DEF vars
<1>29. QED
  BY <1>1, <1>2, <1>3, <1>4, <1>5, <1>6, <1>7, <1>8, <1>9, <1>10,
     <1>11, <1>12, <1>13, <1>14, <1>15, <1>16, <1>17, <1>18, <1>19, <1>20,
     <1>21, <1>22, <1>23, <1>24, <1>25, <1>26, <1>27, <1>28
     DEF Next, Ensure, Install, Environment

(***************************************************************************)
(* The receipt never goes back to an older pack while no turn is lost.     *)
(***************************************************************************)
THEOREM ReceiptMonotonic == Spec => ReceiptNeverRollsBack
<1>1. Init => ReceiptInv
  BY ReceiptInit
<1>2. ReceiptInv /\ [Next]_vars => ReceiptInv'
  BY ReceiptStep
<1>3. ReceiptInv /\ [Next]_vars => [receipt'.pack >= receipt.pack \/ lost]_vars
  <2> SUFFICES ASSUME ReceiptInv, Next, ~lost
               PROVE  receipt'.pack >= receipt.pack
    OBVIOUS
  <2>1. CASE UNCHANGED receipt
    <3>1. receipt.pack \in Pack \cup {0}
      BY DEF ReceiptInv, TypeInv, FilesOK
    <3>2. Pack \subseteq Nat
      BY HydrationAssumption DEF HydrationAssumption
    <3>3. \A v \in Pack \cup {0} : v >= v
      BY <3>2
    <3>4. QED
      BY <2>1, <3>1, <3>3
  <2>2. ASSUME NEW p \in Proc, MarkReceipt(p)
        PROVE  receipt'.pack >= receipt.pack
    BY <2>2
       DEF MarkReceipt, ReceiptInv, TypeInv, TurnInv, AheadOfReceipt, RunOK
  <2>3. CASE UNCHANGED receipt \/ \E p \in Proc : MarkReceipt(p)
    BY <2>1, <2>2, <2>3
  <2>4. UNCHANGED receipt \/ \E p \in Proc : MarkReceipt(p)
    BY DEF Next, Ensure, Install, Environment, StartEnsure, TakeTurn, PeerDone,
           TimeOut, ReadLatest, ResolveNothing, RefuseRollback, ResolveGreen,
           LeaveTurn, FetchFails, FetchVerified, InstallFails, Place, Prune,
           StartPrune, FinishFiles, MergeSegments, MarkRef, MarkFiles,
           MarkManifest, Crash, StartPinned, LoseTurn, GreenMoves, ClockMoves,
           Drift
  <2>5. QED
    BY <2>3, <2>4
<1>4. QED
  BY <1>1, <1>2, <1>3, PTL DEF Spec, ReceiptNeverRollsBack

(***************************************************************************)
(* What a channel run has on disk between its first write and its receipt. *)
(* While it has the turn and nobody else writes, the checkout holds what   *)
(* the run put there so far.                                               *)
(***************************************************************************)
InstalledSoFar(p) ==
    /\ pc[p] \in Installing =>
          \A f \in Owned(p) : disk[f] = Body[target[p]][f]
                              \/ (pc[p] = "placing" /\ f \in todo[p])
    /\ pc[p] = "pruning" => todo[p] \cap Owned(p) = {}
    /\ pc[p] \in {"markFiles", "markManifest"} => ref = target[p]
    /\ pc[p] = "markManifest" => appliedFiles = Owned(p)
    /\ pc[p] = "markReceipt" => Complete(target[p])

InstallInv ==
    ~lost /\ ~meddled =>
        \A p \in Proc : mode[p] # "pinned" => InstalledSoFar(p)

(* A step of one run, a kill included. *)
RunStep(p) ==
    Ensure(p) \/ Install(p) \/ Crash(p) \/ \E v \in Pack : StartPinned(p, v)

(* A step of one run leaves the others where they are.                     *)
LEMMA RunStepIsLocal ==
  ASSUME TypeInv, NEW q \in Proc, RunStep(q), NEW p \in Proc, p # q
  PROVE  /\ pc'[p] = pc[p] /\ mode'[p] = mode[p]
         /\ target'[p] = target[p] /\ todo'[p] = todo[p]
<1> USE DEF TypeInv, RunOK, Ends, Returns, Goto, local
<1>1. ASSUME Ensure(q)
      PROVE  /\ pc'[p] = pc[p] /\ mode'[p] = mode[p]
             /\ target'[p] = target[p] /\ todo'[p] = todo[p]
  BY <1>1 DEF Ensure, StartEnsure, TakeTurn, PeerDone, TimeOut, ReadLatest,
              ResolveNothing, RefuseRollback, ResolveGreen, MarkReceipt, LeaveTurn
<1>2. ASSUME Install(q)
      PROVE  /\ pc'[p] = pc[p] /\ mode'[p] = mode[p]
             /\ target'[p] = target[p] /\ todo'[p] = todo[p]
  BY <1>2 DEF Install, FetchFails, FetchVerified, InstallFails, Place, Prune,
              StartPrune, FinishFiles, MergeSegments, MarkRef, MarkFiles,
              MarkManifest
<1>3. ASSUME Crash(q) \/ \E v \in Pack : StartPinned(q, v)
      PROVE  /\ pc'[p] = pc[p] /\ mode'[p] = mode[p]
             /\ target'[p] = target[p] /\ todo'[p] = todo[p]
  BY <1>3 DEF Crash, StartPinned
<1>4. QED
  BY <1>1, <1>2, <1>3 DEF RunStep

(* While no turn is lost and nobody meddles, the payload and its records   *)
(* are written by the run that has the turn alone.                         *)
LEMMA HolderWritesAlone ==
  ASSUME ReceiptInv, NEW q \in Proc, RunStep(q), ~lost', ~meddled',
         NEW p \in turn, p # q
  PROVE  UNCHANGED <<disk, markers>> /\ ~lost /\ ~meddled
<1> USE DEF ReceiptInv, TypeInv, TurnInv, RunOK, WorldOK, turnVars, world,
        history, Meddles, markers, local
<1>1. /\ ~lost
      /\ q \notin turn
      /\ pc[q] \in {"idle", "waiting"} \/ mode[q] = "pinned"
  <2>1. ~lost
    BY DEF RunStep, Ensure, Install, StartEnsure, TakeTurn, PeerDone, TimeOut,
           ReadLatest, ResolveNothing, RefuseRollback, ResolveGreen, MarkReceipt,
           LeaveTurn, FetchFails, FetchVerified, InstallFails, Place, Prune,
           StartPrune, FinishFiles, MergeSegments, MarkRef, MarkFiles,
           MarkManifest, Crash, StartPinned, T!Take, T!Leave
  <2>2. QED
    BY <2>1
<1>2. ASSUME Ensure(q)
      PROVE  UNCHANGED <<disk, markers>> /\ ~meddled
  <2>1. ASSUME TakeTurn(q) PROVE FALSE
    BY <2>1, <1>1 DEF TakeTurn, T!Take
  <2>2. ASSUME NEW m \in Modes, NEW r \in BOOLEAN, StartEnsure(q, m, r)
        PROVE  UNCHANGED <<disk, markers>> /\ ~meddled
    BY <2>2 DEF StartEnsure
  <2>3. QED
    BY <1>2, <2>1, <2>2
       DEF Ensure, PeerDone, TimeOut, ReadLatest, ResolveNothing,
           RefuseRollback, ResolveGreen, MarkReceipt, LeaveTurn
<1>3. ASSUME Install(q)
      PROVE  UNCHANGED <<disk, markers>> /\ ~meddled
  BY <1>1, <1>3
     DEF Install, FetchFails, FetchVerified, InstallFails, Place, Prune,
         StartPrune, FinishFiles, MergeSegments, MarkRef, MarkFiles, MarkManifest
<1>4. ASSUME Crash(q) \/ \E v \in Pack : StartPinned(q, v)
      PROVE  UNCHANGED <<disk, markers>> /\ ~meddled
  BY <1>1, <1>4 DEF Crash, TornWrite, StartPinned
<1>5. QED
  BY <1>1, <1>2, <1>3, <1>4 DEF RunStep

(* toSorted() and toSorted(localeCompare) list the payload's paths alike.  *)
RecordOrdersAgree ==
    \A paths \in SUBSET File :
        Listed(paths, CodeUnitOrder) = Listed(paths, LocaleOrder)

(* The run's own steps.                                                    *)
LEMMA InstallGoesOn ==
  ASSUME RecordOrdersAgree, ReceiptInv, NEW p \in Proc, Install(p),
         InstalledSoFar(p), mode[p] # "pinned"
  PROVE  InstalledSoFar(p)'
<1> USE DEF ReceiptInv, TypeInv, RunOK, FilesOK, Goto, local, markers
<1>0. Owned(p) \in SUBSET File
  BY DEF Owned, Ships
<1>1. ASSUME pc'[p] \in {"leaving", "idle"}
      PROVE  InstalledSoFar(p)'
  BY <1>1 DEF InstalledSoFar, Installing
<1>2. CASE FetchFails(p) \/ InstallFails(p)
  <2>1. pc'[p] = "leaving"
    BY <1>2 DEF FetchFails, InstallFails, Returns
  <2>2. QED
    BY <1>1, <2>1
<1>3. CASE FetchVerified(p)
  BY <1>3, <1>0 DEF FetchVerified, InstalledSoFar, Installing, Owned, Preserved
<1>4. ASSUME NEW f \in File, Place(p, f)
      PROVE  InstalledSoFar(p)'
  BY <1>4, <1>0 DEF Place, InstalledSoFar, Installing, Owned, Preserved
<1>5. CASE StartPrune(p)
  <2>1. StalePaths(p) \cap Owned(p) = {} /\ StalePaths(p) \in SUBSET File
    BY <1>5, HydrationAssumption
       DEF StartPrune, StalePaths, Owned, Ships, Preserved, HydrationAssumption,
           Installing
  <2>2. pc'[p] = "pruning" /\ todo'[p] = StalePaths(p) /\ todo[p] = {}
    BY <1>5 DEF StartPrune
  <2>3. Owned(p)' = Owned(p) /\ UNCHANGED <<disk, target>>
    BY <1>5 DEF StartPrune, Owned, Preserved
  <2>4. pc[p] = "placing"
    BY <1>5 DEF StartPrune
  <2>5. QED
    BY <2>1, <2>2, <2>3, <2>4 DEF InstalledSoFar, Installing
<1>6. ASSUME NEW f \in File, Prune(p, f)
      PROVE  InstalledSoFar(p)'
  <2>1. f \notin Owned(p) /\ pc[p] = "pruning" /\ pc'[p] = "pruning"
    BY <1>6 DEF Prune, InstalledSoFar
  <2>2. Owned(p)' = Owned(p)
    BY <1>6 DEF Prune, Owned, Preserved
  <2>3. disk' = [disk EXCEPT ![f] = 0] /\ target' = target
    BY <1>6 DEF Prune
  <2>4. todo'[p] = todo[p] \ {f}
    BY <1>6 DEF Prune
  <2>5. \A g \in Owned(p) : disk'[g] = disk[g]
    BY <2>1, <2>3, <1>0
  <2>6. QED
    BY <2>1, <2>2, <2>3, <2>4, <2>5 DEF InstalledSoFar, Installing
<1>7. CASE FinishFiles(p) \/ MergeSegments(p)
  BY <1>7 DEF FinishFiles, MergeSegments, InstalledSoFar, Installing, Owned,
              Preserved
<1>8. CASE MarkRef(p)
  BY <1>8 DEF MarkRef, InstalledSoFar, Installing, Owned, Preserved
<1>9. CASE MarkFiles(p)
  BY <1>9 DEF MarkFiles, InstalledSoFar, Installing, Owned, Preserved
<1>10. CASE MarkManifest(p)
  <2>1. /\ pc[p] = "markManifest" /\ pc'[p] = "markReceipt"
        /\ UNCHANGED <<disk, ref, appliedFiles, target, mode>>
        /\ manifest' = [f \in File |-> IF f \in Owned(p) THEN Body[target[p]][f]
                                                          ELSE 0]
    BY <1>10 DEF MarkManifest
  <2>2. Owned(p)' = Owned(p)
    BY <2>1 DEF Owned, Preserved
  <2>3. /\ ref = target[p] /\ appliedFiles = Owned(p) /\ target[p] \in Pack
        /\ \A f \in Owned(p) : disk[f] = Body[target[p]][f]
    BY <2>1 DEF InstalledSoFar, Installing
  <2>4. Complete(target[p])'
    <3>1. target'[p] # 0
      BY <2>1, <2>3, HydrationAssumption DEF HydrationAssumption
    <3>2. Owned(p) # {}
      BY <2>3, PayloadAssumption DEF Owned, Preserved, PayloadAssumption
    <3>3. {f \in File : manifest'[f] # 0} = Owned(p)
      BY <2>1 DEF Owned, Ships
    <3>4. RecordsAgree'
      BY <1>0, <2>1, <2>3, <3>2, <3>3 DEF RecordsAgree, RecordOrdersAgree
    <3>5. QED
      BY <2>1, <2>3, <3>1, <3>4, <1>0 DEF Complete, CompleteOn
  <2>5. QED
    BY <2>1, <2>4 DEF InstalledSoFar, Installing
<1>11. QED
  BY <1>2, <1>3, <1>4, <1>5, <1>6, <1>7, <1>8, <1>9, <1>10 DEF Install

(* One step of a run, or of the environment.                               *)
LEMMA InstallStep ==
  ASSUME RecordOrdersAgree, InstallInv, ReceiptInv, ReceiptInv', [Next]_vars
  PROVE  InstallInv'
<1> SUFFICES ASSUME ~lost', ~meddled', NEW p \in Proc, mode'[p] # "pinned"
             PROVE  InstalledSoFar(p)'
  BY DEF InstallInv
<1>1. CASE pc'[p] \notin Installing \cup {"markReceipt"}
  BY <1>1 DEF InstalledSoFar, Installing
<1>2. CASE pc'[p] \in Installing \cup {"markReceipt"}
  <2> USE DEF ReceiptInv, TypeInv, TurnInv, RunOK, WorldOK, turnVars, world,
          history, markers, local
  <2>1. p \in turn'
    BY <1>2 DEF Installing
  <2>2. ASSUME NEW q \in Proc, RunStep(q)
        PROVE  InstalledSoFar(p)'
    <3>1. CASE p # q
      <4>1. /\ pc'[p] = pc[p] /\ mode'[p] = mode[p]
            /\ target'[p] = target[p] /\ todo'[p] = todo[p]
        BY <2>2, <3>1, RunStepIsLocal
      <4>2. p \in turn
        BY <1>2, <4>1 DEF Installing
      <4>3. UNCHANGED <<disk, markers>> /\ ~lost /\ ~meddled
        BY <2>2, <3>1, <4>2, HolderWritesAlone
      <4>4. InstalledSoFar(p)
        BY <4>1, <4>3 DEF InstallInv
      <4>5. QED
        BY <4>1, <4>3, <4>4
           DEF InstalledSoFar, Owned, Preserved, Complete, CompleteOn,
               RecordsAgree
    <3>2. CASE p = q
      <4>1. CASE Ensure(p)
        <5>1. ResolveGreen(p)
          BY <1>2, <4>1
             DEF Ensure, StartEnsure, TakeTurn, PeerDone, TimeOut, ReadLatest,
                 ResolveNothing, RefuseRollback, MarkReceipt, LeaveTurn, Ends,
                 Returns, Goto, Installing
        <5>2. Complete(green) /\ target'[p] = green /\ pc'[p] = "markReceipt"
          BY <1>2, <5>1 DEF ResolveGreen, Goto, Installing
        <5>3. UNCHANGED <<disk, markers>>
          BY <5>1 DEF ResolveGreen
        <5>4. QED
          BY <5>2, <5>3
             DEF InstalledSoFar, Complete, CompleteOn, RecordsAgree, Installing
      <4>2. CASE Install(p)
        <5>1. mode[p] # "pinned"
          BY <1>2, <4>2
             DEF Install, FetchFails, FetchVerified, InstallFails, Place, Prune,
                 StartPrune, FinishFiles, MergeSegments, MarkRef, MarkFiles,
                 MarkManifest, Ends, Returns, Goto, Installing
        <5>2. ~lost /\ ~meddled
          BY <4>2, <5>1
             DEF Install, FetchFails, FetchVerified, InstallFails, Place, Prune,
                 StartPrune, FinishFiles, MergeSegments, MarkRef, MarkFiles,
                 MarkManifest, Meddles
        <5>3. InstalledSoFar(p)
          BY <5>1, <5>2 DEF InstallInv
        <5>4. QED
          BY <4>2, <5>1, <5>3, InstallGoesOn
      <4>3. CASE Crash(p) \/ \E v \in Pack : StartPinned(p, v)
        BY <1>2, <4>3 DEF Crash, StartPinned, Ends, Goto, Installing
      <4>4. QED
        BY <2>2, <3>2, <4>1, <4>2, <4>3 DEF RunStep
    <3>3. QED
      BY <3>1, <3>2
  <2>3. ASSUME Environment
        PROVE  InstalledSoFar(p)'
    <3>1. UNCHANGED <<disk, markers, pc, mode, target, todo, lost, meddled>>
      BY <2>3 DEF Environment, LoseTurn, GreenMoves, ClockMoves, Drift, T!Lose
    <3>2. InstalledSoFar(p)
      BY <3>1 DEF InstallInv
    <3>3. QED
      BY <3>1, <3>2 DEF InstalledSoFar, Owned, Preserved, Complete, CompleteOn,
                        RecordsAgree
  <2>4. ASSUME UNCHANGED vars
        PROVE  InstalledSoFar(p)'
    <3>1. UNCHANGED <<disk, markers, pc, mode, target, todo, lost, meddled>>
      BY <2>4 DEF vars
    <3>2. InstalledSoFar(p)
      BY <3>1 DEF InstallInv
    <3>3. QED
      BY <3>1, <3>2 DEF InstalledSoFar, Owned, Preserved, Complete, CompleteOn,
                        RecordsAgree
  <2>5. QED
    BY <2>2, <2>3, <2>4 DEF Next, RunStep
<1>3. QED
  BY <1>1, <1>2

(***************************************************************************)
(* Where the two orders of the records agree, an install that nobody       *)
(* disturbed verifies when its receipt is due.  Where they do not, it      *)
(* never verifies (run hydration_order).                                   *)
(***************************************************************************)
THEOREM InstalledVerifies ==
  ASSUME RecordOrdersAgree
  PROVE  Spec => []InstalledPackVerifies
<1>1. Init => ReceiptInv /\ InstallInv
  BY ReceiptInit DEF Init, InstallInv, InstalledSoFar, Installing
<1>2. ReceiptInv /\ InstallInv /\ [Next]_vars => (ReceiptInv /\ InstallInv)'
  BY ReceiptStep, InstallStep
<1>3. ReceiptInv /\ InstallInv => InstalledPackVerifies
  BY DEF InstallInv, ReceiptInv, TurnInv, InstalledSoFar, InstalledPackVerifies
<1>4. QED
  BY <1>1, <1>2, <1>3, PTL DEF Spec

(***************************************************************************)
(* What the records say while nothing muddled them: between installs, they *)
(* describe the applied pack; during one, what the install has placed can  *)
(* be found in the old record or is its own.                               *)
(***************************************************************************)
RecordedSoFar(p) ==
    /\ pc[p] = "placing" =>
          /\ todo[p] \subseteq Owned(p)
          /\ placed \ Tracked \subseteq appliedFiles \cup Owned(p)
    /\ pc[p] = "pruning" => placed \ Tracked \subseteq Owned(p) \cup todo[p]
    /\ pc[p] \in {"finishing", "markRef", "markFiles", "markManifest"} =>
          placed \ Tracked \subseteq Owned(p)
    /\ pc[p] \in {"markFiles", "markManifest"} => ref = target[p]
    /\ pc[p] = "markManifest" => appliedFiles = Owned(p)

AppliedRecord ==
    /\ placed \ Tracked \subseteq appliedFiles
    /\ ref # 0 =>
          /\ Ships(ref) \ Tracked \subseteq appliedFiles
          /\ \A f \in appliedFiles : manifest[f] = Body[ref][f]

OneInstall ==
    \A p, q \in Proc : pc[p] \in Installing /\ pc[q] \in Installing => p = q

RecordInv ==
    ~muddled =>
        /\ OneInstall
        /\ \A p \in Proc : pc[p] \in Installing => RecordedSoFar(p)
        /\ Quiet => AppliedRecord

(* Only installs write records, or a kill of one.                          *)
LEMMA OthersKeepRecords ==
  ASSUME NEW q \in Proc, RunStep(q), pc[q] \notin Installing
  PROVE  UNCHANGED <<placed, markers>>
<1> USE DEF markers, history, Installing
<1>1. CASE Ensure(q)
  BY <1>1 DEF Ensure, StartEnsure, TakeTurn, PeerDone, TimeOut, ReadLatest,
              ResolveNothing, RefuseRollback, ResolveGreen, MarkReceipt, LeaveTurn
<1>2. CASE Install(q)
  BY <1>2 DEF Install, FetchFails, FetchVerified, InstallFails, Place, Prune,
              StartPrune, FinishFiles, MergeSegments, MarkRef, MarkFiles,
              MarkManifest
<1>3. CASE Crash(q) \/ \E v \in Pack : StartPinned(q, v)
  BY <1>3 DEF Crash, TornWrite, StartPinned
<1>4. QED
  BY <1>1, <1>2, <1>3 DEF RunStep

(* A run that installs goes on, and what it has placed stays findable.     *)
LEMMA RecordGoesOn ==
  ASSUME TypeInv, RecordInv, NEW p \in Proc, pc[p] \in Installing, Install(p),
         ~muddled, ~muddled'
  PROVE  /\ pc'[p] \in Installing => RecordedSoFar(p)'
         /\ pc'[p] \notin Installing => AppliedRecord'
<1> USE DEF TypeInv, RunOK, FilesOK, Goto, local, markers
<1>1. RecordedSoFar(p) /\ target[p] \in Pack
  BY DEF RecordInv
<1>2. Owned(p) \in SUBSET File /\ Preserved(p) \in SUBSET Tracked
  BY DEF Owned, Ships, Preserved
<1>3. CASE FetchFails(p) \/ FetchVerified(p) \/ InstallFails(p)
  BY <1>3 DEF FetchFails, FetchVerified, InstallFails, Installing
<1>4. ASSUME NEW f \in File, Place(p, f)
      PROVE  pc'[p] = "placing" /\ RecordedSoFar(p)'
  <2>1. /\ pc[p] = "placing" /\ pc' = pc /\ f \in todo[p]
        /\ placed' = placed \cup {f} /\ todo'[p] = todo[p] \ {f}
        /\ UNCHANGED <<markers, target, mode>>
    BY <1>4 DEF Place
  <2>2. QED
    BY <1>1, <2>1 DEF RecordedSoFar, Owned, Preserved
<1>5. CASE StartPrune(p)
  <2>1. /\ pc[p] = "placing" /\ pc'[p] = "pruning"
        /\ todo'[p] = StalePaths(p)
        /\ UNCHANGED <<placed, markers, target, mode>>
    BY <1>5 DEF StartPrune, history
  <2>2. appliedFiles \subseteq Owned(p) \cup StalePaths(p) \cup Tracked
    BY <1>2 DEF StalePaths
  <2>3. QED
    BY <1>1, <2>1, <2>2 DEF RecordedSoFar, Owned, Preserved, Installing
<1>6. ASSUME NEW f \in File, Prune(p, f)
      PROVE  pc'[p] = "pruning" /\ RecordedSoFar(p)'
  <2>1. /\ pc[p] = "pruning" /\ pc' = pc
        /\ placed' = placed \ {f} /\ todo'[p] = todo[p] \ {f}
        /\ UNCHANGED <<markers, target, mode>>
    BY <1>6 DEF Prune
  <2>2. QED
    BY <1>1, <2>1 DEF RecordedSoFar, Owned, Preserved
<1>7. CASE FinishFiles(p) \/ MergeSegments(p)
  BY <1>1, <1>7 DEF FinishFiles, MergeSegments, RecordedSoFar, Owned, Preserved,
                    Installing, history
<1>8. CASE MarkRef(p)
  BY <1>1, <1>8 DEF MarkRef, RecordedSoFar, Owned, Preserved, Installing
<1>9. CASE MarkFiles(p)
  BY <1>1, <1>9 DEF MarkFiles, RecordedSoFar, Owned, Preserved, Installing
<1>10. CASE MarkManifest(p)
  <2>1. /\ pc[p] = "markManifest" /\ pc'[p] \notin Installing
        /\ UNCHANGED <<placed, ref, appliedFiles>>
        /\ manifest' = [f \in File |-> IF f \in Owned(p) THEN Body[target[p]][f]
                                                          ELSE 0]
    BY <1>10 DEF MarkManifest, Ends, Installing
  <2>2. /\ placed \ Tracked \subseteq Owned(p)
        /\ ref = target[p] /\ appliedFiles = Owned(p)
    BY <1>1, <2>1 DEF RecordedSoFar
  <2>3. Ships(target[p]) \ Tracked \subseteq Owned(p)
    BY <1>2 DEF Owned
  <2>4. AppliedRecord'
    BY <1>2, <2>1, <2>2, <2>3 DEF AppliedRecord, Ships
  <2>5. QED
    BY <2>1, <2>4
<1>11. QED
  BY <1>3, <1>4, <1>5, <1>6, <1>7, <1>8, <1>9, <1>10 DEF Install, Installing

(* One step of a run, or of the environment.                               *)
LEMMA RecordStep ==
  ASSUME TypeInv, RecordInv, [Next]_vars
  PROVE  RecordInv'
<1> SUFFICES ASSUME ~muddled'
             PROVE  /\ OneInstall'
                    /\ \A p \in Proc : pc'[p] \in Installing => RecordedSoFar(p)'
                    /\ Quiet' => AppliedRecord'
  BY DEF RecordInv
<1>1. ASSUME NEW q \in Proc, RunStep(q)
      PROVE  /\ ~muddled
             /\ OneInstall'
             /\ \A p \in Proc : pc'[p] \in Installing => RecordedSoFar(p)'
             /\ Quiet' => AppliedRecord'
  <2>1. /\ ~muddled
        /\ pc[q] \in Installing => Install(q)
    <3>1. ASSUME Ensure(q)
          PROVE  ~muddled /\ pc[q] \notin Installing
      BY <3>1 DEF Ensure, StartEnsure, TakeTurn, PeerDone, TimeOut, ReadLatest,
                  ResolveNothing, RefuseRollback, ResolveGreen, MarkReceipt,
                  LeaveTurn, history, Installing
    <3>2. ASSUME Install(q)
          PROVE  ~muddled
      BY <3>2 DEF Install, FetchFails, FetchVerified, InstallFails, Place, Prune,
                  StartPrune, FinishFiles, MergeSegments, MarkRef, MarkFiles,
                  MarkManifest, history
    <3>3. ASSUME Crash(q)
          PROVE  ~muddled /\ pc[q] \notin Installing
      BY <3>3 DEF Crash
    <3>4. ASSUME NEW v \in Pack, StartPinned(q, v)
          PROVE  ~muddled /\ pc[q] \notin Installing
      BY <3>4 DEF StartPinned, history, Installing
    <3>5. QED
      BY <1>1, <3>1, <3>2, <3>3, <3>4 DEF RunStep
  <2>2. \A p \in Proc : p # q => /\ pc'[p] = pc[p] /\ mode'[p] = mode[p]
                                 /\ target'[p] = target[p] /\ todo'[p] = todo[p]
    BY <1>1, RunStepIsLocal
  <2>3. CASE pc[q] \in Installing
    <3>1. \A p \in Proc : p # q => pc'[p] \notin Installing
      BY <2>1, <2>2, <2>3 DEF RecordInv, OneInstall
    <3>2. /\ pc'[q] \in Installing => RecordedSoFar(q)'
          /\ pc'[q] \notin Installing => AppliedRecord'
      BY <2>1, <2>3, RecordGoesOn
    <3>3. QED
      BY <2>1, <3>1, <3>2 DEF OneInstall, Quiet
  <2>4. CASE pc[q] \notin Installing
    <3>1. UNCHANGED <<placed, markers>>
      BY <1>1, <2>4, OthersKeepRecords
    <3>2. ASSUME NEW p \in Proc, p # q, pc'[p] \in Installing
          PROVE  RecordedSoFar(p)'
      <4>1. RecordedSoFar(p)
        BY <2>1, <2>2, <3>2 DEF RecordInv
      <4>2. QED
        BY <2>2, <3>1, <3>2, <4>1 DEF RecordedSoFar, Owned, Preserved, markers
    <3>3. CASE pc'[q] \in Installing
      <4>1. FetchVerified(q)
        BY <1>1, <2>4, <3>3
           DEF RunStep, Ensure, Install, StartEnsure, TakeTurn, PeerDone, TimeOut,
               ReadLatest, ResolveNothing, RefuseRollback, ResolveGreen,
               MarkReceipt, LeaveTurn, FetchFails, InstallFails, Place, Prune,
               StartPrune, FinishFiles, MergeSegments, MarkRef, MarkFiles,
               MarkManifest, Crash, StartPinned, Ends, Returns, Goto, Installing,
               TypeInv, RunOK
      <4>2. \A p \in Proc : p # q => pc[p] \notin Installing
        BY <4>1 DEF FetchVerified
      <4>3. Quiet /\ AppliedRecord
        BY <2>1, <2>4, <4>2 DEF Quiet, RecordInv
      <4>4. /\ pc'[q] = "placing" /\ todo'[q] = Owned(q)
            /\ UNCHANGED <<mode, target>>
        BY <4>1 DEF FetchVerified, Goto, TypeInv, RunOK, local
      <4>5. RecordedSoFar(q)'
        BY <3>1, <4>3, <4>4
           DEF RecordedSoFar, AppliedRecord, Owned, Preserved, markers
      <4>6. QED
        BY <2>1, <2>2, <3>2, <3>3, <4>2, <4>5 DEF OneInstall, Quiet
    <3>4. CASE pc'[q] \notin Installing
      <4>1. OneInstall' /\ (Quiet' => Quiet)
        BY <2>1, <2>2, <2>4, <3>4 DEF OneInstall, Quiet, RecordInv
      <4>2. Quiet' => AppliedRecord'
        BY <2>1, <3>1, <4>1 DEF RecordInv, AppliedRecord, Ships, markers
      <4>3. QED
        BY <2>1, <3>2, <3>4, <4>1, <4>2
    <3>5. QED
      BY <3>3, <3>4
  <2>5. QED
    BY <2>3, <2>4
<1>2. ASSUME Environment \/ UNCHANGED vars
      PROVE  /\ OneInstall'
             /\ \A p \in Proc : pc'[p] \in Installing => RecordedSoFar(p)'
             /\ Quiet' => AppliedRecord'
  <2>1. /\ UNCHANGED <<markers, pc, mode, target, todo, muddled>>
        /\ placed' \subseteq placed
    BY <1>2 DEF Environment, LoseTurn, GreenMoves, ClockMoves, Drift, T!Lose,
                vars, history, local, markers
  <2>2. \A p \in Proc : RecordedSoFar(p) => RecordedSoFar(p)'
    BY <2>1 DEF RecordedSoFar, Owned, Preserved, markers
  <2>3. AppliedRecord => AppliedRecord'
    BY <2>1 DEF AppliedRecord, Ships, markers
  <2>4. QED
    BY <2>1, <2>2, <2>3 DEF RecordInv, OneInstall, Quiet
<1>3. QED
  BY <1>1, <1>2 DEF Next, RunStep

(* A fresh checkout has no records, and nothing to record.                 *)
LEMMA RecordInit == Init => RecordInv
  BY DEF Init, RecordInv, OneInstall, Quiet, AppliedRecord, Installing

(***************************************************************************)
(* Between installs, a later prune finds every untracked file that an      *)
(* install left, unless one was cut short or overlapped another.           *)
(***************************************************************************)
THEOREM PlacedIsRecorded == Spec => []RecordCoversPlaced
<1>1. Init => TypeInv /\ RecordInv
  BY TypeInit, RecordInit
<1>2. TypeInv /\ RecordInv /\ [Next]_vars => (TypeInv /\ RecordInv)'
  BY TypeStep, RecordStep
<1>3. RecordInv => RecordCoversPlaced
  BY DEF RecordInv, AppliedRecord, RecordCoversPlaced
<1>4. QED
  BY <1>1, <1>2, <1>3, PTL DEF Spec

(***************************************************************************)
(* Between installs, a payload that verifies is the whole pack, whatever   *)
(* drifted, unless an install was cut short or overlapped another.         *)
(***************************************************************************)
THEOREM VerifiedIsWhole == Spec => []VerifiedPackIsWhole
<1>1. Init => TypeInv /\ RecordInv
  BY TypeInit, RecordInit
<1>2. TypeInv /\ RecordInv /\ [Next]_vars => (TypeInv /\ RecordInv)'
  BY TypeStep, RecordStep
<1>3. RecordInv => VerifiedPackIsWhole
  BY DEF RecordInv, AppliedRecord, VerifiedPackIsWhole, PackIsWhole, Complete,
         CompleteOn
<1>4. QED
  BY <1>1, <1>2, <1>3, PTL DEF Spec

(***************************************************************************)
(* Tracked paths.  A channel run never has one on its list.                *)
(***************************************************************************)
PreserveInv ==
    \A p \in Proc : mode[p] # "pinned" /\ pc[p] \in {"placing", "pruning"}
                      => todo[p] \cap Tracked = {}

LEMMA PreserveStep ==
  ASSUME TypeInv, PreserveInv, [Next]_vars
  PROVE  PreserveInv'
<1> USE DEF TypeInv, RunOK, Goto, local
<1>1. ASSUME NEW q \in Proc, RunStep(q)
      PROVE  PreserveInv'
  <2>1. \A p \in Proc : p # q => /\ pc'[p] = pc[p] /\ mode'[p] = mode[p]
                                 /\ todo'[p] = todo[p]
    BY <1>1, RunStepIsLocal
  <2>2. ASSUME mode'[q] # "pinned", pc'[q] \in {"placing", "pruning"}
        PROVE  todo'[q] \cap Tracked = {}
    <3>1. CASE FetchVerified(q)
      BY <2>2, <3>1 DEF FetchVerified, Owned, Preserved
    <3>2. CASE StartPrune(q)
      BY <2>2, <3>2 DEF StartPrune, StalePaths, Preserved
    <3>3. CASE \E f \in File : Place(q, f) \/ Prune(q, f)
      BY <2>2, <3>3 DEF Place, Prune, PreserveInv
    <3>4. QED
      BY <1>1, <2>2, <3>1, <3>2, <3>3
         DEF RunStep, Ensure, Install, StartEnsure, TakeTurn, PeerDone, TimeOut,
             ReadLatest, ResolveNothing, RefuseRollback, ResolveGreen,
             MarkReceipt, LeaveTurn, FetchFails, InstallFails, FinishFiles,
             MergeSegments, MarkRef, MarkFiles, MarkManifest, Crash, StartPinned,
             Ends, Returns
  <2>3. QED
    BY <2>1, <2>2 DEF PreserveInv
<1>2. ASSUME Environment \/ UNCHANGED vars
      PROVE  PreserveInv'
  <2>1. UNCHANGED <<pc, mode, todo>>
    BY <1>2 DEF Environment, LoseTurn, GreenMoves, ClockMoves, Drift, vars
  <2>2. QED
    BY <2>1 DEF PreserveInv
<1>3. QED
  BY <1>1, <1>2 DEF Next, RunStep

(* What a step may do to a tracked path.                                   *)
LEMMA TrackedStep ==
  ASSUME TypeInv, PreserveInv, Next, NEW f \in Tracked
  PROVE  disk'[f] \in {disk[f], Index[f]} \/ PinnedStep
<1> USE DEF TypeInv, RunOK, FilesOK
<1>0. f \in File
  BY HydrationAssumption DEF HydrationAssumption
<1>1. ASSUME NEW p \in Proc, NEW m \in Modes, NEW r \in BOOLEAN,
             StartEnsure(p, m, r)
      PROVE  disk'[f] \in {disk[f], Index[f]}
  BY <1>0, <1>1 DEF StartEnsure, Repaired, RepairedBody
<1>2. ASSUME NEW p \in Proc, NEW g \in File, Place(p, g) \/ Prune(p, g)
      PROVE  disk'[f] \in {disk[f], Index[f]} \/ PinnedStep
  <2>1. CASE mode[p] = "pinned"
    BY <1>2, <2>1 DEF Place, Prune, PinnedStep, Installing
  <2>2. CASE mode[p] # "pinned"
    <3>1. g \notin Tracked
      BY <1>2, <2>2 DEF Place, Prune, PreserveInv
    <3>2. QED
      BY <1>0, <1>2, <3>1 DEF Place, Prune
  <2>3. QED
    BY <2>1, <2>2
<1>3. ASSUME NEW p \in Proc, Crash(p)
      PROVE  disk'[f] \in {disk[f], Index[f]} \/ PinnedStep
  <2>1. CASE pc[p] = "placing" /\ mode[p] = "pinned"
    BY <1>3, <2>1 DEF Crash, Ends, Goto, PinnedStep, Installing
  <2>2. CASE ~(pc[p] = "placing" /\ mode[p] = "pinned")
    BY <1>0, <1>3, <2>2 DEF Crash, TornWrite, PreserveInv
  <2>3. QED
    BY <2>1, <2>2
<1>4. ASSUME Environment
      PROVE  disk'[f] = disk[f]
  <2>1. ASSUME NEW g \in File, Drift(g) PROVE disk'[f] = disk[f]
    BY <1>0, <2>1 DEF Drift
  <2>2. QED
    BY <1>4, <2>1 DEF Environment, LoseTurn, GreenMoves, ClockMoves
<1>5. CASE UNCHANGED disk
  BY <1>5
<1>6. QED
  BY <1>1, <1>2, <1>3, <1>4, <1>5
     DEF Next, Ensure, Install, TakeTurn, PeerDone, TimeOut, ReadLatest,
         ResolveNothing, RefuseRollback, ResolveGreen, MarkReceipt, LeaveTurn,
         FetchFails, FetchVerified, InstallFails, StartPrune, FinishFiles,
         MergeSegments, MarkRef, MarkFiles, MarkManifest, StartPinned

(***************************************************************************)
(* A channel run changes a tracked path only to restore its index bytes.   *)
(***************************************************************************)
THEOREM TrackedStayTracked == Spec => TrackedPathsKept
<1>1. Init => TypeInv /\ PreserveInv
  BY TypeInit DEF Init, PreserveInv
<1>2. TypeInv /\ PreserveInv /\ [Next]_vars => (TypeInv /\ PreserveInv)'
  BY TypeStep, PreserveStep
<1>3. TypeInv /\ PreserveInv /\ [Next]_vars
        => [\A f \in Tracked : disk'[f] \in {disk[f], Index[f]} \/ PinnedStep]_vars
  BY TrackedStep
<1>4. QED
  BY <1>1, <1>2, <1>3, PTL DEF Spec, TrackedPathsKept

(***************************************************************************)
(* The applied pack, where nothing is pinned: it is the receipt's or an    *)
(* older one, or the one that the run in turn is about to write there.     *)
(***************************************************************************)
Marked == {"markFiles", "markManifest", "markReceipt"}

AdvanceInv ==
    /\ \A p \in Proc : mode[p] # "pinned"
    /\ ~lost /\ ~muddled =>
          \/ ref <= receipt.pack
          \/ \E p \in Proc : pc[p] \in Marked /\ target[p] = ref

(* The order of packs is transitive.                                       *)
LEMMA AtMostTransitive ==
  ASSUME NEW a \in Int, NEW b \in Int, NEW c \in Int, a <= b, b <= c
  PROVE  a <= c
OBVIOUS

(* Packs are numbers.                                                      *)
LEMMA PacksAreIntegers ==
  ASSUME TypeInv
  PROVE  ref \in Int /\ receipt.pack \in Int /\ \A p \in Proc : target[p] \in Int
<1>1. Pack \cup {0} \subseteq Int
  BY HydrationAssumption DEF HydrationAssumption
<1>2. receipt \in [pack : Pack \cup {0}, at : Nat] /\ ref \in Pack \cup {0}
      /\ \A p \in Proc : target[p] \in Pack \cup {0}
  BY DEF TypeInv, RunOK, FilesOK, WorldOK
<1>3. QED
  BY <1>1, <1>2

(* One step, of which also ref' >= ref unless an install is cut short.     *)
LEMMA AdvanceStep ==
  ASSUME "pinned" \notin Modes, ReceiptInv, ReceiptInv', AdvanceInv, [Next]_vars
  PROVE  AdvanceInv' /\ AppliedAdvances
<1>ints. ref \in Int /\ receipt.pack \in Int /\ \A p \in Proc : target[p] \in Int
  BY PacksAreIntegers DEF ReceiptInv
<1>step. (\E p \in Proc : RunStep(p)) \/ Environment \/ UNCHANGED vars
  BY DEF Next, RunStep
<1> USE DEF ReceiptInv, TypeInv, TurnInv, RunOK, FilesOK, WorldOK, Goto, local,
        markers, history, turnVars
<1>0. /\ \A v, w \in Pack \cup {0} : v <= w <=> w >= v
      /\ \A v, w, x \in Pack \cup {0} : v <= w /\ w <= x => v <= x
      /\ \A v \in Pack \cup {0} : v <= v
  BY HydrationAssumption DEF HydrationAssumption
<1>1. \A p \in Proc : mode'[p] # "pinned"
  <2>1. ASSUME NEW q \in Proc, NEW v \in Pack, StartPinned(q, v) PROVE FALSE
    BY <2>1 DEF StartPinned
  <2>2. QED
    BY <2>1
       DEF Next, Ensure, Install, Environment, StartEnsure, TakeTurn, PeerDone,
           TimeOut, ReadLatest, ResolveNothing, RefuseRollback, ResolveGreen,
           MarkReceipt, LeaveTurn, FetchFails, FetchVerified, InstallFails, Place,
           Prune, StartPrune, FinishFiles, MergeSegments, MarkRef, MarkFiles,
           MarkManifest, Crash, LoseTurn, GreenMoves, ClockMoves, Drift, Ends,
           Returns, vars, AdvanceInv
<1> DEFINE Kept == \/ ref <= receipt.pack
                   \/ \E p \in Proc : pc[p] \in Marked /\ target[p] = ref
<1> SUFFICES ASSUME ~muddled'
             PROVE  (~lost' => Kept') /\ AppliedAdvances
  BY <1>1 DEF AdvanceInv, AppliedAdvances
<1>2. ASSUME NEW p \in Proc, MarkRef(p)
      PROVE  (~lost' => Kept') /\ AppliedAdvances
  <2>1. /\ pc[p] = "markRef" /\ pc'[p] = "markFiles"
        /\ ref' = target[p] /\ target'[p] = target[p]
        /\ UNCHANGED <<receipt, lost, muddled>>
    BY <1>2 DEF MarkRef
  <2>2. Kept'
    BY <2>1 DEF Marked
  <2>3. ASSUME ~lost PROVE ref' >= ref
    <3>1. p \in turn /\ \A q \in turn : q = p
      BY <2>1, <2>3 DEF AdvanceInv
    <3>2. \A q \in Proc : pc[q] \notin Marked
      BY <2>1, <3>1 DEF Marked, AdvanceInv
    <3>3. ref <= receipt.pack
      BY <2>1, <2>3, <3>2 DEF AdvanceInv
    <3>4. receipt.pack <= target[p] /\ target[p] \in Pack
      BY <1>0, <2>1, <2>3 DEF AheadOfReceipt, AdvanceInv, Installing
    <3>5. ref <= target[p]
      BY <1>ints, <3>3, <3>4, AtMostTransitive
    <3>6. QED
      BY <1>0, <2>1, <3>4, <3>5
  <2>4. QED
    BY <2>2, <2>3 DEF AppliedAdvances
<1>3. ASSUME NEW p \in Proc, MarkReceipt(p)
      PROVE  (~lost' => Kept') /\ AppliedAdvances
  <2>1. /\ pc[p] = "markReceipt" /\ receipt'.pack = target[p]
        /\ UNCHANGED <<ref, lost, muddled>>
    BY <1>3 DEF MarkReceipt
  <2>2. ref' >= ref
    BY <1>0, <2>1
  <2>3. ASSUME ~lost PROVE ref <= target[p]
    <3>1. p \in turn /\ \A q \in turn : q = p
      BY <2>1, <2>3 DEF AdvanceInv
    <3>2. \A q \in Proc : pc[q] \in Marked => q = p
      BY <3>1 DEF Marked, AdvanceInv
    <3>3. receipt.pack <= target[p] /\ target[p] \in Pack
      BY <1>0, <2>1, <2>3 DEF AheadOfReceipt, AdvanceInv
    <3>4. CASE ref <= receipt.pack
      BY <1>ints, <3>3, <3>4, AtMostTransitive
    <3>5. CASE \E q \in Proc : pc[q] \in Marked /\ target[q] = ref
      BY <1>0, <3>2, <3>3, <3>5
    <3>6. QED
      BY <2>1, <2>3, <3>4, <3>5 DEF AdvanceInv
  <2>4. QED
    BY <2>1, <2>2, <2>3 DEF AppliedAdvances
<1>4. ASSUME NEW p \in Proc, ResolveGreen(p)
      PROVE  (~lost' => Kept') /\ AppliedAdvances
  <2>1. /\ UNCHANGED <<ref, receipt, lost, muddled>> /\ ref' >= ref
        /\ pc[p] = "resolving"
        /\ \A q \in Proc : q # p => pc'[q] = pc[q] /\ target'[q] = target[q]
    BY <1>0, <1>4 DEF ResolveGreen
  <2>2. QED
    BY <2>1 DEF AdvanceInv, Marked, AppliedAdvances
<1>5. ASSUME NEW p \in Proc, Crash(p)
      PROVE  (~lost' => Kept') /\ AppliedAdvances
  <2>1. pc[p] \notin Installing \cup {"markReceipt"} /\ ~muddled
    BY <1>5 DEF Crash
  <2>2. /\ UNCHANGED <<ref, receipt, lost>> /\ ref' >= ref
        /\ \A q \in Proc : q # p => pc'[q] = pc[q] /\ target'[q] = target[q]
    BY <1>0, <1>5, <2>1 DEF Crash, TornWrite, Ends, T!Leave, Installing
  <2>3. QED
    BY <2>1, <2>2 DEF AdvanceInv, Marked, AppliedAdvances, Installing
<1>6. ASSUME NEW p \in Proc, MarkFiles(p) \/ MarkManifest(p)
      PROVE  (~lost' => Kept') /\ AppliedAdvances
  <2>1. /\ UNCHANGED <<ref, receipt, lost, muddled, target>> /\ ref' >= ref
        /\ pc'[p] \in Marked
        /\ \A q \in Proc : q # p => pc'[q] = pc[q]
    BY <1>0, <1>6 DEF MarkFiles, MarkManifest, Marked, AdvanceInv
  <2>2. QED
    BY <2>1 DEF AdvanceInv, AppliedAdvances
<1>7. ASSUME NEW p \in Proc,
             \/ \E m \in Modes, r \in BOOLEAN : StartEnsure(p, m, r)
             \/ TakeTurn(p) \/ PeerDone(p) \/ TimeOut(p)
             \/ ReadLatest(p) \/ ResolveNothing(p) \/ RefuseRollback(p)
             \/ LeaveTurn(p)
      PROVE  (~lost' => Kept') /\ AppliedAdvances
  <2>1. /\ UNCHANGED <<ref, receipt, lost, muddled>> /\ ref' >= ref
        /\ pc[p] \notin Marked
        /\ \A q \in Proc : q # p => pc'[q] = pc[q] /\ target'[q] = target[q]
    BY <1>0, <1>7
       DEF StartEnsure, TakeTurn, PeerDone, TimeOut, ReadLatest, ResolveNothing,
           RefuseRollback, LeaveTurn, Ends, Returns, T!Take, T!Leave, Marked
  <2>2. QED
    BY <2>1 DEF AdvanceInv, AppliedAdvances
<1>8. ASSUME NEW p \in Proc, NEW f \in File,
             \/ FetchFails(p) \/ FetchVerified(p) \/ InstallFails(p)
             \/ Place(p, f) \/ Prune(p, f) \/ StartPrune(p) \/ FinishFiles(p)
             \/ MergeSegments(p)
      PROVE  (~lost' => Kept') /\ AppliedAdvances
  <2>1. /\ UNCHANGED <<ref, receipt, lost>> /\ ref' >= ref /\ ~muddled
        /\ pc[p] \notin Marked
        /\ \A q \in Proc : q # p => pc'[q] = pc[q] /\ target'[q] = target[q]
    BY <1>0, <1>8
       DEF FetchFails, FetchVerified, InstallFails, Place, Prune, StartPrune,
           FinishFiles, MergeSegments, Ends, Returns, Marked
  <2>2. QED
    BY <2>1 DEF AdvanceInv, AppliedAdvances
<1>9. ASSUME Environment \/ UNCHANGED vars
      PROVE  (~lost' => Kept') /\ AppliedAdvances
  <2>1. /\ UNCHANGED <<ref, receipt, muddled, pc, target>> /\ ref' >= ref
        /\ ~lost' => ~lost
    BY <1>0, <1>9 DEF Environment, LoseTurn, GreenMoves, ClockMoves, Drift,
                      T!Lose, vars
  <2>2. QED
    BY <2>1 DEF AdvanceInv, AppliedAdvances
<1>10. ASSUME NEW p \in Proc, NEW v \in Pack, StartPinned(p, v) PROVE FALSE
  BY <1>10 DEF StartPinned
<1>11. CASE \E p \in Proc : RunStep(p)
  <2>1. PICK p \in Proc : RunStep(p)
    BY <1>11
  <2>2. CASE Ensure(p)
    BY <1>3, <1>4, <1>7, <2>2 DEF Ensure
  <2>3. CASE Install(p)
    <3>1. CASE \E f \in File : Place(p, f) \/ Prune(p, f)
      BY <1>8, <3>1
    <3>2. CASE \/ FetchFails(p) \/ FetchVerified(p) \/ InstallFails(p)
               \/ StartPrune(p) \/ FinishFiles(p) \/ MergeSegments(p)
      <4>1. \E f : f \in File
        BY PayloadAssumption, HydrationAssumption
           DEF PayloadAssumption, HydrationAssumption, Ships
      <4>2. QED
        BY <1>8, <3>2, <4>1
    <3>3. QED
      BY <1>2, <1>6, <2>3, <3>1, <3>2 DEF Install
  <2>4. QED
    BY <1>5, <1>10, <2>1, <2>2, <2>3 DEF RunStep
<1>12. QED
  BY <1>step, <1>9, <1>11

(***************************************************************************)
(* Where nothing is pinned, the applied pack never goes back while no turn *)
(* is lost and no install was cut short.                                   *)
(***************************************************************************)
THEOREM AppliedMonotonic == Spec => AppliedNeverRollsBack
<1>1. CASE "pinned" \in Modes
  <2>1. [Next]_vars => ["pinned" \in Modes \/ AppliedAdvances]_vars
    BY <1>1
  <2>2. QED
    BY <2>1, PTL DEF Spec, AppliedNeverRollsBack
<1>2. CASE "pinned" \notin Modes
  <2>1. Init => ReceiptInv /\ AdvanceInv
    BY ReceiptInit DEF Init, AdvanceInv, NoReceipt
  <2>2. ReceiptInv /\ AdvanceInv /\ [Next]_vars => (ReceiptInv /\ AdvanceInv)'
    BY <1>2, ReceiptStep, AdvanceStep
  <2>3. ReceiptInv /\ AdvanceInv /\ [Next]_vars
          => ["pinned" \in Modes \/ AppliedAdvances]_vars
    BY <1>2, ReceiptStep, AdvanceStep
  <2>4. QED
    BY <2>1, <2>2, <2>3, PTL DEF Spec, AppliedNeverRollsBack
<1>3. QED
  BY <1>1, <1>2
==============================================================================
