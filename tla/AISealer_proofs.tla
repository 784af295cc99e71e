--------------------------- MODULE AISealer_proofs ---------------------------
(***************************************************************************)
(* Proofs about one sealing attempt (AISealer) for every NumCPU and every  *)
(* bound on update restarts.                                               *)
(***************************************************************************)
EXTENDS AISealer, TLAPS

(* Every aiMineProcess call after the first follows an update that Seal   *)
(* received, so the generation never outruns the update count; while Seal  *)
(* waits to restart after a PoW-stage update, the new generation is not    *)
(* started yet. This is what keeps gen + 1 inside Gens.                    *)
GenBound ==
    /\ gen <= updates + 1
    /\ sealPc = "restart" => gen <= updates

TypeInv == TypeOK /\ GenBound

-----------------------------------------------------------------------------
(* The initial states of Seal are well typed.                              *)
LEMMA TypeInit == Init => TypeInv
<1> SUFFICES ASSUME Init PROVE TypeInv
  OBVIOUS
<1>1. sealPc \in SealPcs /\ outcome \in Outcomes
  BY DEF Init, SealPcs, Outcomes
<1>2. drv \in [Gens -> DrvPcs] /\ task \in [Gens -> TaskState]
  BY DEF Init, DrvPcs, TaskState
<1>3. aiAbort \in [Gens -> BOOLEAN] /\ aiFound \in [Gens -> BOOLEAN]
      /\ aiErr \in [Gens -> BOOLEAN]
  BY DEF Init
<1>4. wpc \in [Workers -> WorkerPcs]
  BY DEF Init, WorkerPcs
<1>5. gen \in Gens /\ updates \in 0 .. MaxUpdates /\ GenBound
  BY SealerAssumption DEF Init, Gens, GenBound
<1>6. isBroadcastNode \in BOOLEAN /\ randReady \in BOOLEAN
      /\ stop \in BOOLEAN /\ abort \in BOOLEAN
  BY DEF Init
<1>7. QED
  BY <1>1, <1>2, <1>3, <1>4, <1>5, <1>6 DEF TypeInv, TypeOK

(* TypeOK split into the scalar variables and the per-generation and      *)
(* per-worker functions, so that each step's type goal is small.           *)
TypeScalars ==
    /\ isBroadcastNode \in BOOLEAN /\ sealPc \in SealPcs /\ outcome \in Outcomes
    /\ stop \in BOOLEAN /\ updates \in 0 .. MaxUpdates /\ randReady \in BOOLEAN
    /\ gen \in Gens /\ abort \in BOOLEAN

TypeFuns ==
    /\ drv \in [Gens -> DrvPcs] /\ task \in [Gens -> TaskState]
    /\ aiAbort \in [Gens -> BOOLEAN] /\ aiFound \in [Gens -> BOOLEAN]
    /\ aiErr \in [Gens -> BOOLEAN] /\ wpc \in [Workers -> WorkerPcs]

(* Every step of Seal, its drivers and its workers preserves the types.   *)
LEMMA TypeStep == TypeInv /\ [Next]_vars => TypeInv'
<1> SUFFICES ASSUME TypeInv, [Next]_vars
             PROVE  TypeScalars' /\ TypeFuns' /\ GenBound'
  BY DEF TypeInv, TypeOK, TypeScalars, TypeFuns
<1> USE SealerAssumption DEF TypeInv, GenBound, TypeOK, TypeScalars, TypeFuns, Gens,
                              Workers, SealPcs, Outcomes, DrvPcs, TaskState, WorkerPcs
<1>1. CASE Stop
  <2>1. TypeScalars'
    BY <1>1 DEF Stop
  <2>2. TypeFuns'
    BY <1>1 DEF Stop
  <2>3. GenBound'
    BY <1>1 DEF Stop
  <2>4. QED
    BY <2>1, <2>2, <2>3
<1>2. CASE AIUpdate
  <2>1. TypeScalars'
    BY <1>2 DEF AIUpdate, StartDriver
  <2>2. TypeFuns'
    BY <1>2 DEF AIUpdate, StartDriver
  <2>3. GenBound'
    BY <1>2 DEF AIUpdate, StartDriver
  <2>4. QED
    BY <2>1, <2>2, <2>3
<1>3. CASE PowUpdate
  <2>1. TypeScalars'
    BY <1>3 DEF PowUpdate
  <2>2. TypeFuns'
    BY <1>3 DEF PowUpdate
  <2>3. GenBound'
    BY <1>3 DEF PowUpdate
  <2>4. QED
    BY <2>1, <2>2, <2>3
<1>4. CASE AIStop
  <2>1. TypeScalars'
    BY <1>4 DEF AIStop
  <2>2. TypeFuns'
    BY <1>4 DEF AIStop
  <2>3. GenBound'
    BY <1>4 DEF AIStop
  <2>4. QED
    BY <2>1, <2>2, <2>3
<1>5. CASE AIError
  <2>1. TypeScalars'
    BY <1>5 DEF AIError
  <2>2. TypeFuns'
    BY <1>5 DEF AIError
  <2>3. GenBound'
    BY <1>5 DEF AIError
  <2>4. QED
    BY <2>1, <2>2, <2>3
<1>6. CASE AIFound
  <2>1. TypeScalars'
    BY <1>6 DEF AIFound
  <2>2. TypeFuns'
    BY <1>6 DEF AIFound
  <2>3. GenBound'
    BY <1>6 DEF AIFound
  <2>4. QED
    BY <2>1, <2>2, <2>3
<1>7. CASE Spawn
  <2>1. TypeScalars'
    BY <1>7 DEF Spawn
  <2>2. TypeFuns'
    BY <1>7 DEF Spawn
  <2>3. GenBound'
    BY <1>7 DEF Spawn
  <2>4. QED
    BY <2>1, <2>2, <2>3
<1>8. CASE PowStop
  <2>1. TypeScalars'
    BY <1>8 DEF PowStop
  <2>2. TypeFuns'
    BY <1>8 DEF PowStop
  <2>3. GenBound'
    BY <1>8 DEF PowStop
  <2>4. QED
    BY <2>1, <2>2, <2>3
<1>9. CASE \E w \in Workers : PowFound(w)
  <2>1. TypeScalars'
    BY <1>9 DEF PowFound
  <2>2. TypeFuns'
    BY <1>9 DEF PowFound
  <2>3. GenBound'
    BY <1>9 DEF PowFound
  <2>4. QED
    BY <2>1, <2>2, <2>3
<1>10. CASE Restart
  <2>1. TypeScalars'
    BY <1>10 DEF Restart, StartDriver
  <2>2. TypeFuns'
    BY <1>10 DEF Restart, StartDriver
  <2>3. GenBound'
    BY <1>10 DEF Restart, StartDriver
  <2>4. QED
    BY <2>1, <2>2, <2>3
<1>11. CASE Drain
  <2>1. TypeScalars'
    BY <1>11 DEF Drain
  <2>2. TypeFuns'
    BY <1>11 DEF Drain
  <2>3. GenBound'
    BY <1>11 DEF Drain
  <2>4. QED
    BY <2>1, <2>2, <2>3
<1>12. CASE \E g \in Gens : DriverStep(g) \/ TaskComplete(g)
  <2>1. PICK g \in Gens : DriverStep(g) \/ TaskComplete(g)
    BY <1>12
  <2>2. CASE DriverCreate(g)
    <3>1. TypeScalars'
      BY <2>2 DEF DriverCreate
    <3>2. TypeFuns'
      BY <2>2 DEF DriverCreate
    <3>3. GenBound'
      BY <2>2 DEF DriverCreate
    <3>4. QED
      BY <3>1, <3>2, <3>3
  <2>3. CASE DriverPoll(g)
    <3>1. TypeScalars'
      BY <2>3 DEF DriverPoll
    <3>2. TypeFuns'
      BY <2>3 DEF DriverPoll
    <3>3. GenBound'
      BY <2>3 DEF DriverPoll
    <3>4. QED
      BY <3>1, <3>2, <3>3
  <2>4. CASE DriverCancel(g)
    <3>1. TypeScalars'
      BY <2>4 DEF DriverCancel
    <3>2. TypeFuns'
      BY <2>4 DEF DriverCancel
    <3>3. GenBound'
      BY <2>4 DEF DriverCancel
    <3>4. QED
      BY <3>1, <3>2, <3>3
  <2>5. CASE TaskComplete(g)
    <3>1. TypeScalars'
      BY <2>5 DEF TaskComplete
    <3>2. TypeFuns'
      BY <2>5 DEF TaskComplete
    <3>3. GenBound'
      BY <2>5 DEF TaskComplete
    <3>4. QED
      BY <3>1, <3>2, <3>3
  <2>6. QED
    BY <2>1, <2>2, <2>3, <2>4, <2>5 DEF DriverStep
<1>13. CASE \E w \in Workers : WorkerFind(w) \/ WorkerAbort(w)
  <2>1. TypeScalars'
    BY <1>13 DEF WorkerFind, WorkerAbort
  <2>2. TypeFuns'
    BY <1>13 DEF WorkerFind, WorkerAbort
  <2>3. GenBound'
    BY <1>13 DEF WorkerFind, WorkerAbort
  <2>4. QED
    BY <2>1, <2>2, <2>3
<1>14. CASE UNCHANGED vars
  BY <1>14 DEF vars
<1> HIDE DEF TypeInv, GenBound, TypeOK, TypeScalars, TypeFuns, Gens, Workers, SealPcs,
              Outcomes, DrvPcs, TaskState, WorkerPcs
<1>15. QED
  BY <1>1, <1>2, <1>3, <1>4, <1>5, <1>6, <1>7, <1>8, <1>9, <1>10, <1>11,
     <1>12, <1>13, <1>14 DEF Next, SealerStep

(* Type correctness: every variable of Seal, of the AI drivers and of the  *)
(* PoW workers keeps its type in every reachable state.                    *)
THEOREM TypeCorrect == Spec => []TypeOK
<1>1. TypeInv => TypeOK
  BY DEF TypeInv
<1>2. QED
  BY TypeInit, TypeStep, <1>1, PTL DEF Spec

-----------------------------------------------------------------------------
(* The inductive invariant behind NoOrphanTask and OneAttemptAtATime. Per  *)
(* generation g it says how far the driver has got relative to its task    *)
(* and its channels, and it ties the current generation to where Seal is.  *)

(* A driver that has not called creat_thread has no task and sent nothing. *)
NotStarted(g) ==
    drv[g] \in {"idle", "create"} => task[g] = "none" /\ ~aiFound[g] /\ ~aiErr[g]

(* A polling driver owns a live task and has sent nothing yet.             *)
Polling(g) ==
    drv[g] = "poll" => task[g] \in {"running", "ready"} /\ ~aiFound[g] /\ ~aiErr[g]

(* A live task has a polling driver, unless its cancel_thread failed.      *)
TaskOwned(g) ==
    task[g] \in {"running", "ready"} => drv[g] = "poll" \/ (aiAbort[g] /\ aiErr[g])

(* A result on foundCh comes from a get_result that released the task.     *)
FoundReleased(g) ==
    aiFound[g] => task[g] = "released" /\ drv[g] = "exit"

(* An error sent before any abort is a creat_thread failure: no task.      *)
CreateFailed(g) ==
    aiErr[g] /\ ~aiAbort[g] => task[g] = "none" /\ drv[g] = "exit"

(* Generations after the current one are untouched.                        *)
FutureGen(g) ==
    g > gen => /\ drv[g] = "idle" /\ task[g] = "none"
               /\ ~aiAbort[g] /\ ~aiFound[g] /\ ~aiErr[g]

(* An earlier generation was aborted, or its driver is gone and left no   *)
(* live task behind.                                                       *)
PastGen(g) ==
    g < gen => aiAbort[g] \/ (drv[g] = "exit" /\ task[g] \in {"none", "released"})

(* Where Seal is, against the current generation.                          *)
SealerVsDriver ==
    /\ isBroadcastNode => \A g \in Gens : drv[g] = "idle" /\ task[g] = "none"
    /\ sealPc = "ai" => ~isBroadcastNode /\ ~aiAbort[gen]
    /\ sealPc \in {"spawn", "pow", "restart", "drain"} /\ ~isBroadcastNode
         => drv[gen] = "exit" /\ task[gen] = "released"
    /\ sealPc = "done"
         => aiAbort[gen] \/ (drv[gen] \in {"idle", "exit"} /\ task[gen] \in {"none", "released"})

(* While Seal waits on pend after closing abort, no worker can start       *)
(* another search or offer.                                                *)
AbortWhileWaiting ==
    sealPc \in {"restart", "drain"} => abort

IInv ==
    /\ TypeInv
    /\ \A g \in Gens : /\ NotStarted(g) /\ Polling(g) /\ TaskOwned(g)
                      /\ FoundReleased(g) /\ CreateFailed(g)
                      /\ FutureGen(g) /\ PastGen(g)
    /\ SealerVsDriver
    /\ AbortWhileWaiting
    /\ OneAttemptAtATime

GenFacts(g) ==
    /\ NotStarted(g) /\ Polling(g) /\ TaskOwned(g) /\ FoundReleased(g)
    /\ CreateFailed(g) /\ FutureGen(g) /\ PastGen(g)

(* Seal starts with one fresh driver (or none on a broadcast node).        *)
LEMMA IInvInit == Init => IInv
<1> SUFFICES ASSUME Init PROVE IInv
  OBVIOUS
<1>1. TypeInv
  BY TypeInit
<1>2. \A g \in Gens : GenFacts(g)
  BY DEF Init, GenFacts, NotStarted, Polling, TaskOwned, FoundReleased,
         CreateFailed, FutureGen, PastGen, Gens
<1>3. SealerVsDriver /\ AbortWhileWaiting /\ OneAttemptAtATime
  BY SealerAssumption DEF Init, SealerVsDriver, AbortWhileWaiting,
                          OneAttemptAtATime, WorkersDone, Gens
<1>4. QED
  BY <1>1, <1>2, <1>3 DEF IInv, GenFacts

(* Every step of Seal, of a driver, of a native task or of a worker keeps  *)
(* the invariant.                                                          *)
LEMMA IInvStep == IInv /\ [Next]_vars => IInv'
<1> SUFFICES ASSUME IInv, [Next]_vars PROVE IInv'
  OBVIOUS
<1>0. TypeInv'
  BY TypeStep DEF IInv
<1> USE SealerAssumption, <1>0
    DEF IInv, GenFacts, NotStarted, Polling, TaskOwned, FoundReleased,
        CreateFailed, FutureGen, PastGen, SealerVsDriver, AbortWhileWaiting,
        OneAttemptAtATime, WorkersDone, TypeInv, TypeOK, GenBound, Gens, Workers,
        SealPcs, DrvPcs, TaskState, WorkerPcs
<1>1. CASE Stop
  BY <1>1 DEF Stop
<1>2. CASE AIUpdate
  BY <1>2 DEF AIUpdate, StartDriver
<1>3. CASE PowUpdate
  BY <1>3 DEF PowUpdate
<1>4. CASE AIStop
  BY <1>4 DEF AIStop
<1>5. CASE AIError
  BY <1>5 DEF AIError
<1>6. CASE AIFound
  BY <1>6 DEF AIFound
<1>7. CASE Spawn
  BY <1>7 DEF Spawn
<1>8. CASE PowStop
  BY <1>8 DEF PowStop
<1>9. CASE \E w \in Workers : PowFound(w)
  BY <1>9 DEF PowFound
<1>10. CASE Restart
  BY <1>10 DEF Restart, StartDriver
<1>11. CASE Drain
  BY <1>11 DEF Drain
<1>12. CASE \E g \in Gens : DriverStep(g) \/ TaskComplete(g)
  <2>1. PICK g \in Gens : DriverStep(g) \/ TaskComplete(g)
    BY <1>12
  <2>2. CASE DriverCreate(g)
    <3>1. CASE /\ task' = [task EXCEPT ![g] = "running"]
               /\ drv' = [drv EXCEPT ![g] = "poll"]
               /\ UNCHANGED aiErr
      BY <2>2, <3>1 DEF DriverCreate
    <3>2. CASE /\ aiErr' = [aiErr EXCEPT ![g] = TRUE]
               /\ drv' = [drv EXCEPT ![g] = "exit"]
               /\ UNCHANGED task
      BY <2>2, <3>2 DEF DriverCreate
    <3>3. QED
      BY <2>2, <3>1, <3>2 DEF DriverCreate
  <2>3. CASE DriverPoll(g)
    BY <2>3 DEF DriverPoll
  <2>4. CASE DriverCancel(g)
    BY <2>4 DEF DriverCancel
  <2>5. CASE TaskComplete(g)
    BY <2>5 DEF TaskComplete
  <2>6. QED
    BY <2>1, <2>2, <2>3, <2>4, <2>5 DEF DriverStep
<1>13. CASE \E w \in Workers : WorkerFind(w) \/ WorkerAbort(w)
  <2>1. PICK w \in Workers : WorkerFind(w) \/ WorkerAbort(w)
    BY <1>13
  <2>2. CASE WorkerFind(w)
    BY <2>2 DEF WorkerFind
  <2>3. CASE WorkerAbort(w)
    BY <2>3 DEF WorkerAbort
  <2>4. QED
    BY <2>1, <2>2, <2>3
<1>14. CASE UNCHANGED vars
  BY <1>14 DEF vars
<1> HIDE DEF IInv, GenFacts, NotStarted, Polling, TaskOwned, FoundReleased,
        CreateFailed, FutureGen, PastGen, SealerVsDriver, AbortWhileWaiting,
        OneAttemptAtATime, WorkersDone, TypeInv, TypeOK, GenBound, Gens, Workers,
        SealPcs, DrvPcs, TaskState, WorkerPcs
<1>15. QED
  BY <1>1, <1>2, <1>3, <1>4, <1>5, <1>6, <1>7, <1>8, <1>9, <1>10, <1>11,
     <1>12, <1>13, <1>14 DEF Next, SealerStep

LEMMA IInvariant == Spec => []IInv
BY IInvInit, IInvStep, PTL DEF Spec

(* No native inference task is orphaned: once Seal stops reading a         *)
(* generation's result (stop, update or error), that generation's driver   *)
(* is alive with its abortCh closed and will call cancel_thread.           *)
THEOREM NoOrphanTaskHolds == Spec => []NoOrphanTask
<1>1. IInv => NoOrphanTask
  <2> SUFFICES ASSUME IInv, NEW g \in Gens,
                      task[g] \in {"running", "ready"}, Abandoned(g),
                      ~(aiAbort[g] /\ aiErr[g])
               PROVE  drv[g] = "poll" /\ aiAbort[g]
    BY DEF NoOrphanTask
  <2>1. drv[g] = "poll"
    BY DEF IInv, GenFacts, TaskOwned
  <2>2. gen \in Gens /\ g \in Nat /\ gen \in Nat
    BY SealerAssumption DEF IInv, TypeInv, TypeOK, Gens
  <2>3. CASE g > gen
    BY <2>1, <2>3 DEF IInv, GenFacts, FutureGen
  <2>4. CASE g < gen
    BY <2>1, <2>4 DEF IInv, GenFacts, PastGen
  <2>5. CASE g = gen
    <3>1. sealPc # "ai"
      BY <2>5 DEF Abandoned
    <3>2. isBroadcastNode \in BOOLEAN /\ sealPc \in SealPcs
      BY DEF IInv, TypeInv, TypeOK
    <3>3. QED
      BY <2>1, <2>5, <3>1, <3>2 DEF IInv, SealerVsDriver, SealPcs
  <2>6. QED
    BY <2>1, <2>2, <2>3, <2>4, <2>5
<1>2. QED
  BY IInvariant, <1>1, PTL

(* Only one sealing attempt runs at a time: no PoW worker outlives the     *)
(* Seal call that spawned it into an AI stage, a respawn or the return.    *)
THEOREM OneAttemptHolds == Spec => []OneAttemptAtATime
<1>1. IInv => OneAttemptAtATime
  BY DEF IInv
<1>2. QED
  BY IInvariant, <1>1, PTL

-----------------------------------------------------------------------------
(* Seal against its contract SealCall. The call has settled exactly when  *)
(* it has left the stages that can still change the outcome: the AI      *)
(* stage, spawning, the PoW select and the wait before a restart.         *)
Settled ==
    outcome = "pending" <=> sealPc \in {"ai", "spawn", "pow", "restart"}

LEMMA SettledInit == Init => Settled
BY DEF Init, Settled

(* Each select case that settles also leaves those stages, and none of    *)
(* the stages that stay in them settles.                                   *)
LEMMA SettledStep == Settled /\ [Next]_vars => Settled'
<1> SUFFICES ASSUME Settled, [Next]_vars PROVE Settled'
  OBVIOUS
<1>1. CASE AIStop \/ AIError
  BY <1>1 DEF AIStop, AIError, Settled
<1>2. CASE AIFound \/ Spawn
  BY <1>2 DEF AIFound, Spawn, Settled
<1>3. CASE PowStop \/ \E w \in Workers : PowFound(w)
  BY <1>3 DEF PowStop, PowFound, Settled
<1>4. CASE PowUpdate \/ Restart
  BY <1>4 DEF PowUpdate, Restart, Settled
<1>5. CASE Drain
  BY <1>5 DEF Drain, Settled
<1>6. CASE Stop \/ AIUpdate
  BY <1>6 DEF Stop, AIUpdate, Settled
<1>7. CASE \E g \in Gens : DriverStep(g) \/ TaskComplete(g)
  BY <1>7 DEF DriverStep, DriverCreate, DriverPoll, DriverCancel, TaskComplete, Settled
<1>8. CASE \E w \in Workers : WorkerFind(w) \/ WorkerAbort(w)
  BY <1>8 DEF WorkerFind, WorkerAbort, Settled
<1>9. CASE UNCHANGED vars
  BY <1>9 DEF vars, Settled
<1>. QED
  BY <1>1, <1>2, <1>3, <1>4, <1>5, <1>6, <1>7, <1>8, <1>9 DEF Next, SealerStep

(* The abstract variables: stop, the outcome, and "Seal has returned".     *)
absVars == <<stop, outcome, sealPc = "done">>

(* Every step of Seal, its drivers and its workers is a step of SealCall   *)
(* or leaves stop, the outcome and the return untouched.                   *)
LEMMA ContractStep ==
    Settled /\ [Next]_vars => [SealContract!Next]_absVars
<1> SUFFICES ASSUME Settled, [Next]_vars PROVE [SealContract!Next]_absVars
  OBVIOUS
<1>1. CASE Stop
  BY <1>1 DEF Stop, SealContract!Next, SealContract!CallerStop
<1>2. CASE AIStop
  <2>1. SealContract!Decide("stopped")
    BY <1>2 DEF AIStop, Settled, SealContract!Decide
  <2>. QED
    BY <2>1 DEF SealContract!Next, SealContract!Decisions
<1>3. CASE AIError
  <2>1. SealContract!Decide("failed")
    BY <1>3 DEF AIError, Settled, SealContract!Decide
  <2>. QED
    BY <2>1 DEF SealContract!Next, SealContract!Decisions
<1>4. CASE Spawn /\ sealPc' = "done"
  <2>1. outcome' = "failed" /\ stop' = stop /\ sealPc = "spawn"
    BY <1>4 DEF Spawn
  <2>2. SealContract!Decide("failed")
    BY <2>1 DEF Settled, SealContract!Decide
  <2>. QED
    BY <2>2 DEF SealContract!Next, SealContract!Decisions
<1>5. CASE Spawn /\ sealPc' # "done"
  BY <1>5 DEF Spawn, absVars
<1>6. CASE PowStop
  <2>1. SealContract!Decide("stopped")
    BY <1>6 DEF PowStop, Settled, SealContract!Decide
  <2>. QED
    BY <2>1 DEF SealContract!Next, SealContract!Decisions
<1>7. CASE \E w \in Workers : PowFound(w)
  <2>1. SealContract!Decide("sealed")
    BY <1>7 DEF PowFound, Settled, SealContract!Decide
  <2>. QED
    BY <2>1 DEF SealContract!Next, SealContract!Decisions
<1>8. CASE Drain
  <2>1. SealContract!Return
    BY <1>8 DEF Drain, Settled, SealContract!Return
  <2>. QED
    BY <2>1 DEF SealContract!Next
<1>9. CASE AIFound \/ PowUpdate \/ Restart \/ AIUpdate
  BY <1>9 DEF AIFound, PowUpdate, Restart, AIUpdate, absVars
<1>10. CASE \E g \in Gens : DriverStep(g) \/ TaskComplete(g)
  BY <1>10 DEF DriverStep, DriverCreate, DriverPoll, DriverCancel, TaskComplete, absVars
<1>11. CASE \E w \in Workers : WorkerFind(w) \/ WorkerAbort(w)
  BY <1>11 DEF WorkerFind, WorkerAbort, absVars
<1>12. CASE UNCHANGED vars
  BY <1>12 DEF vars, absVars
<1>. QED
  BY <1>1, <1>2, <1>3, <1>4, <1>5, <1>6, <1>7, <1>8, <1>9, <1>10, <1>11, <1>12
  DEF Next, SealerStep

(* Seal keeps the safety part of its contract with the miner's worker      *)
(* (ImplementsSealCall): one outcome, kept; (nil, nil) only after stop;    *)
(* no return before the outcome is settled (sealer.go Seal and             *)
(* aiMineProcess).                                                          *)
THEOREM RefinesSealCall ==
    Spec => SealContract!Init /\ [][SealContract!Next]_absVars
<1>1. Init => SealContract!Init
  BY DEF Init, SealContract!Init
<1>2. QED
  BY <1>1, SettledInit, SettledStep, ContractStep, PTL DEF Spec

=============================================================================
