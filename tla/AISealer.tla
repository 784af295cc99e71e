------------------------------ MODULE AISealer ------------------------------
(***************************************************************************)
(* One sealing attempt of the AI proof-of-work engine, as run by           *)
(* Amhash.Seal (src/consensus/amhash/sealer.go):                           *)
(*                                                                         *)
(*  - the AI stage: aiMineProcess starts an AI driver goroutine            *)
(*    (startAIMining -> aidigger.AIDigging) and selects on stop, update,   *)
(*    the driver's error channel and its result channel;                   *)
(*  - the AI driver: creat_thread starts a native inference task, then     *)
(*    the driver polls get_result until the task is ready or its abort     *)
(*    channel is closed, in which case it calls cancel_thread;             *)
(*  - the PoW stage: NumCPU workers (one for a broadcast node) run mine,   *)
(*    each trying nonces until it finds one under the target or sees the   *)
(*    abort channel closed; Seal selects on stop, found and update.        *)
(*                                                                         *)
(* Data is abstracted away: a nonce either meets the target or not (the    *)
(* x11 hash is an oracle), and an AI task is just running or ready.        *)
(* A generation g in Gens is one call of aiMineProcess with its own        *)
(* abortCh, foundCh and errCh; update restarts create a new generation.    *)
(***************************************************************************)
EXTENDS Naturals, FiniteSets

CONSTANTS
    NumCPU,          \* runtime.NumCPU(): number of PoW workers
    MaxUpdates       \* bound on amhash.update messages received by one Seal

ASSUME SealerAssumption ==
    /\ NumCPU \in Nat \ {0}
    /\ MaxUpdates \in Nat

Workers == 0 .. NumCPU - 1          \* worker ids i of the spawn loop
Gens    == 1 .. MaxUpdates + 1      \* AI driver generations

VARIABLES
    isBroadcastNode, \* Seal's isBroadcastNode argument
    sealPc,          \* where Seal is: AI stage, spawning, PoW select, waits
    outcome,         \* what Seal returned
    stop,            \* the caller's stop channel is closed
    updates,         \* amhash.update messages Seal has received
    randReady,       \* amhash.rand # nil
    gen,             \* generation of the current aiMineProcess call
    drv,             \* drv[g]: control point of AI driver goroutine g
    task,            \* task[g]: native task created by driver g
    aiAbort,         \* aiAbort[g]: abortCh of generation g is closed
    aiFound,         \* aiFound[g]: foundCh of generation g holds a result
    aiErr,           \* aiErr[g]: errCh of generation g holds an error
    abort,           \* the PoW abort channel of this attempt is closed
    wpc              \* wpc[w]: control point of PoW worker w

vars == <<isBroadcastNode, sealPc, outcome, stop, updates, randReady, gen,
          drv, task, aiAbort, aiFound, aiErr, abort, wpc>>

SealPcs   == {"ai", "spawn", "pow", "restart", "drain", "done"}
Outcomes  == {"pending", "stopped", "failed", "sealed"}
DrvPcs    == {"idle", "create", "poll", "exit"}
TaskState == {"none", "running", "ready", "released"}
WorkerPcs == {"idle", "run", "send", "exit"}

-----------------------------------------------------------------------------
(* Starting an AI driver: go amhash.startAIMining(...) in aiMineProcess.   *)
StartDriver(g) ==
    drv' = [drv EXCEPT ![g] = "create"]

(* Seal begins: the AI stage, unless this is a broadcast node, for which   *)
(* aiMineProcess returns at once and Seal goes on to spawn its worker.     *)
Init ==
    /\ isBroadcastNode \in BOOLEAN
    /\ sealPc = IF isBroadcastNode THEN "spawn" ELSE "ai"
    /\ outcome = "pending"
    /\ stop = FALSE
    /\ updates = 0
    /\ randReady \in BOOLEAN
    /\ gen = 1
    /\ drv = [g \in Gens |-> IF g = 1 /\ ~isBroadcastNode THEN "create" ELSE "idle"]
    /\ task = [g \in Gens |-> "none"]
    /\ aiAbort = [g \in Gens |-> FALSE]
    /\ aiFound = [g \in Gens |-> FALSE]
    /\ aiErr = [g \in Gens |-> FALSE]
    /\ abort = FALSE
    /\ wpc = [w \in Workers |-> "idle"]

-----------------------------------------------------------------------------
(* The caller closes the stop channel (the miner's worker aborting).       *)
Stop ==
    /\ ~stop
    /\ stop' = TRUE
    /\ UNCHANGED <<isBroadcastNode, sealPc, outcome, updates, randReady, gen,
                   drv, task, aiAbort, aiFound, aiErr, abort, wpc>>

-----------------------------------------------------------------------------
(* AI stage: the select of aiMineProcess, one action per case.             *)

(* case <-stop: close(abortCh); Seal returns nil, nil.                     *)
AIStop ==
    /\ sealPc = "ai"
    /\ stop
    /\ aiAbort' = [aiAbort EXCEPT ![gen] = TRUE]
    /\ sealPc' = "done"
    /\ outcome' = "stopped"
    /\ UNCHANGED <<isBroadcastNode, stop, updates, randReady, gen, drv, task,
                   aiFound, aiErr, abort, wpc>>

(* Mutant: the update case forgets close(abortCh).                        *)
AIUpdateNoClose ==
    /\ sealPc = "ai"
    /\ updates < MaxUpdates
    /\ updates' = updates + 1
    /\ gen' = gen + 1
    /\ StartDriver(gen + 1)
    /\ UNCHANGED <<isBroadcastNode, sealPc, outcome, stop, randReady, task,
                   aiAbort, aiFound, aiErr, abort, wpc>>

(* case <-amhash.update: close(abortCh) and call aiMineProcess again,      *)
(* which starts a fresh driver with fresh channels.                        *)
AIUpdate ==
    /\ sealPc = "ai"
    /\ updates < MaxUpdates
    /\ updates' = updates + 1
    /\ aiAbort' = [aiAbort EXCEPT ![gen] = TRUE]
    /\ gen' = gen + 1
    /\ StartDriver(gen + 1)
    /\ UNCHANGED <<isBroadcastNode, sealPc, outcome, stop, randReady, task,
                   aiFound, aiErr, abort, wpc>>

(* case err := <-errCh: aiMineProcess returns the error and so does Seal.  *)
AIError ==
    /\ sealPc = "ai"
    /\ aiErr[gen]
    /\ aiErr' = [aiErr EXCEPT ![gen] = FALSE]
    /\ sealPc' = "done"
    /\ outcome' = "failed"
    /\ UNCHANGED <<isBroadcastNode, stop, updates, randReady, gen, drv, task,
                   aiAbort, aiFound, abort, wpc>>

(* case result := <-foundCh: the AI hash is written into curHeader.        *)
AIFound ==
    /\ sealPc = "ai"
    /\ aiFound[gen]
    /\ aiFound' = [aiFound EXCEPT ![gen] = FALSE]
    /\ sealPc' = "spawn"
    /\ UNCHANGED <<isBroadcastNode, outcome, stop, updates, randReady, gen,
                   drv, task, aiAbort, aiErr, abort, wpc>>

-----------------------------------------------------------------------------
(* AI driver g: startAIMining and aidigger.AIDigging.                      *)

(* creat_thread: the native task starts, or cgo reports an error and the   *)
(* driver sends it on errCh (buffered, so the send never blocks) and       *)
(* returns.                                                                *)
DriverCreate(g) ==
    /\ drv[g] = "create"
    /\ \/ /\ task' = [task EXCEPT ![g] = "running"]
          /\ drv' = [drv EXCEPT ![g] = "poll"]
          /\ UNCHANGED aiErr
       \/ /\ aiErr' = [aiErr EXCEPT ![g] = TRUE]
          /\ drv' = [drv EXCEPT ![g] = "exit"]
          /\ UNCHANGED task
    /\ UNCHANGED <<isBroadcastNode, sealPc, outcome, stop, updates, randReady,
                   gen, aiAbort, aiFound, abort, wpc>>

(* creat_thread called as `cThreadId, err := C.creat_thread(...)`: cgo     *)
(* returns the C errno as err, which a call that did start the native      *)
(* task can leave set; the driver then reports an error and returns        *)
(* without a cancel_thread for the task it started.                        *)
DriverCreateStaleErrno(g) ==
    /\ drv[g] = "create"
    /\ task' = [task EXCEPT ![g] = "running"]
    /\ aiErr' = [aiErr EXCEPT ![g] = TRUE]
    /\ drv' = [drv EXCEPT ![g] = "exit"]
    /\ UNCHANGED <<isBroadcastNode, sealPc, outcome, stop, updates, randReady,
                   gen, aiAbort, aiFound, abort, wpc>>

(* The native inference task finishes.                                     *)
TaskComplete(g) ==
    /\ task[g] = "running"
    /\ task' = [task EXCEPT ![g] = "ready"]
    /\ UNCHANGED <<isBroadcastNode, sealPc, outcome, stop, updates, randReady,
                   gen, drv, aiAbort, aiFound, aiErr, abort, wpc>>

(* default branch of the poll loop while abortCh is open: get_result       *)
(* returns 1, which releases the task; the result goes on foundCh          *)
(* (buffered) and the driver returns. A poll that finds the task still     *)
(* running changes nothing and is left out.                                *)
DriverPoll(g) ==
    /\ drv[g] = "poll"
    /\ ~aiAbort[g]
    /\ task[g] = "ready"
    /\ task' = [task EXCEPT ![g] = "released"]
    /\ aiFound' = [aiFound EXCEPT ![g] = TRUE]
    /\ drv' = [drv EXCEPT ![g] = "exit"]
    /\ UNCHANGED <<isBroadcastNode, sealPc, outcome, stop, updates, randReady,
                   gen, aiAbort, aiErr, abort, wpc>>

(* Mutant: cancel_thread without the return after it; the loop goes on.   *)
DriverCancelNoReturn(g) ==
    /\ drv[g] = "poll"
    /\ aiAbort[g]
    /\ \/ /\ task' = [task EXCEPT ![g] = "released"]
          /\ UNCHANGED aiErr
       \/ /\ aiErr' = [aiErr EXCEPT ![g] = TRUE]
          /\ UNCHANGED task
    /\ UNCHANGED <<isBroadcastNode, sealPc, outcome, stop, updates, randReady,
                   gen, drv, aiAbort, aiFound, abort, wpc>>

(* case <-stopCh (the abortCh of aiMineProcess): cancel_thread releases    *)
(* the task, or reports an error that goes on errCh and leaves the task.   *)
DriverCancel(g) ==
    /\ drv[g] = "poll"
    /\ aiAbort[g]
    /\ drv' = [drv EXCEPT ![g] = "exit"]
    /\ \/ /\ task' = [task EXCEPT ![g] = "released"]
          /\ UNCHANGED aiErr
       \/ /\ aiErr' = [aiErr EXCEPT ![g] = TRUE]
          /\ UNCHANGED task
    /\ UNCHANGED <<isBroadcastNode, sealPc, outcome, stop, updates, randReady,
                   gen, aiAbort, aiFound, abort, wpc>>

-----------------------------------------------------------------------------
(* PoW stage.                                                              *)

(* Mutant: the spawn loop runs i <= threads, one worker too many.         *)
SpawnOffByOne ==
    /\ sealPc = "spawn"
    /\ \/ /\ ~randReady
          /\ sealPc' = "done"
          /\ outcome' = "failed"
          /\ UNCHANGED <<randReady, abort, wpc>>
       \/ /\ randReady' = TRUE
          /\ abort' = FALSE
          /\ wpc' = [w \in 0 .. NumCPU |->
                       IF isBroadcastNode /\ w > 1 THEN "idle" ELSE "run"]
          /\ sealPc' = "pow"
          /\ UNCHANGED outcome
    /\ UNCHANGED <<isBroadcastNode, stop, updates, gen, drv, task, aiAbort,
                   aiFound, aiErr>>

(* Mutant: the crand failure returns nil, nil instead of nil, err.       *)
SpawnNilErr ==
    /\ sealPc = "spawn"
    /\ \/ /\ ~randReady
          /\ sealPc' = "done"
          /\ outcome' = "stopped"
          /\ UNCHANGED <<randReady, abort, wpc>>
       \/ /\ randReady' = TRUE
          /\ abort' = FALSE
          /\ wpc' = [w \in Workers |->
                       IF isBroadcastNode /\ w # 0 THEN wpc[w] ELSE "run"]
          /\ sealPc' = "pow"
          /\ UNCHANGED outcome
    /\ UNCHANGED <<isBroadcastNode, stop, updates, gen, drv, task, aiAbort,
                   aiFound, aiErr>>

(* Seal after the AI stage: seed amhash.rand under the lock if it is nil   *)
(* (crand.Int may fail, and Seal returns the error), then spawn NumCPU     *)
(* workers, or one for a broadcast node, on fresh abort/found channels.    *)
Spawn ==
    /\ sealPc = "spawn"
    /\ \/ /\ ~randReady
          /\ sealPc' = "done"
          /\ outcome' = "failed"
          /\ UNCHANGED <<randReady, abort, wpc>>
       \/ /\ randReady' = TRUE
          /\ abort' = FALSE
          /\ wpc' = [w \in Workers |->
                       IF isBroadcastNode /\ w # 0 THEN wpc[w] ELSE "run"]
          /\ sealPc' = "pow"
          /\ UNCHANGED outcome
    /\ UNCHANGED <<isBroadcastNode, stop, updates, gen, drv, task, aiAbort,
                   aiFound, aiErr>>

(* mine, default branch: this nonce's share is under the target, so the    *)
(* worker goes to offer curHeader on found. A nonce that misses changes    *)
(* nothing the model observes and is left out.                             *)
WorkerFind(w) ==
    /\ wpc[w] = "run"
    /\ ~abort
    /\ wpc' = [wpc EXCEPT ![w] = "send"]
    /\ UNCHANGED <<isBroadcastNode, sealPc, outcome, stop, updates, randReady,
                   gen, drv, task, aiAbort, aiFound, aiErr, abort>>

(* mine: case <-abort in the search loop, or in the select around the      *)
(* found send: the worker returns (pend.Done).                             *)
WorkerAbort(w) ==
    /\ wpc[w] \in {"run", "send"}
    /\ abort
    /\ wpc' = [wpc EXCEPT ![w] = "exit"]
    /\ UNCHANGED <<isBroadcastNode, sealPc, outcome, stop, updates, randReady,
                   gen, drv, task, aiAbort, aiFound, aiErr, abort>>

(* Mutant: Seal's PoW select without the stop case.                       *)
PowStopMissing == FALSE

(* Seal's select, case <-stop: close(abort), then wait for the workers.    *)
PowStop ==
    /\ sealPc = "pow"
    /\ stop
    /\ abort' = TRUE
    /\ sealPc' = "drain"
    /\ outcome' = "stopped"
    /\ UNCHANGED <<isBroadcastNode, stop, updates, randReady, gen, drv, task,
                   aiAbort, aiFound, aiErr, wpc>>

(* Seal's select, case result = <-found: the unbuffered send of worker w   *)
(* meets Seal's receive; Seal closes abort and w leaves mine.              *)
PowFound(w) ==
    /\ sealPc = "pow"
    /\ wpc[w] = "send"
    /\ ~abort
    /\ abort' = TRUE
    /\ wpc' = [wpc EXCEPT ![w] = "exit"]
    /\ sealPc' = "drain"
    /\ outcome' = "sealed"
    /\ UNCHANGED <<isBroadcastNode, stop, updates, randReady, gen, drv, task,
                   aiAbort, aiFound, aiErr>>

(* Seal's select, case <-amhash.update: close(abort), then pend.Wait()     *)
(* and a recursive Seal on curHeader.                                      *)
PowUpdate ==
    /\ sealPc = "pow"
    /\ updates < MaxUpdates
    /\ updates' = updates + 1
    /\ abort' = TRUE
    /\ sealPc' = "restart"
    /\ UNCHANGED <<isBroadcastNode, outcome, stop, randReady, gen, drv, task,
                   aiAbort, aiFound, aiErr, wpc>>

(* Workers that have all returned: pend.Wait() is over.                    *)
WorkersDone == \A w \in Workers : wpc[w] \in {"idle", "exit"}

(* Mutant: the recursive Seal without the pend.Wait() before it.          *)
RestartNoWait ==
    /\ sealPc = "restart"
    /\ IF isBroadcastNode
          THEN /\ sealPc' = "spawn"
               /\ UNCHANGED <<gen, drv>>
          ELSE /\ sealPc' = "ai"
               /\ gen' = gen + 1
               /\ StartDriver(gen + 1)
    /\ UNCHANGED <<isBroadcastNode, outcome, stop, updates, randReady, task,
                   aiAbort, aiFound, aiErr, abort, wpc>>

(* pend.Wait() after an update, then the recursive Seal: a new AI stage    *)
(* with a new driver, or straight to spawning for a broadcast node.        *)
Restart ==
    /\ sealPc = "restart"
    /\ WorkersDone
    /\ IF isBroadcastNode
          THEN /\ sealPc' = "spawn"
               /\ UNCHANGED <<gen, drv>>
          ELSE /\ sealPc' = "ai"
               /\ gen' = gen + 1
               /\ StartDriver(gen + 1)
    /\ UNCHANGED <<isBroadcastNode, outcome, stop, updates, randReady, task,
                   aiAbort, aiFound, aiErr, abort, wpc>>

(* pend.Wait() after stop or found; then Seal returns.                     *)
Drain ==
    /\ sealPc = "drain"
    /\ WorkersDone
    /\ sealPc' = "done"
    /\ UNCHANGED <<isBroadcastNode, outcome, stop, updates, randReady, gen,
                   drv, task, aiAbort, aiFound, aiErr, abort, wpc>>

-----------------------------------------------------------------------------
(* Seal has returned and every goroutine it started has returned too.      *)
Terminated ==
    /\ sealPc = "done"
    /\ WorkersDone
    /\ \A g \in Gens : drv[g] \in {"idle", "exit"}

(* The steps Seal itself takes; update receipts are the environment's.     *)
SealerStep ==
    AIStop \/ AIError \/ AIFound \/ Spawn \/ PowStop \/
    (\E w \in Workers : PowFound(w)) \/ Restart \/ Drain

DriverStep(g) == DriverCreate(g) \/ DriverPoll(g) \/ DriverCancel(g)

Next ==
    \/ Stop
    \/ AIUpdate
    \/ PowUpdate
    \/ SealerStep
    \/ \E g \in Gens : DriverStep(g) \/ TaskComplete(g)
    \/ \E w \in Workers : WorkerFind(w) \/ WorkerAbort(w)

(* Goroutines are scheduled fairly by the Go runtime and a native          *)
(* inference task runs to completion; stop, update and a lucky nonce are   *)
(* up to the environment and get no fairness.                              *)
Fairness ==
    /\ WF_vars(SealerStep)
    /\ \A g \in Gens : WF_vars(DriverStep(g)) /\ WF_vars(TaskComplete(g))
    /\ \A w \in Workers : WF_vars(WorkerAbort(w))

Spec == Init /\ [][Next]_vars /\ Fairness

(* The same system when creat_thread can return a stale errno.            *)
NextStaleErrno == Next \/ \E g \in Gens : DriverCreateStaleErrno(g)

SpecStaleErrno == Init /\ [][NextStaleErrno]_vars /\ Fairness

-----------------------------------------------------------------------------
TypeOK ==
    /\ isBroadcastNode \in BOOLEAN
    /\ sealPc \in SealPcs
    /\ outcome \in Outcomes
    /\ stop \in BOOLEAN
    /\ updates \in 0 .. MaxUpdates
    /\ randReady \in BOOLEAN
    /\ gen \in Gens
    /\ drv \in [Gens -> DrvPcs]
    /\ task \in [Gens -> TaskState]
    /\ aiAbort \in [Gens -> BOOLEAN]
    /\ aiFound \in [Gens -> BOOLEAN]
    /\ aiErr \in [Gens -> BOOLEAN]
    /\ abort \in BOOLEAN
    /\ wpc \in [Workers -> WorkerPcs]

(* A native task whose result Seal will no longer read (Seal has left the  *)
(* AI stage of its generation) still has a live driver, and that driver's  *)
(* abort channel is closed, so cancel_thread will be called for it: no     *)
(* inference thread is leaked by stop, update or an AI error              *)
(* (aiMineProcess, AIDigging). A cancel_thread that itself fails is the    *)
(* one exception: its error is on errCh.                                   *)
Abandoned(g) == ~(sealPc = "ai" /\ g = gen)

NoOrphanTask ==
    \A g \in Gens :
        /\ task[g] \in {"running", "ready"}
        /\ Abandoned(g)
        /\ ~(aiAbort[g] /\ aiErr[g])
        => drv[g] = "poll" /\ aiAbort[g]

(* Only one sealing attempt runs at a time: while Seal is in an AI stage,  *)
(* about to spawn, or has returned, no PoW worker of an earlier attempt is *)
(* still searching or offering a result (pend.Wait in Seal).               *)
OneAttemptAtATime ==
    sealPc \in {"ai", "spawn", "done"} => WorkersDone

(* Once the caller closes stop, Seal eventually returns (stop, abort and   *)
(* pend.Wait in Seal, abortCh in aiMineProcess).                           *)
SealReturnsOnStop == stop ~> (sealPc = "done")

(* Once stop is closed, every goroutine of the attempt eventually returns: *)
(* Seal, each PoW worker and each AI driver, old generations included      *)
(* (the return after cancel_thread in AIDigging, abort in mine).           *)
NoGoroutineLeak == stop ~> Terminated

(* Seal keeps the contract SealCall states for its caller: it settles on   *)
(* one outcome and keeps it, returns (nil, nil) only after stop was        *)
(* closed, returns only once settled, and after stop settles and returns.  *)
(* The outcome is Seal's return value, the call has returned once sealPc   *)
(* is "done" (aiMineProcess's stopped/err results, the crand error, the    *)
(* stop and found cases and the pend.Wait before return).                  *)
SealContract == INSTANCE SealCall
                    WITH NoOutcome <- "pending", returned <- (sealPc = "done")

ImplementsSealCall == SealContract!Spec

=============================================================================
