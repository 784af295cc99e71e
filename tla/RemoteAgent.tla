----------------------------- MODULE RemoteAgent -----------------------------
(***************************************************************************)
(* The remote-miner agent (src/miner/remote_agent.go) with the external    *)
(* miners that pull work from it (GetWork) and push solutions to it        *)
(* (SubmitWork), and the reporters of hash rates (SubmitHashrate).         *)
(*                                                                         *)
(*  - Start/Stop flip `running` with a compare-and-swap; Start makes a     *)
(*    fresh quitCh and workCh (capacity 1) and a fresh loop goroutine,     *)
(*    Stop closes both channels. An epoch e is one Start with its          *)
(*    channels and its loop.                                               *)
(*  - loop(e) selects on quitCh, workCh and a 5 s ticker; a receive from   *)
(*    the closed workCh yields nil.                                        *)
(*  - GetWork runs under a.mu in one step. SubmitWork verifies under a.mu *)
(*    and, on success, keeps a.mu across its send on the unbuffered       *)
(*    returnCh; the send completes when the miner's worker receives.       *)
(*  - The loop's work case receives, then locks a.mu: while SubmitWork     *)
(*    holds a.mu the loop is stuck there and serves no tick.               *)
(*                                                                         *)
(* A work item is its header hash (HashNoNonce). A hash is a share value   *)
(* in 0 .. HashSpace - 1; VerifySeal (AI recomputation and PoW compare) is *)
(* abstracted to "share <= HashSpace \div difficulty", the miner being     *)
(* assumed to send the right AI hash. Time is whole seconds.               *)
(***************************************************************************)
EXTENDS Integers, Sequences

CONSTANTS
    Hdrs,         \* header hashes of the work the miner pushes
    NoWork,       \* a nil *Work
    Diff,         \* Diff[h]: header.Difficulty of work h
    HashSpace,    \* 2^256, scaled down
    Shares,       \* share values remote miners submit
    Ids,          \* hash-rate reporter ids
    MaxStarts,    \* bound on Start calls
    MaxCalls,     \* bound on GetWork handouts of one work item
    MaxTime       \* bound on the clock

TickPeriod == 5       \* time.NewTicker(5 * time.Second)
RateTimeout == 10     \* time.Since(hashrate.ping) > 10*time.Second

ASSUME AgentAssumption ==
    /\ NoWork \notin Hdrs
    /\ HashSpace \in Nat \ {0}
    /\ Diff \in [Hdrs -> 1 .. HashSpace]
    /\ Shares \subseteq 0 .. HashSpace - 1
    /\ MaxStarts \in Nat /\ MaxCalls \in Nat /\ MaxTime \in Nat

Epochs == 1 .. MaxStarts
NoPing == -1

VARIABLES
    running,      \* a.running
    epoch,        \* the latest Start; 0 before the first
    quit,         \* quit[e]: quitCh of epoch e is closed
    wch,          \* wch[e]: the buffered contents of workCh of epoch e
    wclosed,      \* wclosed[e]: workCh of epoch e is closed
    alive,        \* alive[e]: loop goroutine of epoch e has not returned
    started,      \* started[e]: time loop e started (its ticker's phase)
    tick,         \* tick[e]: loop e's ticker channel holds a tick
    inbox,        \* inbox[e]: <<w>> while loop e, in its work case, waits
                  \* for a.mu to store w; <<>> while it is at its select
    lastRecv,     \* lastRecv[e]: the last work loop e stored
    currentWork,  \* a.currentWork
    work,         \* the keys of a.work
    handouts,     \* handouts[h]: GetWork packages served for h
    pkgs,         \* packages the remote miners hold
    sending,      \* the header SubmitWork is sending on returnCh, holding
                  \* a.mu, or NoWork (a.mu is then free)
    accepted,     \* accepted[h]: headers h received from returnCh
    hashrate,     \* hashrate[id]: ping time of id, or NoPing
    now           \* the clock

vars == <<running, epoch, quit, wch, wclosed, alive, started, tick, inbox,
          lastRecv, currentWork, work, handouts, pkgs, sending, accepted,
          hashrate, now>>

(* The variables of a loop goroutine, of the a.mu-protected maps, and of   *)
(* the hash-rate map and the clock.                                        *)
loopVars == <<alive, tick, inbox, lastRecv>>
muVars == <<currentWork, work, handouts, pkgs, sending, accepted>>
chanVars == <<running, epoch, quit, wch, wclosed, started>>

(* The boundary VerifySeal compares a share with: maxUint256 / difficulty. *)
Target(h) == HashSpace \div Diff[h]

(* GetWork's res[2]: common.BytesToHash(block.Difficulty.Bytes()).        *)
Boundary(h) == Diff[h]

(* a.mu is free: no SubmitWork holds it across its returnCh send (GetWork  *)
(* and the rest of SubmitWork hold it only within one step).               *)
MuFree == sending = NoWork

-----------------------------------------------------------------------------
Init ==
    /\ running = 0
    /\ epoch = 0
    /\ quit = [e \in Epochs |-> FALSE]
    /\ wch = [e \in Epochs |-> <<>>]
    /\ wclosed = [e \in Epochs |-> FALSE]
    /\ alive = [e \in Epochs |-> FALSE]
    /\ started = [e \in Epochs |-> 0]
    /\ tick = [e \in Epochs |-> FALSE]
    /\ inbox = [e \in Epochs |-> <<>>]
    /\ lastRecv = [e \in Epochs |-> NoWork]
    /\ currentWork = NoWork
    /\ work = {}
    /\ handouts = [h \in Hdrs |-> 0]
    /\ pkgs = {}
    /\ sending = NoWork
    /\ accepted = [h \in Hdrs |-> 0]
    /\ hashrate = [id \in Ids |-> NoPing]
    /\ now = 0

(* Start: CompareAndSwapInt32(&a.running, 0, 1), fresh channels, go loop. *)
Start ==
    /\ running = 0
    /\ epoch < MaxStarts
    /\ running' = 1
    /\ epoch' = epoch + 1
    /\ alive' = [alive EXCEPT ![epoch + 1] = TRUE]
    /\ started' = [started EXCEPT ![epoch + 1] = now]
    /\ UNCHANGED <<quit, wch, wclosed, tick, inbox, lastRecv, muVars,
                   hashrate, now>>

(* Stop: CompareAndSwapInt32(&a.running, 1, 0), close(quitCh),            *)
(* close(workCh).                                                          *)
Stop ==
    /\ running = 1
    /\ running' = 0
    /\ quit' = [quit EXCEPT ![epoch] = TRUE]
    /\ wclosed' = [wclosed EXCEPT ![epoch] = TRUE]
    /\ UNCHANGED <<epoch, wch, started, loopVars, muVars, hashrate, now>>

(* Mutant: workCh made with a larger buffer than make(chan *Work, 1).   *)
PushWorkUnbounded(h) ==
    /\ running = 1
    /\ wch' = [wch EXCEPT ![epoch] = Append(@, h)]
    /\ UNCHANGED <<running, epoch, quit, wclosed, started, loopVars, muVars,
                   hashrate, now>>

(* The miner hands new work to the running agent: a.Work() <- work. The   *)
(* send blocks while the one-slot channel is full.                         *)
PushWork(h) ==
    /\ running = 1
    /\ wch[epoch] = <<>>
    /\ wch' = [wch EXCEPT ![epoch] = <<h>>]
    /\ UNCHANGED <<running, epoch, quit, wclosed, started, loopVars, muVars,
                   hashrate, now>>

-----------------------------------------------------------------------------
(* loop, case <-quitCh: return (and ticker.Stop).                          *)
LoopQuit(e) ==
    /\ alive[e]
    /\ inbox[e] = <<>>
    /\ quit[e]
    /\ alive' = [alive EXCEPT ![e] = FALSE]
    /\ tick' = [tick EXCEPT ![e] = FALSE]
    /\ UNCHANGED <<chanVars, inbox, lastRecv, muVars, hashrate, now>>

(* loop, case work := <-workCh: the receive. After Stop the buffered work  *)
(* is still delivered, and then nil, for ever.                             *)
LoopWork(e) ==
    /\ alive[e]
    /\ inbox[e] = <<>>
    /\ \/ /\ wch[e] # <<>>
          /\ inbox' = [inbox EXCEPT ![e] = <<Head(wch[e])>>]
          /\ wch' = [wch EXCEPT ![e] = Tail(wch[e])]
       \/ /\ wch[e] = <<>>
          /\ wclosed[e]
          /\ inbox' = [inbox EXCEPT ![e] = <<NoWork>>]
          /\ UNCHANGED wch
    /\ UNCHANGED <<running, epoch, quit, wclosed, started, alive, tick,
                   lastRecv, muVars, hashrate, now>>

(* The work case goes on: a.mu.Lock(); a.currentWork = work; Unlock. The  *)
(* loop waits here, serving neither quitCh nor its ticker, while a.mu is   *)
(* held.                                                                   *)
LoopStore(e) ==
    /\ inbox[e] # <<>>
    /\ MuFree
    /\ currentWork' = inbox[e][1]
    /\ lastRecv' = IF inbox[e][1] = NoWork THEN lastRecv
                   ELSE [lastRecv EXCEPT ![e] = inbox[e][1]]
    /\ inbox' = [inbox EXCEPT ![e] = <<>>]
    /\ UNCHANGED <<chanVars, alive, tick, work, handouts, pkgs, sending,
                   accepted, hashrate, now>>

(* loop, case <-ticker.C: under hashrateMu delete every reporter whose     *)
(* ping is more than 10 s old. (The work-map sweep is commented out.)      *)
LoopTick(e) ==
    /\ alive[e]
    /\ inbox[e] = <<>>
    /\ tick[e]
    /\ tick' = [tick EXCEPT ![e] = FALSE]
    /\ hashrate' = [id \in Ids |->
                      IF hashrate[id] # NoPing /\ now - hashrate[id] > RateTimeout
                      THEN NoPing ELSE hashrate[id]]
    /\ UNCHANGED <<chanVars, alive, inbox, lastRecv, muVars, now>>

-----------------------------------------------------------------------------
(* GetWork under a.mu: with a current work, publish [HashNoNonce, seed,    *)
(* difficulty] and (re)insert a.work[HashNoNonce] = a.currentWork; with    *)
(* none, return an error (no state change).                                *)
GetWork ==
    /\ MuFree
    /\ currentWork # NoWork
    /\ handouts[currentWork] < MaxCalls
    /\ work' = work \union {currentWork}
    /\ handouts' = [handouts EXCEPT ![currentWork] = @ + 1]
    /\ pkgs' = pkgs \union {[h |-> currentWork, bound |-> Boundary(currentWork)]}
    /\ UNCHANGED <<chanVars, loopVars, currentWork, sending, accepted,
                   hashrate, now>>

(* SubmitWork under a.mu, for the header hash of package p and a nonce     *)
(* whose share is s. Well-formed strings are assumed (the length, nonce    *)
(* and address checks only return false). The work must be pending; then  *)
(* VerifySeal decides: on failure SubmitWork returns false and unlocks; on *)
(* success it sends the header on returnCh, still holding a.mu.            *)
SubmitWork(p, s) ==
    /\ MuFree
    /\ p.h \in work
    /\ \/ /\ s <= Target(p.h)
          /\ sending' = p.h
       \/ /\ s > Target(p.h)
          /\ UNCHANGED sending
    /\ UNCHANGED <<chanVars, loopVars, currentWork, work, handouts, pkgs,
                   accepted, hashrate, now>>

(* Mutant: SubmitWork forgets delete(a.work, hash) after the send.        *)
SubmitSendNoDelete ==
    /\ sending # NoWork
    /\ accepted' = [accepted EXCEPT ![sending] = @ + 1]
    /\ sending' = NoWork
    /\ UNCHANGED <<chanVars, loopVars, currentWork, work, handouts, pkgs,
                   hashrate, now>>

(* The miner's worker receives from returnCh; SubmitWork deletes           *)
(* a.work[hash], returns true and unlocks a.mu. Until a receiver comes     *)
(* (returnCh is nil before SetReturnCh) a.mu stays held.                   *)
SubmitSend ==
    /\ sending # NoWork
    /\ accepted' = [accepted EXCEPT ![sending] = @ + 1]
    /\ work' = work \ {sending}
    /\ sending' = NoWork
    /\ UNCHANGED <<chanVars, loopVars, currentWork, handouts, pkgs,
                   hashrate, now>>

(* SubmitHashrate: a.hashrate[id] = {time.Now(), rate} under hashrateMu.   *)
SubmitHashrate(id) ==
    /\ hashrate' = [hashrate EXCEPT ![id] = now]
    /\ UNCHANGED <<chanVars, loopVars, muVars, now>>

(* A loop that can run: it is at its select, or in its work case with a.mu *)
(* free.                                                                   *)
Runnable(e) == alive[e] /\ (inbox[e] = <<>> \/ MuFree)

(* One second passes. Each live loop's ticker fires on multiples of 5 s    *)
(* from its start into a one-slot channel; a tick arriving while one is    *)
(* pending is dropped (time.Ticker). A loop that can run serves its tick   *)
(* within the second; a loop blocked on a.mu holds nothing up.             *)
Advance ==
    /\ now < MaxTime
    /\ \A e \in Epochs : Runnable(e) => ~tick[e]
    /\ now' = now + 1
    /\ tick' = [e \in Epochs |->
                  tick[e] \/ (alive[e] /\ (now + 1 - started[e]) % TickPeriod = 0)]
    /\ UNCHANGED <<chanVars, alive, inbox, lastRecv, muVars, hashrate>>

Next ==
    \/ Start \/ Stop \/ GetWork \/ SubmitSend \/ Advance
    \/ \E h \in Hdrs : PushWork(h)
    \/ \E e \in Epochs : LoopQuit(e) \/ LoopWork(e) \/ LoopStore(e) \/ LoopTick(e)
    \/ \E p \in pkgs, s \in Shares : SubmitWork(p, s)
    \/ \E id \in Ids : SubmitHashrate(id)

Spec == Init /\ [][Next]_vars

-----------------------------------------------------------------------------
TypeOK ==
    /\ running \in {0, 1}
    /\ epoch \in 0 .. MaxStarts
    /\ quit \in [Epochs -> BOOLEAN]
    /\ wch \in [Epochs -> {<<>>} \union {<<h>> : h \in Hdrs}]
    /\ wclosed \in [Epochs -> BOOLEAN]
    /\ alive \in [Epochs -> BOOLEAN]
    /\ started \in [Epochs -> 0 .. MaxTime]
    /\ tick \in [Epochs -> BOOLEAN]
    /\ inbox \in [Epochs -> {<<>>} \union {<<w>> : w \in Hdrs \union {NoWork}}]
    /\ lastRecv \in [Epochs -> Hdrs \union {NoWork}]
    /\ currentWork \in Hdrs \union {NoWork}
    /\ work \subseteq Hdrs
    /\ handouts \in [Hdrs -> 0 .. MaxCalls]
    /\ pkgs \subseteq [h : Hdrs, bound : Nat]
    /\ sending \in Hdrs \union {NoWork}
    /\ accepted \in [Hdrs -> 0 .. MaxCalls]
    /\ hashrate \in [Ids -> {NoPing} \union 0 .. MaxTime]
    /\ now \in 0 .. MaxTime

(* Every header the agent sends on returnCh is backed by a GetWork        *)
(* handout of its own: SubmitWork consumes the a.work entry that GetWork   *)
(* made, so no handout yields two accepted blocks.                         *)
AcceptBackedByHandout ==
    \A h \in Hdrs : accepted[h] + (IF h \in work THEN 1 ELSE 0) <= handouts[h]

(* Spec 4.4 and test 6: while the agent runs, a reporter silent for more   *)
(* than 10 s is evicted by the 5 s sweep, so none is counted more than     *)
(* 15 s after it, or the current loop, was last heard from. The code's     *)
(* loop can be held on a.mu in its work case while SubmitWork waits on     *)
(* returnCh, and then no sweep runs.                                       *)
SilentSince(id) ==
    IF hashrate[id] >= started[epoch] THEN hashrate[id] ELSE started[epoch]

HashrateEvicted ==
    \A id \in Ids :
        hashrate[id] # NoPing /\ running = 1 =>
            now - SilentSince(id) <= RateTimeout + TickPeriod

(* Spec scenario 5: once a valid solution for a work package is accepted,  *)
(* a second submission of the same work returns false; so each sealed     *)
(* header reaches returnCh at most once (SubmitWork deletes the a.work     *)
(* entry; GetWork may put a.currentWork back).                             *)
AcceptedOnce == \A h \in Hdrs : accepted[h] <= 1


(* Spec 4.6: a running agent serves GetWork with the work it received on   *)
(* its input channel: once the current loop has received work, that is     *)
(* a.currentWork (loop's work case; Start/Stop recreate the channels).     *)
ServesLatestWork ==
    running = 1 /\ lastRecv[epoch] # NoWork => currentWork = lastRecv[epoch]
====
