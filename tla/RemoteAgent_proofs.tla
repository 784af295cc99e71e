------------------------- MODULE RemoteAgent_proofs -------------------------
(***************************************************************************)
(* Proofs about the remote-miner agent (RemoteAgent): its type invariant,  *)
(* and that every solution received from returnCh is backed by a GetWork   *)
(* handout, for every number of headers, reporters, Start calls, handouts  *)
(* and seconds.                                                            *)
(*                                                                         *)
(* AcceptBackedByHandout is not inductive alone: SubmitWork verifies under *)
(* a.mu and only later, once the worker receives from returnCh, deletes    *)
(* the a.work entry. The step that counts the acceptance needs that the    *)
(* header being sent still has its entry (SendingOK): nothing else deletes *)
(* from a.work, and a.mu keeps every other SubmitWork out meanwhile.       *)
(***************************************************************************)
EXTENDS RemoteAgent, TLAPS

(* The header SubmitWork is sending on returnCh is still pending work.     *)
SendingOK == sending # NoWork => sending \in work

IInv == TypeOK /\ AcceptBackedByHandout /\ SendingOK

-----------------------------------------------------------------------------
(* Steps that leave a.mu's maps alone keep AcceptBackedByHandout and       *)
(* SendingOK.                                                              *)
LEMMA MuFrame ==
    ASSUME IInv, UNCHANGED muVars
    PROVE  AcceptBackedByHandout' /\ SendingOK'
  BY DEF IInv, AcceptBackedByHandout, SendingOK, muVars

(* Start, Stop and PushWork touch only the channels and the loops' birth.  *)
LEMMA StartIInv ==
    ASSUME IInv, Start
    PROVE  IInv'
<1>1. UNCHANGED muVars
  BY DEF Start
<1>2. TypeOK'
  <2>1. epoch' \in 0 .. MaxStarts /\ epoch + 1 \in Epochs
    BY AgentAssumption DEF IInv, TypeOK, Start, Epochs
  <2>2. alive' \in [Epochs -> BOOLEAN] /\ started' \in [Epochs -> 0 .. MaxTime]
    BY <2>1 DEF IInv, TypeOK, Start
  <2>. QED
    BY <2>1, <2>2 DEF IInv, TypeOK, Start, muVars
<1>. QED
  BY <1>1, <1>2, MuFrame DEF IInv

LEMMA StopIInv ==
    ASSUME IInv, Stop
    PROVE  IInv'
<1>1. UNCHANGED muVars
  BY DEF Stop
<1>2. TypeOK'
  BY DEF IInv, TypeOK, Stop, loopVars, muVars
<1>. QED
  BY <1>1, <1>2, MuFrame DEF IInv

LEMMA PushWorkIInv ==
    ASSUME IInv, NEW h \in Hdrs, PushWork(h)
    PROVE  IInv'
<1>1. UNCHANGED muVars
  BY DEF PushWork
<1>2. TypeOK'
  BY DEF IInv, TypeOK, PushWork, loopVars, muVars
<1>. QED
  BY <1>1, <1>2, MuFrame DEF IInv

-----------------------------------------------------------------------------
(* The loop's select cases and the store of its work case.                 *)
LEMMA LoopQuitIInv ==
    ASSUME IInv, NEW e \in Epochs, LoopQuit(e)
    PROVE  IInv'
<1>1. UNCHANGED muVars
  BY DEF LoopQuit
<1>2. TypeOK'
  BY DEF IInv, TypeOK, LoopQuit, chanVars, muVars
<1>. QED
  BY <1>1, <1>2, MuFrame DEF IInv

LEMMA LoopWorkIInv ==
    ASSUME IInv, NEW e \in Epochs, LoopWork(e)
    PROVE  IInv'
<1>1. UNCHANGED muVars
  BY DEF LoopWork
<1>2. /\ wch' \in [Epochs -> {<<>>} \union {<<h>> : h \in Hdrs}]
      /\ inbox' \in [Epochs -> {<<>>} \union {<<w>> : w \in Hdrs \union {NoWork}}]
  <2>1. CASE wch[e] # <<>>
    <3>1. PICK x \in Hdrs : wch[e] = <<x>>
      BY <2>1 DEF IInv, TypeOK
    <3>2. /\ wch' = [wch EXCEPT ![e] = <<>>]
          /\ inbox' = [inbox EXCEPT ![e] = <<x>>]
      BY <2>1, <3>1 DEF LoopWork
    <3>. QED
      BY <3>2 DEF IInv, TypeOK
  <2>2. CASE wch[e] = <<>>
    BY <2>2 DEF IInv, TypeOK, LoopWork
  <2>. QED
    BY <2>1, <2>2
<1>3. TypeOK'
  BY <1>2 DEF IInv, TypeOK, LoopWork, muVars
<1>. QED
  BY <1>1, <1>3, MuFrame DEF IInv

LEMMA LoopStoreIInv ==
    ASSUME IInv, NEW e \in Epochs, LoopStore(e)
    PROVE  IInv'
<1>1. PICK w \in Hdrs \union {NoWork} : inbox[e] = <<w>>
  BY DEF IInv, TypeOK, LoopStore
<1>2. /\ currentWork' = w
      /\ lastRecv' \in [Epochs -> Hdrs \union {NoWork}]
      /\ inbox' \in [Epochs -> {<<>>} \union {<<v>> : v \in Hdrs \union {NoWork}}]
  BY <1>1 DEF IInv, TypeOK, LoopStore
<1>3. TypeOK'
  BY <1>1, <1>2 DEF IInv, TypeOK, LoopStore, chanVars
<1>4. AcceptBackedByHandout' /\ SendingOK'
  BY DEF IInv, AcceptBackedByHandout, SendingOK, LoopStore
<1>. QED
  BY <1>3, <1>4 DEF IInv

LEMMA LoopTickIInv ==
    ASSUME IInv, NEW e \in Epochs, LoopTick(e)
    PROVE  IInv'
<1>1. UNCHANGED muVars
  BY DEF LoopTick
<1>2. hashrate' \in [Ids -> {NoPing} \union 0 .. MaxTime]
  BY DEF IInv, TypeOK, LoopTick
<1>3. TypeOK'
  BY <1>2 DEF IInv, TypeOK, LoopTick, chanVars, muVars
<1>. QED
  BY <1>1, <1>3, MuFrame DEF IInv

-----------------------------------------------------------------------------
(* GetWork, SubmitWork and the returnCh send: the a.mu-protected maps.     *)
LEMMA GetWorkIInv ==
    ASSUME IInv, GetWork
    PROVE  IInv'
<1>0. /\ accepted' = accepted /\ sending' = sending
      /\ currentWork' = currentWork /\ hashrate' = hashrate /\ now' = now
      /\ UNCHANGED <<running, epoch, quit, wch, wclosed, started>>
      /\ UNCHANGED <<alive, tick, inbox, lastRecv>>
  BY DEF GetWork, chanVars, loopVars
<1>1. currentWork \in Hdrs /\ handouts[currentWork] < MaxCalls
  BY DEF IInv, TypeOK, GetWork
<1>7. /\ handouts' = [handouts EXCEPT ![currentWork] = handouts[currentWork] + 1]
      /\ work' = work \union {currentWork}
      /\ handouts[currentWork] \in Nat /\ accepted[currentWork] \in Nat
      /\ handouts \in [Hdrs -> 0 .. MaxCalls]
  BY <1>1 DEF IInv, TypeOK, GetWork
<1>2. handouts' \in [Hdrs -> 0 .. MaxCalls]
  BY <1>1, <1>7, AgentAssumption
<1>3. pkgs' \subseteq [h : Hdrs, bound : Nat]
  <2>1. Boundary(currentWork) \in Nat
    BY <1>1, AgentAssumption DEF Boundary
  <2>. QED
    BY <1>1, <2>1 DEF IInv, TypeOK, GetWork
<1>4. TypeOK'
  <2>1. work' \subseteq Hdrs
    BY <1>1 DEF IInv, TypeOK, GetWork
  <2>. QED
    BY <1>0, <1>2, <1>3, <2>1 DEF IInv, TypeOK
<1>5. AcceptBackedByHandout'
  <2> SUFFICES ASSUME NEW h \in Hdrs
               PROVE  accepted'[h] + (IF h \in work' THEN 1 ELSE 0) <= handouts'[h]
    BY DEF AcceptBackedByHandout
  <2>1. CASE h = currentWork
    <3>1. accepted[h] + (IF h \in work THEN 1 ELSE 0) <= handouts[h]
      BY DEF IInv, AcceptBackedByHandout
    <3>2. handouts'[h] = handouts[h] + 1 /\ h \in work' /\ accepted'[h] = accepted[h]
      BY <1>0, <1>1, <1>7, <2>1
    <3>. QED
      BY <1>7, <2>1, <3>1, <3>2
  <2>2. CASE h # currentWork
    BY <1>0, <1>1, <2>2 DEF IInv, TypeOK, AcceptBackedByHandout, GetWork
  <2>. QED
    BY <2>1, <2>2
<1>6. SendingOK'
  BY <1>0 DEF IInv, SendingOK, GetWork
<1>. QED
  BY <1>4, <1>5, <1>6 DEF IInv

LEMMA SubmitWorkIInv ==
    ASSUME IInv, NEW p \in pkgs, NEW s \in Shares, SubmitWork(p, s)
    PROVE  IInv'
<1>1. p.h \in Hdrs /\ p.h \in work
  BY DEF IInv, TypeOK, SubmitWork
<1>2. sending' \in {sending, p.h}
  BY DEF SubmitWork
<1>3. TypeOK'
  BY <1>1, <1>2 DEF IInv, TypeOK, SubmitWork, chanVars, loopVars
<1>4. AcceptBackedByHandout'
  BY DEF IInv, AcceptBackedByHandout, SubmitWork
<1>5. SendingOK'
  BY <1>1, <1>2 DEF IInv, SendingOK, SubmitWork
<1>. QED
  BY <1>3, <1>4, <1>5 DEF IInv

(* The acceptance consumes the entry SendingOK guarantees, and so stays    *)
(* within the handouts, hence within MaxCalls.                             *)
LEMMA SubmitSendIInv ==
    ASSUME IInv, SubmitSend
    PROVE  IInv'
<1> DEFINE h0 == sending
<1>1. h0 \in Hdrs /\ h0 \in work
  BY DEF IInv, TypeOK, SendingOK, SubmitSend
<1>2. accepted[h0] + 1 <= handouts[h0] /\ handouts[h0] <= MaxCalls
      /\ accepted[h0] \in Nat
  BY <1>1 DEF IInv, TypeOK, AcceptBackedByHandout
<1>3. /\ accepted' = [accepted EXCEPT ![h0] = accepted[h0] + 1]
      /\ work' = work \ {h0}
      /\ handouts' = handouts
      /\ sending' = NoWork
  BY DEF SubmitSend
<1>4. accepted' \in [Hdrs -> 0 .. MaxCalls]
  BY <1>1, <1>2, <1>3, AgentAssumption DEF IInv, TypeOK
<1>5. TypeOK'
  BY <1>3, <1>4 DEF IInv, TypeOK, SubmitSend, chanVars, loopVars
<1>6. AcceptBackedByHandout'
  <2> SUFFICES ASSUME NEW h \in Hdrs
               PROVE  accepted'[h] + (IF h \in work' THEN 1 ELSE 0) <= handouts'[h]
    BY DEF AcceptBackedByHandout
  <2>1. CASE h = h0
    BY <1>1, <1>2, <1>3, <2>1 DEF IInv, TypeOK
  <2>2. CASE h # h0
    BY <1>3, <2>2 DEF IInv, TypeOK, AcceptBackedByHandout
  <2>. QED
    BY <2>1, <2>2
<1>7. SendingOK'
  BY <1>3 DEF SendingOK
<1>. QED
  BY <1>5, <1>6, <1>7 DEF IInv

-----------------------------------------------------------------------------
(* SubmitHashrate and the clock touch only hashrate, ticks and now.        *)
LEMMA SubmitHashrateIInv ==
    ASSUME IInv, NEW id \in Ids, SubmitHashrate(id)
    PROVE  IInv'
<1>1. UNCHANGED muVars
  BY DEF SubmitHashrate
<1>2. hashrate' \in [Ids -> {NoPing} \union 0 .. MaxTime]
  BY DEF IInv, TypeOK, SubmitHashrate
<1>3. TypeOK'
  BY <1>2 DEF IInv, TypeOK, SubmitHashrate, chanVars, loopVars, muVars
<1>. QED
  BY <1>1, <1>3, MuFrame DEF IInv

LEMMA AdvanceIInv ==
    ASSUME IInv, Advance
    PROVE  IInv'
<1>1. UNCHANGED muVars
  BY DEF Advance
<1>2. now' \in 0 .. MaxTime /\ tick' \in [Epochs -> BOOLEAN]
  BY AgentAssumption DEF IInv, TypeOK, Advance
<1>3. TypeOK'
  BY <1>2 DEF IInv, TypeOK, Advance, chanVars, muVars
<1>. QED
  BY <1>1, <1>3, MuFrame DEF IInv

-----------------------------------------------------------------------------
(* Before the first Start nothing has been handed out, accepted, sent or   *)
(* reported, and no loop exists.                                           *)
LEMMA InitIInv == Init => IInv
<1> SUFFICES ASSUME Init PROVE IInv
  OBVIOUS
<1>1. TypeOK
  BY AgentAssumption DEF Init, TypeOK, Epochs, NoPing
<1>2. AcceptBackedByHandout /\ SendingOK
  BY DEF Init, AcceptBackedByHandout, SendingOK
<1>. QED
  BY <1>1, <1>2 DEF IInv

(* Every operation of the agent, its loops, the miners and the clock keeps *)
(* the inductive invariant; so does a step that changes nothing.          *)
LEMMA NextIInv == IInv /\ [Next]_vars => IInv'
<1> SUFFICES ASSUME IInv, [Next]_vars PROVE IInv'
  OBVIOUS
<1>1. CASE Start
  BY <1>1, StartIInv
<1>2. CASE Stop
  BY <1>2, StopIInv
<1>3. CASE GetWork
  BY <1>3, GetWorkIInv
<1>4. CASE SubmitSend
  BY <1>4, SubmitSendIInv
<1>5. CASE Advance
  BY <1>5, AdvanceIInv
<1>6. ASSUME NEW h \in Hdrs, PushWork(h) PROVE IInv'
  BY <1>6, PushWorkIInv
<1>7. ASSUME NEW e \in Epochs,
             LoopQuit(e) \/ LoopWork(e) \/ LoopStore(e) \/ LoopTick(e)
      PROVE  IInv'
  BY <1>7, LoopQuitIInv, LoopWorkIInv, LoopStoreIInv, LoopTickIInv
<1>8. ASSUME NEW p \in pkgs, NEW s \in Shares, SubmitWork(p, s) PROVE IInv'
  BY <1>8, SubmitWorkIInv
<1>9. ASSUME NEW id \in Ids, SubmitHashrate(id) PROVE IInv'
  BY <1>9, SubmitHashrateIInv
<1>10. CASE UNCHANGED vars
  BY <1>10 DEF vars, IInv, TypeOK, AcceptBackedByHandout, SendingOK
<1>. QED
  BY <1>1, <1>2, <1>3, <1>4, <1>5, <1>6, <1>7, <1>8, <1>9, <1>10 DEF Next

(* Every reachable state of the agent is well typed, for every number of   *)
(* headers, reporters, Start calls, handouts and seconds; in particular no *)
(* header is received from returnCh more often than MaxCalls.             *)
THEOREM TypeCorrect == Spec => []TypeOK
<1>1. IInv => TypeOK
  BY DEF IInv
<1>. QED
  BY <1>1, InitIInv, NextIInv, PTL DEF Spec

(* AcceptBackedByHandout: SubmitWork's returnCh send is matched by the     *)
(* deletion of an a.work entry that a GetWork handout made, so accepted    *)
(* solutions plus pending work never outnumber the handouts of a header,   *)
(* however long the send holds a.mu.                                       *)
THEOREM AcceptBackedByHandoutHolds == Spec => []AcceptBackedByHandout
<1>1. IInv => AcceptBackedByHandout
  BY DEF IInv
<1>. QED
  BY <1>1, InitIInv, NextIInv, PTL DEF Spec
====
