------------------------- MODULE BatchVerifier_proofs -------------------------
(***************************************************************************)
(* Proofs about VerifyHeaders (BatchVerifier), for every number of        *)
(* headers and of workers: results come out in header order, and every     *)
(* step of VerifyHeaders is a step (or a stutter) of the ordered-results   *)
(* spec BatchResults.                                                      *)
(***************************************************************************)
EXTENDS BatchVerifier, TLAPS, SequenceTheorems

(* The verdicts of headers 0 .. n-1, in order.                             *)
Prefix(n) == [k \in 1 .. n |-> verdict[k - 1]]

(* The inductive invariant. errs only ever holds a header's own verdict;   *)
(* an index on done, or held by a worker about to send it, has its slot    *)
(* written; a checked index has its slot written; the coordinator's `out`  *)
(* is a header index and errorsOut holds exactly the verdicts before it    *)
(* (or all N once the last one is out and the coordinator has returned).   *)
IInv ==
    /\ TypeOK
    /\ \A i \in Idx : errs[i] \in {Unset, verdict[i]}
    /\ \A i \in Idx : checked[i] => errs[i] = verdict[i]
    /\ \A k \in 1 .. Len(done) : errs[done[k]] = verdict[done[k]]
    /\ \A w \in Workers : wpc[w] = "send" => errs[widx[w]] = verdict[widx[w]]
    /\ out \in Idx
    /\ \/ errorsOut = Prefix(out)
       \/ errorsOut = Prefix(N) /\ out = N - 1 /\ cpc = "ret"

-----------------------------------------------------------------------------
(* The first n verdicts form a sequence of verdicts of length n.           *)
LEMMA PrefixType ==
    ASSUME NEW n \in 0 .. N, verdict \in [Idx -> Verdicts]
    PROVE  Prefix(n) \in Seq(Verdicts) /\ Len(Prefix(n)) = n
  BY BatchAssumption DEF Prefix, Idx

(* Appending header n's verdict to the first n verdicts gives the first    *)
(* n + 1: the step the emit loop takes.                                    *)
LEMMA PrefixAppend ==
    ASSUME NEW n \in Nat, n < N, verdict \in [Idx -> Verdicts]
    PROVE  Append(Prefix(n), verdict[n]) = Prefix(n + 1)
<1>1. /\ Prefix(n) \in Seq(Verdicts) /\ Len(Prefix(n)) = n
      /\ Prefix(n + 1) \in Seq(Verdicts) /\ Len(Prefix(n + 1)) = n + 1
  BY BatchAssumption DEF Prefix, Idx
<1>2. verdict[n] \in Verdicts
  BY BatchAssumption DEF Idx
<1>3. /\ Append(Prefix(n), verdict[n]) \in Seq(Verdicts)
      /\ Len(Append(Prefix(n), verdict[n])) = n + 1
      /\ \A i \in 1 .. n : Append(Prefix(n), verdict[n])[i] = Prefix(n)[i]
      /\ Append(Prefix(n), verdict[n])[n + 1] = verdict[n]
  BY <1>1, <1>2, AppendProperties
<1>4. \A i \in 1 .. n + 1 : Append(Prefix(n), verdict[n])[i] = Prefix(n + 1)[i]
  BY <1>3, BatchAssumption DEF Prefix
<1>5. QED
  BY <1>1, <1>3, <1>4, SeqEqual

(* VerifyHeaders starts in a state of the invariant.                       *)
LEMMA IInvInit == Init => IInv
<1> SUFFICES ASSUME Init PROVE IInv
  OBVIOUS
<1>1. errorsOut \in Seq(Verdicts \union {Unset}) /\ Len(errorsOut) <= N
      /\ done \in Seq(Idx) /\ Len(done) <= NumWorkers
  BY BatchAssumption, EmptySeq DEF Init, NumWorkers
<1>2. /\ wpc \in [Workers -> {"recv", "verify", "send", "exit"}]
      /\ widx \in [Workers -> Idx]
  BY BatchAssumption DEF Init, Idx
<1>7. errs \in [Idx -> Verdicts \union {Unset}]
  BY DEF Init
<1>8. checked \in [Idx -> BOOLEAN]
  BY DEF Init
<1>9. in \in 0 .. N /\ out \in 0 .. N
  BY BatchAssumption DEF Init
<1>10. cpc \in {"select", "emit", "ret"} /\ abort \in BOOLEAN
  BY DEF Init
<1>6. /\ errs \in [Idx -> Verdicts \union {Unset}]
      /\ checked \in [Idx -> BOOLEAN]
      /\ in \in 0 .. N /\ out \in 0 .. N
      /\ cpc \in {"select", "emit", "ret"} /\ abort \in BOOLEAN
  BY <1>7, <1>8, <1>9, <1>10
<1>5. TypeOK
  BY <1>1, <1>2, <1>6 DEF Init, TypeOK
<1>3. out \in Idx /\ errorsOut = Prefix(out)
  BY BatchAssumption DEF Init, Idx, Prefix
<1>4. QED
  BY <1>5, <1>3 DEF Init, IInv

-----------------------------------------------------------------------------
(* Every step of VerifyHeaders' goroutines, and the caller's abort,        *)
(* preserves the invariant.                                                *)
LEMMA IInvStep == IInv /\ [Next]_vars => IInv'
<1> SUFFICES ASSUME IInv, [Next]_vars PROVE IInv'
  OBVIOUS
<1>0. TypeOK
  BY DEF IInv
<1>1. CASE Abort
  BY <1>1 DEF IInv, TypeOK, Abort, Prefix
<1>2. CASE CoordAbort
  BY <1>2 DEF IInv, TypeOK, CoordAbort, Prefix
<1>3. CASE Collect
  <2> DEFINE h == Head(done)
  <2>1. done # <<>> /\ done \in Seq(Idx)
    BY <1>3, <1>0 DEF Collect, TypeOK
  <2>2. /\ h \in Idx /\ errs[h] = verdict[h]
        /\ Tail(done) \in Seq(Idx) /\ Len(Tail(done)) = Len(done) - 1
        /\ \A k \in 1 .. Len(Tail(done)) : Tail(done)[k] = done[k + 1]
    <3>1. /\ Tail(done) \in Seq(Idx) /\ h = done[1]
          /\ Len(Tail(done)) = Len(done) - 1
          /\ \A k \in 1 .. Len(Tail(done)) : Tail(done)[k] = done[k + 1]
      BY <2>1, HeadTailProperties
    <3>2. QED
      BY <2>1, <3>1, EmptySeq DEF IInv
  <2>3. TypeOK'
    <3>1. checked' \in [Idx -> BOOLEAN]
      BY <1>3, <1>0, <2>2 DEF Collect, TypeOK
    <3>2. done' \in Seq(Idx) /\ Len(done') <= NumWorkers
      BY <1>3, <1>0, <2>1, <2>2, BatchAssumption DEF Collect, TypeOK, NumWorkers
    <3>3. QED
      BY <1>3, <1>0, <3>1, <3>2 DEF Collect, TypeOK
  <2>4. \A i \in Idx : checked'[i] => errs'[i] = verdict'[i]
    BY <1>3, <1>0, <2>2 DEF IInv, Collect, TypeOK
  <2>5. \A k \in 1 .. Len(done') : errs'[done'[k]] = verdict'[done'[k]]
    BY <1>3, <2>2 DEF IInv, Collect
  <2>6. QED
    BY <1>3, <2>3, <2>4, <2>5 DEF IInv, Collect, Prefix
<1>4. CASE Emit
  <2>1. cpc = "emit" /\ errorsOut = Prefix(out) /\ out \in Idx
    BY <1>4 DEF IInv, Emit
  <2>2. CASE checked[out]
    <3>1. errs[out] = verdict[out]
      BY <2>1, <2>2 DEF IInv
    <3>8. errorsOut' = Append(Prefix(out), verdict[out])
      BY <1>4, <2>1, <2>2, <3>1 DEF Emit
    <3>9. out \in Nat /\ out < N /\ verdict \in [Idx -> Verdicts]
      BY <2>1, <1>0, BatchAssumption DEF Idx, TypeOK
    <3>2. errorsOut' = Prefix(out + 1)
      BY <3>8, <3>9, PrefixAppend
    <3>3. Prefix(out + 1) \in Seq(Verdicts) /\ Len(Prefix(out + 1)) = out + 1
      <4>1. out + 1 \in 0 .. N
        BY <3>9, BatchAssumption
      <4>. QED
        BY <3>9, <4>1, PrefixType
    <3>4. errorsOut' \in Seq(Verdicts \union {Unset})
      BY <3>2, <3>3
    <3>5. CASE out = N - 1
      BY <1>4, <2>1, <2>2, <3>2, <3>3, <3>4, <3>5, <1>0, BatchAssumption
      DEF IInv, TypeOK, Emit, Prefix, Idx
    <3>6. CASE out # N - 1
      BY <1>4, <2>1, <2>2, <3>2, <3>3, <3>4, <3>6, <1>0, BatchAssumption
      DEF IInv, TypeOK, Emit, Prefix, Idx
    <3>7. QED
      BY <3>5, <3>6
  <2>3. CASE ~checked[out]
    BY <1>4, <2>3 DEF IInv, TypeOK, Emit, Prefix
  <2>4. QED
    BY <2>2, <2>3
<1>5. ASSUME NEW w \in Workers, Dispatch(w) PROVE IInv'
  BY <1>5, BatchAssumption DEF IInv, TypeOK, Dispatch, Prefix, Idx
<1>6. ASSUME NEW w \in Workers, Verify(w) PROVE IInv'
  <2>1. widx[w] \in Idx /\ verdict[widx[w]] \in Verdicts
    BY <1>0 DEF TypeOK
  <2>2. TypeOK'
    BY <1>6, <1>0, <2>1 DEF Verify, TypeOK
  <2>3. \A i \in Idx : errs'[i] \in {Unset, verdict'[i]}
                      /\ (checked'[i] => errs'[i] = verdict'[i])
    BY <1>6, <1>0, <2>1 DEF IInv, Verify, TypeOK
  <2>4. \A k \in 1 .. Len(done') : errs'[done'[k]] = verdict'[done'[k]]
    BY <1>6, <1>0, <2>1 DEF IInv, Verify, TypeOK
  <2>5. \A v \in Workers : wpc'[v] = "send" => errs'[widx'[v]] = verdict'[widx'[v]]
    BY <1>6, <1>0, <2>1 DEF IInv, Verify, TypeOK
  <2>6. QED
    BY <1>6, <2>2, <2>3, <2>4, <2>5 DEF IInv, Verify, Prefix
<1>7. ASSUME NEW w \in Workers, Report(w) PROVE IInv'
  <2>1. /\ done' \in Seq(Idx) /\ Len(done') = Len(done) + 1
        /\ \A k \in 1 .. Len(done) : done'[k] = done[k]
        /\ done'[Len(done) + 1] = widx[w]
    BY <1>7, <1>0, AppendProperties DEF Report, TypeOK
  <2>5. Len(done') <= NumWorkers
    BY <1>7, <1>0, <2>1, BatchAssumption DEF Report, TypeOK, NumWorkers
  <2>6. wpc' \in [Workers -> {"recv", "verify", "send", "exit"}]
    BY <1>7, <1>0 DEF Report, TypeOK
  <2>2. TypeOK'
    BY <1>7, <1>0, <2>1, <2>5, <2>6 DEF Report, TypeOK
  <2>3. \A k \in 1 .. Len(done') : errs'[done'[k]] = verdict'[done'[k]]
    BY <1>7, <2>1 DEF IInv, Report
  <2>4. QED
    BY <1>7, <2>2, <2>3 DEF IInv, Report, TypeOK, Prefix
<1>8. ASSUME NEW w \in Workers, WorkerExit(w) PROVE IInv'
  BY <1>8 DEF IInv, TypeOK, WorkerExit, Prefix
<1>9. CASE UNCHANGED vars
  BY <1>9 DEF IInv, TypeOK, vars, Prefix
<1>10. QED
  BY <1>1, <1>2, <1>3, <1>4, <1>5, <1>6, <1>7, <1>8, <1>9
  DEF Next, CoordStep, WorkerStep

-----------------------------------------------------------------------------
(* VerifyHeaders' state stays well typed: done never holds more than       *)
(* `workers` indices and errorsOut never more than len(headers) results.   *)
THEOREM TypeCorrect == Spec => []TypeOK
<1>1. IInv => TypeOK
  BY DEF IInv
<1>2. QED
  BY <1>1, IInvInit, IInvStep, PTL DEF Spec

(* Whatever order the workers finish in, the results channel of           *)
(* VerifyHeaders carries the verdicts of headers 0, 1, ... in order.       *)
THEOREM OrderedResultsHold == Spec => []OrderedResults
<1>1. IInv => OrderedResults
  <2> SUFFICES ASSUME IInv PROVE OrderedResults
    OBVIOUS
  <2>1. PICK n \in 0 .. N : errorsOut = Prefix(n)
    BY BatchAssumption DEF IInv, Idx
  <2>2. Len(errorsOut) = n
    BY <2>1, PrefixType DEF IInv, TypeOK
  <2>3. QED
    BY <2>1, <2>2 DEF OrderedResults, Prefix
<1>2. QED
  BY <1>1, IInvInit, IInvStep, PTL DEF Spec

(* Every step of VerifyHeaders and of its caller is a step of the          *)
(* ordered-results spec BatchResults on (verdict, errorsOut, abort): a     *)
(* send on errorsOut delivers the next verdict, closing abort aborts, and  *)
(* every other step leaves the result stream alone.                        *)
LEMMA RefineStep == IInv /\ [Next]_vars => [Abs!Next]_<<verdict, errorsOut, abort>>
<1> SUFFICES ASSUME IInv, [Next]_vars
             PROVE  [Abs!Next]_<<verdict, errorsOut, abort>>
  OBVIOUS
<1>1. CASE Abort
  BY <1>1 DEF Abort, Abs!Next, Abs!Abort
<1>2. CASE Emit /\ checked[out]
  <2>1. cpc = "emit" /\ errorsOut = Prefix(out) /\ out \in Idx
    BY <1>2 DEF IInv, Emit
  <2>2. Len(errorsOut) = out /\ out < N
    BY <2>1, PrefixType, BatchAssumption DEF IInv, TypeOK, Idx
  <2>3. errs[out] = verdict[out]
    BY <1>2, <2>1 DEF IInv
  <2>4. errorsOut' = Append(errorsOut, verdict[Len(errorsOut)])
    BY <1>2, <2>2, <2>3 DEF Emit
  <2>5. QED
    BY <1>2, <2>2, <2>4 DEF Emit, Abs!Next, Abs!Deliver
<1>3. CASE Emit /\ ~checked[out]
  BY <1>3 DEF Emit
<1>4. CASE Collect \/ CoordAbort
  BY <1>4 DEF Collect, CoordAbort
<1>5. CASE \E w \in Workers : Dispatch(w) \/ WorkerStep(w)
  BY <1>5 DEF Dispatch, WorkerStep, Verify, Report, WorkerExit
<1>6. CASE UNCHANGED vars
  BY <1>6 DEF vars
<1>7. QED
  BY <1>1, <1>2, <1>3, <1>4, <1>5, <1>6 DEF Next, CoordStep

(* VerifyHeaders implements the safety part of BatchResults: it starts     *)
(* with no results delivered and only ever delivers the next verdict in    *)
(* header order, or aborts.                                                *)
THEOREM RefinesBatchResults ==
    Spec => Abs!Init /\ [][Abs!Next]_<<verdict, errorsOut, abort>>
<1>1. Init => Abs!Init
  BY DEF Init, Abs!Init, Abs!Idx, Idx
<1>2. QED
  BY <1>1, IInvInit, IInvStep, RefineStep, PTL DEF Spec
====
