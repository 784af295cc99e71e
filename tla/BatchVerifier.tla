---------------------------- MODULE BatchVerifier ----------------------------
(***************************************************************************)
(* Amhash.VerifyHeaders (src/consensus/amhash/consensus.go) on N headers: *)
(* min(GOMAXPROCS, N) workers range over the unbuffered `inputs` channel, *)
(* store errors[index] and report index on `done` (capacity = workers);   *)
(* one coordinator goroutine hands out indices in order and, on every      *)
(* completion, emits errors[out] on errorsOut for each consecutive checked *)
(* index, returning after the last one or when the caller closes abort;   *)
(* its deferred close(inputs) then ends the workers' range loops.          *)
(*                                                                         *)
(* What verifyHeaderWorker computes for header i is abstracted to a        *)
(* verdict fixed at the start (verdict[i], the header data being fixed).   *)
(***************************************************************************)
EXTENDS Naturals, Sequences

CONSTANTS
    N,            \* len(headers)
    MaxProcs,     \* runtime.GOMAXPROCS(0)
    Verdicts,     \* the errors verifyHeaderWorker can return (nil included)
    Unset         \* an errors[] slot not yet written

ASSUME BatchAssumption ==
    /\ N \in Nat \ {0}
    /\ MaxProcs \in Nat \ {0}
    /\ Unset \notin Verdicts

Idx == 0 .. N - 1

(* workers := GOMAXPROCS(0), lowered to len(headers).                      *)
NumWorkers == IF N < MaxProcs THEN N ELSE MaxProcs

Workers == 1 .. NumWorkers

VARIABLES
    verdict,      \* verdict[i]: verifyHeaderWorker's result for header i
    errs,         \* the errors slice
    wpc,          \* wpc[w]: worker w is in range inputs, verifying, sending
                  \* on done, or has returned
    widx,         \* widx[w]: the index worker w is working on
    done,         \* contents of the done channel
    in,           \* next index to send on inputs
    out,          \* next index to emit
    checked,      \* checked[i]: index i came back on done
    errorsOut,    \* contents of errorsOut (capacity N: sends never block)
    cpc,          \* coordinator: in its select, in the emit loop, returned
    abort         \* the caller closed abort

vars == <<verdict, errs, wpc, widx, done, in, out, checked, errorsOut, cpc,
          abort>>

(* Mutant: VerifyHeaders' coordinator without defer close(inputs).      *)
InputsNeverClosed == FALSE

(* inputs is closed once the coordinator has returned (defer close).       *)
InputsClosed == cpc = "ret"

-----------------------------------------------------------------------------
Init ==
    /\ verdict \in [Idx -> Verdicts]
    /\ errs = [i \in Idx |-> Unset]
    /\ wpc = [w \in Workers |-> "recv"]
    /\ widx = [w \in Workers |-> 0]
    /\ done = <<>>
    /\ in = 0
    /\ out = 0
    /\ checked = [i \in Idx |-> FALSE]
    /\ errorsOut = <<>>
    /\ cpc = "select"
    /\ abort = FALSE

(* Mutant: inputs set to nil one index early.                             *)
DispatchOffByOne(w) ==
    /\ cpc = "select"
    /\ in < N - 1
    /\ wpc[w] = "recv"
    /\ wpc' = [wpc EXCEPT ![w] = "verify"]
    /\ widx' = [widx EXCEPT ![w] = in]
    /\ in' = in + 1
    /\ UNCHANGED <<verdict, errs, done, out, checked, errorsOut, cpc, abort>>

(* Coordinator, case inputs <- in, received by worker w's range loop;     *)
(* after the last index the coordinator sets inputs = nil (in = N).        *)
Dispatch(w) ==
    /\ cpc = "select"
    /\ in < N
    /\ wpc[w] = "recv"
    /\ wpc' = [wpc EXCEPT ![w] = "verify"]
    /\ widx' = [widx EXCEPT ![w] = in]
    /\ in' = in + 1
    /\ UNCHANGED <<verdict, errs, done, out, checked, errorsOut, cpc, abort>>

(* Worker: errors[index] = amhash.verifyHeaderWorker(...).                 *)
Verify(w) ==
    /\ wpc[w] = "verify"
    /\ errs' = [errs EXCEPT ![widx[w]] = verdict[widx[w]]]
    /\ wpc' = [wpc EXCEPT ![w] = "send"]
    /\ UNCHANGED <<verdict, widx, done, in, out, checked, errorsOut, cpc,
                   abort>>

(* Mutant: done made with more room than make(chan int, workers).       *)
ReportUnbounded(w) ==
    /\ wpc[w] = "send"
    /\ done' = Append(done, widx[w])
    /\ wpc' = [wpc EXCEPT ![w] = "recv"]
    /\ UNCHANGED <<verdict, errs, widx, in, out, checked, errorsOut, cpc,
                   abort>>

(* Worker: done <- index, blocking while done holds `workers` indices.     *)
Report(w) ==
    /\ wpc[w] = "send"
    /\ Len(done) < NumWorkers
    /\ done' = Append(done, widx[w])
    /\ wpc' = [wpc EXCEPT ![w] = "recv"]
    /\ UNCHANGED <<verdict, errs, widx, in, out, checked, errorsOut, cpc,
                   abort>>

(* Worker: range inputs ends when inputs is closed.                        *)
WorkerExit(w) ==
    /\ wpc[w] = "recv"
    /\ InputsClosed
    /\ wpc' = [wpc EXCEPT ![w] = "exit"]
    /\ UNCHANGED <<verdict, errs, widx, done, in, out, checked, errorsOut,
                   cpc, abort>>

(* Mutant: the emit loop runs while out < in instead of checked[out].    *)
EmitUnchecked ==
    /\ cpc = "emit"
    /\ \/ /\ out < in
          /\ errorsOut' = Append(errorsOut, errs[out])
          /\ IF out = N - 1
                THEN cpc' = "ret" /\ UNCHANGED out
                ELSE out' = out + 1 /\ UNCHANGED cpc
       \/ /\ out >= in
          /\ cpc' = "select"
          /\ UNCHANGED <<out, errorsOut>>
    /\ UNCHANGED <<verdict, errs, wpc, widx, done, in, checked, abort>>

(* Mutant: the coordinator returns after header len(headers)-2.          *)
EmitReturnEarly ==
    /\ cpc = "emit"
    /\ \/ /\ checked[out]
          /\ errorsOut' = Append(errorsOut, errs[out])
          /\ IF out = N - 2
                THEN cpc' = "ret" /\ UNCHANGED out
                ELSE out' = out + 1 /\ UNCHANGED cpc
       \/ /\ ~checked[out]
          /\ cpc' = "select"
          /\ UNCHANGED <<out, errorsOut>>
    /\ UNCHANGED <<verdict, errs, wpc, widx, done, in, checked, abort>>

(* Coordinator, case index := <-done: checked[index] = true, then the      *)
(* emit loop.                                                              *)
Collect ==
    /\ cpc = "select"
    /\ done # <<>>
    /\ checked' = [checked EXCEPT ![Head(done)] = TRUE]
    /\ done' = Tail(done)
    /\ cpc' = "emit"
    /\ UNCHANGED <<verdict, errs, wpc, widx, in, out, errorsOut, abort>>

(* One turn of for ...; checked[out]; out++ { errorsOut <- errors[out];    *)
(* if out == len(headers)-1 { return } }; the loop ends at the first       *)
(* unchecked index and the coordinator selects again.                      *)
Emit ==
    /\ cpc = "emit"
    /\ \/ /\ checked[out]
          /\ errorsOut' = Append(errorsOut, errs[out])
          /\ IF out = N - 1
                THEN cpc' = "ret" /\ UNCHANGED out
                ELSE out' = out + 1 /\ UNCHANGED cpc
       \/ /\ ~checked[out]
          /\ cpc' = "select"
          /\ UNCHANGED <<out, errorsOut>>
    /\ UNCHANGED <<verdict, errs, wpc, widx, done, in, checked, abort>>

(* The caller closes the abort channel VerifyHeaders returned.             *)
Abort ==
    /\ ~abort
    /\ abort' = TRUE
    /\ UNCHANGED <<verdict, errs, wpc, widx, done, in, out, checked,
                   errorsOut, cpc>>

(* Coordinator, case <-abort: return.                                      *)
CoordAbort ==
    /\ cpc = "select"
    /\ abort
    /\ cpc' = "ret"
    /\ UNCHANGED <<verdict, errs, wpc, widx, done, in, out, checked,
                   errorsOut, abort>>

CoordStep == Collect \/ Emit \/ CoordAbort \/ \E w \in Workers : Dispatch(w)

WorkerStep(w) == Verify(w) \/ Report(w) \/ WorkerExit(w)

Next == Abort \/ CoordStep \/ \E w \in Workers : WorkerStep(w)

(* Every goroutine is scheduled by the Go runtime; the caller's abort is   *)
(* its own choice.                                                         *)
Fairness ==
    /\ WF_vars(CoordStep)
    /\ \A w \in Workers : WF_vars(WorkerStep(w))

Spec == Init /\ [][Next]_vars /\ Fairness

-----------------------------------------------------------------------------
TypeOK ==
    /\ verdict \in [Idx -> Verdicts]
    /\ errs \in [Idx -> Verdicts \union {Unset}]
    /\ wpc \in [Workers -> {"recv", "verify", "send", "exit"}]
    /\ widx \in [Workers -> Idx]
    /\ done \in Seq(Idx) /\ Len(done) <= NumWorkers
    /\ in \in 0 .. N
    /\ out \in 0 .. N
    /\ checked \in [Idx -> BOOLEAN]
    /\ errorsOut \in Seq(Verdicts \union {Unset}) /\ Len(errorsOut) <= N
    /\ cpc \in {"select", "emit", "ret"}
    /\ abort \in BOOLEAN

(* The batch's results channel carries exactly the verdicts of headers     *)
(* 0, 1, ... in header order, each once, whatever order the workers finish *)
(* in (errors[], done, checked and out in VerifyHeaders).                  *)
OrderedResults ==
    errorsOut = [k \in 1 .. Len(errorsOut) |-> verdict[k - 1]]

(* VerifyHeaders implements the ordered-results promise: the results      *)
(* channel is the abstract result stream.                                  *)
Abs == INSTANCE BatchResults WITH results <- errorsOut, aborted <- abort

ImplementsBatchResults == Abs!Spec

(* Spec 4.5: aborting tears down the coordinator and the workers drain     *)
(* naturally: once abort is closed every worker eventually returns.        *)
WorkersDrainOnAbort ==
    abort ~> \A w \in Workers : wpc[w] = "exit"

(* Without abort, every goroutine of the batch returns.                   *)
AllReturn == <>(abort \/ (cpc = "ret" /\ \A w \in Workers : wpc[w] = "exit"))
====
