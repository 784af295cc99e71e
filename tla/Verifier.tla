------------------------------ MODULE Verifier ------------------------------
(***************************************************************************)
(* Block import through the verifier (src/consensus/amhash/consensus.go):  *)
(* a block tree grows by blocks that a PoW worker sealed (mine) and that   *)
(* pass VerifyUncles and the seal check of VerifySeal.                     *)
(*                                                                         *)
(* Block ids are 0 (genesis) .. MaxBlocks, in creation order. The chain    *)
(* reader's repeated GetBlock(parent) lookups are represented by anc[b],   *)
(* the ancestors of b nearest first (<<>> for genesis, whose parent lookup *)
(* finds nothing). The structural checks of verifyHeader (extra, time,     *)
(* gas, number, difficulty) are not repeated here: every block and uncle   *)
(* is a header that passed them when it was built (Difficulty models the   *)
(* difficulty check).                                                      *)
(***************************************************************************)
EXTENDS Payload, Integers

CONSTANTS
    MaxBlocks,  \* blocks imported after genesis
    Horizon,    \* VerifyUncles' ancestor walk: `for i := 0; i < 7; i++`
    MaxUncles,  \* maxUncles (2)
    Seeds       \* nonces a worker reaches (seed + attempts)

ASSUME VerifierAssumption ==
    /\ MaxBlocks \in Nat
    /\ Horizon \in Nat \ {0}
    /\ MaxUncles \in Nat
    /\ Seeds \subseteq Nat

(* EncodeNonce is written for nonces below 2^24 (TLC's integers are 32-bit). *)
ASSUME SeedWidth == \A s \in Seeds : s < 16777216

Blocks == 0 .. MaxBlocks

NoParent == -1

VARIABLES
    n,       \* blocks imported so far (ids 1 .. n)
    anc,     \* anc[b]: the ancestors of b, parent first
    unc,     \* unc[b]: the uncle list of b, in its order
    nonce,   \* nonce[b]: the nonce b's sealed header carries
    sealed   \* sealed[b]: the payload nonce field the worker hashed for b

vars == <<n, anc, unc, nonce, sealed>>

ParentOf(b) == IF anc[b] = <<>> THEN NoParent ELSE anc[b][1]

Range(s) == {s[i] : i \in DOMAIN s}

MinOf(a, b) == IF a <= b THEN a ELSE b

(* The ancestors VerifyUncles walks for a new block on parent p: p and up  *)
(* to Horizon - 1 further ancestors, stopping at genesis.                  *)
Walk(p) ==
    LET line == <<p>> \o anc[p]
    IN  SubSeq(line, 1, MinOf(Horizon, Len(line)))

(* Mutant: VerifyUncles without the duplicate check (uncles.Has).          *)
VerifyUnclesNoDupCheck(b, p, L) ==
    LET walk      == Walk(p)
        ancestors == Range(walk) \union {b}
    IN  /\ Len(L) <= MaxUncles
        /\ \A i \in 1 .. Len(L) :
              /\ L[i] \notin ancestors
              /\ ParentOf(L[i]) \in ancestors
              /\ ParentOf(L[i]) # p

(* VerifyUncles for block b on parent p with uncle list L returns nil:     *)
(* at most maxUncles uncles; none among the uncles of the walked ancestors *)
(* or earlier in L (the set `uncles`, which starts with b); none an        *)
(* ancestor; each one's parent an ancestor but not b's own parent.         *)
VerifyUncles(b, p, L) ==
    LET walk      == Walk(p)
        ancestors == Range(walk) \union {b}
        seen      == UNION {Range(unc[a]) : a \in Range(walk)} \union {b}
    IN  /\ Len(L) <= MaxUncles
        /\ \A i \in 1 .. Len(L) :
              /\ L[i] \notin seen
              /\ \A j \in 1 .. i - 1 : L[j] # L[i]
              /\ L[i] \notin ancestors
              /\ ParentOf(L[i]) \in ancestors
              /\ ParentOf(L[i]) # p

(* The nonces a worker's curHeader can hold when its hash meets the        *)
(* target: the prepared header's zero nonce on the first attempt, and      *)
(* after `nonce++` the reversed EncodeNonce(nonce).                        *)
FoundNonces == {EncodeNonce(0)} \union {ReverseNonce(EncodeNonce(s)) : s \in Seeds}

(* The payload nonce field VerifySeal hashes for a header with nonce h: it *)
(* reverses header.Nonce in place, copies it and calls combinationData.    *)
VerifySealField(h) == NonceField(ReverseNonce(h))

-----------------------------------------------------------------------------
Init ==
    /\ n = 0
    /\ anc = [b \in Blocks |-> <<>>]
    /\ unc = [b \in Blocks |-> <<>>]
    /\ nonce = [b \in Blocks |-> EncodeNonce(0)]
    /\ sealed = [b \in Blocks |-> NonceField(EncodeNonce(0))]

(* A worker seals a block on parent p with uncles L: its curHeader holds    *)
(* nonce f and combinationData(curHeader) met the target; the header sent  *)
(* on `found` is curHeader. The block is imported when VerifyUncles        *)
(* accepts its uncles.                                                     *)
MineAndImport(p, L, f) ==
    LET b == n + 1
    IN  /\ n < MaxBlocks
        /\ VerifyUncles(b, p, L)
        /\ n' = b
        /\ anc' = [anc EXCEPT ![b] = <<p>> \o anc[p]]
        /\ unc' = [unc EXCEPT ![b] = L]
        /\ nonce' = [nonce EXCEPT ![b] = f]
        /\ sealed' = [sealed EXCEPT ![b] = NonceField(f)]

(* Uncle lists offered with a block: up to one more than maxUncles known   *)
(* blocks, repetitions allowed.                                            *)
UncleLists == UNION {[1 .. k -> 0 .. n] : k \in 0 .. MaxUncles + 1}

Next == \E p \in 0 .. n, L \in UncleLists, f \in FoundNonces : MineAndImport(p, L, f)

Spec == Init /\ [][Next]_vars

-----------------------------------------------------------------------------
(* The blocks on the chain ending at b, b included.                        *)
ChainOf(b) == Range(anc[b]) \union {b}

(* Spec 4.5 (VerifyUncles) and the reason for its 7-ancestor set: on every *)
(* chain of imported blocks, each uncle is included once (no two blocks    *)
(* of the chain, nor one list twice, name the same uncle) and no uncle is  *)
(* itself a block of that chain. VerifyUncles only looks Horizon blocks    *)
(* back, so this needs its dangling-uncle test as much as its duplicate    *)
(* test.                                                                   *)
UnclesRewardedOnce ==
    \A b \in 1 .. n :
        /\ \A a1, a2 \in ChainOf(b) :
              a1 # a2 => Range(unc[a1]) \cap Range(unc[a2]) = {}
        /\ \A a \in ChainOf(b) :
              /\ \A i, j \in 1 .. Len(unc[a]) : i # j => unc[a][i] # unc[a][j]
              /\ Range(unc[a]) \cap ChainOf(b) = {}

(* Spec 4.4 and 4.5 (seal/verify round trip): for every imported block,   *)
(* the payload VerifySeal rebuilds from the header the worker sent is the  *)
(* payload the worker hashed, so a nonce that met the target in mine meets *)
(* it in VerifySeal.                                                       *)
SealVerifyAgree ==
    \A b \in 1 .. n : VerifySealField(nonce[b]) = sealed[b]
====
