-------------------------- MODULE Difficulty_proofs --------------------------
(***************************************************************************)
(* Proof that every difficulty Prepare stamps is at least the governance   *)
(* minimum (DifficultyFloor), for every fork configuration, every set of   *)
(* parents and every number of calls.                                      *)
(*                                                                         *)
(* Each calculator clamps its adjusted difficulty to in.min and then adds  *)
(* the ice-age bomb, so the floor rests on two facts: the bomb is never    *)
(* negative, and the shared big1, which the Byzantium rule may overwrite   *)
(* with the bomb, stays a positive integer, so the next call's arithmetic  *)
(* is on integers again. The bomb is a power of two; that 2^k is a        *)
(* positive natural comes from FiniteSetTheorems: it is the number of      *)
(* subsets of 1..k.                                                        *)
(***************************************************************************)
EXTENDS Difficulty, FiniteSetTheorems, TLAPS

(* The invariant the floor needs: big1 is a positive integer and every     *)
(* prepared header is an input with an integer difficulty.                 *)
TypeOK ==
    /\ big1 \in Nat \ {0}
    /\ calls \in Nat
    /\ prepared \subseteq [in : Inputs, diff : Int]
    /\ rejected \subseteq prepared

IInv == TypeOK /\ DifficultyFloor

-----------------------------------------------------------------------------
(* big.Int.Exp(2, k): a power of two is a positive natural number.         *)
LEMMA PowTwo ==
    ASSUME NEW k \in Nat
    PROVE  2 ^ k \in Nat \ {0}
<1>1. IsFiniteSet(1 .. k) /\ Cardinality(1 .. k) = k
  BY FS_Interval
<1>2. IsFiniteSet(SUBSET (1 .. k)) /\ Cardinality(SUBSET (1 .. k)) = 2 ^ k
  BY <1>1, FS_SUBSET
<1>3. Cardinality(SUBSET (1 .. k)) \in Nat
  BY <1>2, FS_CardinalityType
<1>4. Cardinality(SUBSET (1 .. k)) # 0
  BY <1>2, FS_EmptySet
<1>. QED
  BY <1>2, <1>3, <1>4

(* The ice-age term is never negative, and is at least 1 when it fires.    *)
LEMMA BombNat ==
    ASSUME NEW pc \in Int, NEW b1 \in Int
    PROVE  /\ Bomb(pc, b1) \in Nat
           /\ pc > b1 => Bomb(pc, b1) \in Nat \ {0}
<1>1. MaxOf(pc - 2, 0) \in Nat
  BY DEF MaxOf
<1>2. 2 ^ MaxOf(pc - 2, 0) \in Nat \ {0}
  BY <1>1, PowTwo
<1>. QED
  BY <1>2 DEF Bomb

(* The fields of an input are integers; the limits are positive.           *)
LEMMA InputInt ==
    ASSUME NEW in \in Inputs
    PROVE  /\ in.number \in Nat /\ in.diff \in Nat /\ in.min \in Nat
           /\ in.delta \in Nat \ {0}
           /\ in.uncles \in BOOLEAN /\ in.gamma \in BOOLEAN
BY DifficultyAssumption DEF Inputs

-----------------------------------------------------------------------------
(* calcDifficultyByzantium: the clamped value plus the bomb is at least    *)
(* the minimum; big1 afterwards is itself or the bomb, so still positive.  *)
LEMMA ByzantiumFloor ==
    ASSUME NEW in \in Inputs, NEW b1 \in Nat \ {0}
    PROVE  /\ CalcByzantium(in, b1).diff \in Int
           /\ CalcByzantium(in, b1).diff >= in.min
           /\ CalcByzantium(in, b1).big1 \in Nat \ {0}
<1> DEFINE L  == IF in.gamma THEN GammaDurationLimit ELSE DurationLimit
           u  == IF in.uncles THEN 2 ELSE b1
           x  == MaxOf(u - in.delta \div L, Floor99)
           aliased == in.diff \div BoundDivisor = 0
           y  == IF aliased THEN b1 ELSE in.diff \div BoundDivisor
           clamped == MaxOf(in.diff + y * x, in.min)
           pc == MaxOf(in.number - IceAgeDelay, 0) \div ExpDiffPeriod
<1>1. L \in Nat \ {0} /\ u \in Int
  BY InputInt, DifficultyAssumption
<1>2. x \in Int /\ y \in Int /\ pc \in Int
  BY <1>1, InputInt, DifficultyAssumption DEF MaxOf, Floor99, IceAgeDelay, ExpDiffPeriod
<1>3. clamped \in Int /\ clamped >= in.min
  BY <1>2, InputInt DEF MaxOf
<1>4. Bomb(pc, b1) \in Nat /\ (pc > b1 => Bomb(pc, b1) \in Nat \ {0})
  <2>1. b1 \in Int
    OBVIOUS
  <2>. QED
    BY <1>2, <2>1, BombNat
<1>5. CalcByzantium(in, b1) =
        [diff |-> clamped + Bomb(pc, b1),
         big1 |-> IF aliased /\ pc > b1 THEN Bomb(pc, b1) ELSE b1]
  BY DEF CalcByzantium
<1>6. /\ CalcByzantium(in, b1).diff = clamped + Bomb(pc, b1)
      /\ CalcByzantium(in, b1).big1 = IF aliased /\ pc > b1 THEN Bomb(pc, b1) ELSE b1
  BY <1>5
<1>7. CalcByzantium(in, b1).big1 \in Nat \ {0}
  BY <1>4, <1>6
<1> HIDE DEF L, u, x, aliased, y, clamped, pc
<1>. QED
  BY <1>3, <1>4, <1>6, <1>7, InputInt

(* calcDifficultyHomestead: the same clamp-then-bomb shape; big1 unchanged. *)
LEMMA HomesteadFloor ==
    ASSUME NEW in \in Inputs, NEW b1 \in Nat \ {0}
    PROVE  /\ CalcHomestead(in, b1).diff \in Int
           /\ CalcHomestead(in, b1).diff >= in.min
           /\ CalcHomestead(in, b1).big1 = b1
<1> DEFINE x  == MaxOf(b1 - in.delta \div 10, Floor99)
           clamped == MaxOf(in.diff + (in.diff \div BoundDivisor) * x, in.min)
           pc == (in.number + b1) \div ExpDiffPeriod
<1>1. x \in Int /\ pc \in Int /\ in.diff \div BoundDivisor \in Int
  BY InputInt, DifficultyAssumption DEF MaxOf, Floor99, ExpDiffPeriod
<1>2. clamped \in Int /\ clamped >= in.min
  BY <1>1, InputInt DEF MaxOf
<1>3. Bomb(pc, b1) \in Nat
  <2>1. b1 \in Int
    OBVIOUS
  <2>. QED
    BY <1>1, <2>1, BombNat
<1>4. CalcHomestead(in, b1) = [diff |-> clamped + Bomb(pc, b1), big1 |-> b1]
  BY DEF CalcHomestead
<1>5. CalcHomestead(in, b1).diff = clamped + Bomb(pc, b1)
      /\ CalcHomestead(in, b1).big1 = b1
  BY <1>4
<1> HIDE DEF x, clamped, pc
<1>. QED
  BY <1>2, <1>3, <1>5, InputInt

(* calcDifficultyFrontier: clamped, and clamped again after the bomb.      *)
LEMMA FrontierFloor ==
    ASSUME NEW in \in Inputs, NEW b1 \in Nat \ {0}
    PROVE  /\ CalcFrontier(in, b1).diff \in Int
           /\ CalcFrontier(in, b1).diff >= in.min
           /\ CalcFrontier(in, b1).big1 = b1
<1> DEFINE adjust == in.diff \div BoundDivisor
           d  == IF in.delta < DurationLimit THEN in.diff + adjust
                                             ELSE in.diff - adjust
           clamped == MaxOf(d, in.min)
           pc == (in.number + b1) \div ExpDiffPeriod
<1>1. d \in Int /\ pc \in Int
  BY InputInt, DifficultyAssumption DEF ExpDiffPeriod
<1>2. clamped \in Int /\ clamped >= in.min
  BY <1>1, InputInt DEF MaxOf
<1>3. Bomb(pc, b1) \in Nat
  <2>1. b1 \in Int
    OBVIOUS
  <2>. QED
    BY <1>1, <2>1, BombNat
<1>4. MaxOf(clamped + Bomb(pc, b1), in.min) \in Int
      /\ MaxOf(clamped + Bomb(pc, b1), in.min) >= in.min
  BY <1>2, <1>3, InputInt DEF MaxOf
<1>5. CalcFrontier(in, b1) =
        [diff |-> IF pc > b1 THEN MaxOf(clamped + Bomb(pc, b1), in.min)
                             ELSE clamped,
         big1 |-> b1]
  BY DEF CalcFrontier
<1>. QED
  BY <1>2, <1>4, <1>5

(* CalcDifficulty, whichever rule the fork configuration selects.          *)
LEMMA CalcFloor ==
    ASSUME NEW in \in Inputs, NEW b1 \in Nat \ {0}
    PROVE  /\ CalcDifficulty(in, b1).diff \in Int
           /\ CalcDifficulty(in, b1).diff >= in.min
           /\ CalcDifficulty(in, b1).big1 \in Nat \ {0}
<1>1. CASE IsForked(ByzantiumBlock, in.number + b1)
  BY <1>1, ByzantiumFloor DEF CalcDifficulty
<1>2. CASE ~IsForked(ByzantiumBlock, in.number + b1)
           /\ IsForked(HomesteadBlock, in.number + b1)
  BY <1>2, HomesteadFloor DEF CalcDifficulty
<1>3. CASE ~IsForked(ByzantiumBlock, in.number + b1)
           /\ ~IsForked(HomesteadBlock, in.number + b1)
  BY <1>3, FrontierFloor DEF CalcDifficulty
<1>. QED
  BY <1>1, <1>2, <1>3

-----------------------------------------------------------------------------
LEMMA InitIInv == Init => IInv
BY DEF Init, IInv, TypeOK, DifficultyFloor

LEMMA PrepareIInv ==
    ASSUME IInv, NEW in \in Inputs, Prepare(in)
    PROVE  IInv'
<1>1. big1 \in Nat \ {0}
  BY DEF IInv, TypeOK
<1>2. /\ CalcDifficulty(in, big1).diff \in Int
      /\ CalcDifficulty(in, big1).diff >= in.min
      /\ CalcDifficulty(in, big1).big1 \in Nat \ {0}
  BY <1>1, CalcFloor
<1>3. /\ prepared' = prepared \union {[in |-> in, diff |-> CalcDifficulty(in, big1).diff]}
      /\ big1' = CalcDifficulty(in, big1).big1
      /\ calls' = calls + 1 /\ rejected' = rejected
  BY DEF Prepare
<1>. QED
  BY <1>2, <1>3 DEF IInv, TypeOK, DifficultyFloor

LEMMA VerifyIInv ==
    ASSUME IInv, NEW h \in prepared, VerifyDifficulty(h)
    PROVE  IInv'
<1>1. big1 \in Nat \ {0} /\ h.in \in Inputs
  BY DEF IInv, TypeOK
<1>2. CalcDifficulty(h.in, big1).big1 \in Nat \ {0}
  BY <1>1, CalcFloor
<1>3. /\ big1' = CalcDifficulty(h.in, big1).big1
      /\ calls' = calls + 1 /\ prepared' = prepared
      /\ rejected' \subseteq rejected \union {h}
  BY DEF VerifyDifficulty
<1>. QED
  BY <1>2, <1>3 DEF IInv, TypeOK, DifficultyFloor

LEMMA NextIInv == IInv /\ [Next]_vars => IInv'
<1> SUFFICES ASSUME IInv, [Next]_vars PROVE IInv'
  OBVIOUS
<1>1. CASE \E in \in Inputs : Prepare(in)
  BY <1>1, PrepareIInv
<1>2. CASE \E h \in prepared : VerifyDifficulty(h)
  BY <1>2, VerifyIInv
<1>3. CASE UNCHANGED vars
  BY <1>3 DEF vars, IInv, TypeOK, DifficultyFloor
<1>. QED
  BY <1>1, <1>2, <1>3 DEF Next

(* Every difficulty Prepare stamps is at least the governance minimum,     *)
(* for all fork blocks, duration limits, parents and call counts, and      *)
(* however the Byzantium rule's alias has changed big1 (consensus.go       *)
(* CalcDifficulty and its three rules).                                    *)
THEOREM DifficultyFloorHolds == Spec => []DifficultyFloor
<1>1. IInv => DifficultyFloor
  BY DEF IInv
<1>. QED
  BY <1>1, InitIInv, NextIInv, PTL DEF Spec
-----------------------------------------------------------------------------
(* The difficulty_big1_alias run shows verifyHeader refusing a header     *)
(* Prepare stamped. The cause is the alias y = big1 alone: when no parent *)
(* difficulty is below BoundDivisor, y is a fresh value, big1 keeps 1, and *)
(* every prepared header is the calculation with big1 = 1.                *)
AliasFree ==
    /\ big1 = 1
    /\ prepared \subseteq [in : Inputs, diff : Int]
    /\ \A h \in prepared : h.diff = CalcDifficulty(h.in, 1).diff
    /\ rejected = {}

(* Without the alias no calculator writes big1.                            *)
LEMMA KeepsBig1 ==
    ASSUME NEW in \in Inputs, in.diff >= BoundDivisor
    PROVE  CalcDifficulty(in, 1).big1 = 1
<1>1. in.diff \div BoundDivisor # 0
  BY InputInt, DifficultyAssumption
<1>2. CalcByzantium(in, 1).big1 = 1
  BY <1>1 DEF CalcByzantium
<1>3. CalcHomestead(in, 1).big1 = 1 /\ CalcFrontier(in, 1).big1 = 1
  BY HomesteadFloor, FrontierFloor
<1>. QED
  BY <1>2, <1>3 DEF CalcDifficulty

LEMMA AliasFreeStep ==
    ASSUME \A d \in Diffs : d >= BoundDivisor,
           AliasFree, [Next]_vars
    PROVE  AliasFree'
<1>1. ASSUME NEW in \in Inputs
      PROVE  /\ CalcDifficulty(in, 1).big1 = 1
             /\ CalcDifficulty(in, 1).diff \in Int
  <2>1. in.diff >= BoundDivisor
    BY DEF Inputs
  <2>. QED
    BY <2>1, KeepsBig1, CalcFloor
<1>2. CASE \E in \in Inputs : Prepare(in)
  <2>1. PICK in \in Inputs : Prepare(in)
    BY <1>2
  <2>2. /\ prepared' = prepared \union {[in |-> in, diff |-> CalcDifficulty(in, 1).diff]}
        /\ big1' = CalcDifficulty(in, 1).big1 /\ rejected' = rejected
    BY <2>1 DEF Prepare, AliasFree
  <2>. QED
    BY <1>1, <2>2 DEF AliasFree
<1>3. CASE \E h \in prepared : VerifyDifficulty(h)
  <2>1. PICK h \in prepared : VerifyDifficulty(h)
    BY <1>3
  <2>2. h.in \in Inputs /\ h.diff = CalcDifficulty(h.in, 1).diff
    BY DEF AliasFree
  <2>3. /\ big1' = CalcDifficulty(h.in, 1).big1
        /\ prepared' = prepared /\ rejected' = rejected
    BY <2>1, <2>2 DEF VerifyDifficulty, AliasFree
  <2>. QED
    BY <1>1, <2>2, <2>3 DEF AliasFree
<1>4. CASE UNCHANGED vars
  BY <1>4 DEF vars, AliasFree
<1>. QED
  BY <1>2, <1>3, <1>4 DEF Next

(* Spec 7 holds, a stamped header passing verifyHeader unchanged, on every *)
(* chain whose parent difficulties are at least DifficultyBoundDivisor:    *)
(* the refusals difficulty_big1_alias finds come only from y aliasing      *)
(* big1 in calcDifficultyByzantium.                                        *)
THEOREM ConsistentWithoutAlias ==
    ASSUME \A d \in Diffs : d >= BoundDivisor
    PROVE  Spec => []DifficultyConsistent
<1>1. Init => AliasFree
  BY DEF Init, AliasFree
<1>2. AliasFree /\ [Next]_vars => AliasFree'
  BY AliasFreeStep
<1>3. AliasFree => DifficultyConsistent
  BY DEF AliasFree, DifficultyConsistent
<1>. QED
  BY <1>1, <1>2, <1>3, PTL DEF Spec
====
