----------------------------- MODULE Difficulty -----------------------------
(***************************************************************************)
(* The difficulty calculator (src/consensus/amhash/consensus.go):          *)
(* CalcDifficulty and its Byzantium, Homestead and Frontier rules, the     *)
(* Prepare that stamps a new header with it and the difficulty check of    *)
(* verifyHeader that recomputes it.                                        *)
(*                                                                         *)
(* The calculators are functions of their inputs except for one thing:     *)
(* the package-level *big.Int big1 (consensus.go:327) that they read, and  *)
(* that calcDifficultyByzantium can write through its alias `y = big1`.    *)
(* big1 is therefore the state of this module; every call reads it, and    *)
(* may change it for the calls after it.                                   *)
(***************************************************************************)
EXTENDS Integers

CONSTANTS
    HomesteadBlock,      \* ChainConfig.HomesteadBlock
    ByzantiumBlock,      \* ChainConfig.ByzantiumBlock
    DurationLimit,       \* params.DurationLimit (9)
    GammaDurationLimit,  \* params.VersionGammaDurationLimit
    BoundDivisor,        \* params.DifficultyBoundDivisor (2048)
    Numbers,             \* parent block numbers
    Diffs,               \* parent difficulties
    Deltas,              \* time - parent.Time (verifyHeader: > 0)
    Mins,                \* GetMinDifficulty(parent.Hash())
    MaxCalls             \* bound on the number of CalcDifficulty calls

ASSUME DifficultyAssumption ==
    /\ {HomesteadBlock, ByzantiumBlock} \subseteq Nat
    /\ {DurationLimit, GammaDurationLimit, BoundDivisor} \subseteq Nat \ {0}
    /\ Numbers \subseteq Nat /\ Diffs \subseteq Nat /\ Mins \subseteq Nat
    /\ Deltas \subseteq Nat \ {0}
    /\ MaxCalls \in Nat

(* expDiffPeriod, big2999999, bigMinus99 (consensus.go:326-332).            *)
ExpDiffPeriod == 100000
IceAgeDelay == 2999999
Floor99 == -99

(* A call's inputs: the parent's number, difficulty and uncle hash, the    *)
(* new header's time (as its distance from the parent's), whether its      *)
(* version is at least VersionGamma, and the governance minimum.           *)
Inputs == [number : Numbers, diff : Diffs, delta : Deltas,
           uncles : BOOLEAN, gamma : BOOLEAN, min : Mins]

MaxOf(a, b) == IF a >= b THEN a ELSE b

(* ChainConfig.IsHomestead / IsByzantium: the fork block is at or below    *)
(* the given block number.                                                 *)
IsForked(fork, num) == fork <= num

(* The ice-age term 2^(periodCount-2), added when periodCount > big1.      *)
(* big.Int.Exp(2, y, nil) with y <= 0 is 1.                                *)
Bomb(pc, b1) == IF pc > b1 THEN 2 ^ MaxOf(pc - 2, 0) ELSE 0

(* Mutant: calcDifficultyByzantium without the minimumDifficulty clamp.   *)
CalcByzantiumNoClamp(in, b1) ==
    LET L  == IF in.gamma THEN GammaDurationLimit ELSE DurationLimit
        u  == IF in.uncles THEN 2 ELSE b1
        x  == MaxOf(u - in.delta \div L, Floor99)
        aliased == in.diff \div BoundDivisor = 0
        y  == IF aliased THEN b1 ELSE in.diff \div BoundDivisor
        pc == MaxOf(in.number - IceAgeDelay, 0) \div ExpDiffPeriod
    IN  [diff |-> in.diff + y * x + Bomb(pc, b1),
         big1 |-> IF aliased /\ pc > b1 THEN Bomb(pc, b1) ELSE b1]

(* calcDifficultyByzantium with big1 = b1. It returns the difficulty and   *)
(* the value big1 holds afterwards: when parent.Difficulty / 2048 is zero, *)
(* y aliases big1 and the bomb's y.Sub / y.Exp overwrite it.               *)
CalcByzantium(in, b1) ==
    LET L  == IF in.gamma THEN GammaDurationLimit ELSE DurationLimit
        u  == IF in.uncles THEN 2 ELSE b1
        x  == MaxOf(u - in.delta \div L, Floor99)
        aliased == in.diff \div BoundDivisor = 0
        y  == IF aliased THEN b1 ELSE in.diff \div BoundDivisor
        clamped == MaxOf(in.diff + y * x, in.min)
        pc == MaxOf(in.number - IceAgeDelay, 0) \div ExpDiffPeriod
    IN  [diff |-> clamped + Bomb(pc, b1),
         big1 |-> IF aliased /\ pc > b1 THEN Bomb(pc, b1) ELSE b1]

(* calcDifficultyHomestead with big1 = b1.                                 *)
CalcHomestead(in, b1) ==
    LET x  == MaxOf(b1 - in.delta \div 10, Floor99)
        clamped == MaxOf(in.diff + (in.diff \div BoundDivisor) * x, in.min)
        pc == (in.number + b1) \div ExpDiffPeriod
    IN  [diff |-> clamped + Bomb(pc, b1), big1 |-> b1]

(* calcDifficultyFrontier with big1 = b1; math.BigMax after the bomb.      *)
CalcFrontier(in, b1) ==
    LET adjust == in.diff \div BoundDivisor
        d  == IF in.delta < DurationLimit THEN in.diff + adjust
                                          ELSE in.diff - adjust
        clamped == MaxOf(d, in.min)
        pc == (in.number + b1) \div ExpDiffPeriod
    IN  [diff |-> IF pc > b1 THEN MaxOf(clamped + Bomb(pc, b1), in.min)
                             ELSE clamped,
         big1 |-> b1]

(* CalcDifficulty: the fork rule is chosen by parent.Number + big1.        *)
CalcDifficulty(in, b1) ==
    LET next == in.number + b1
    IN  IF IsForked(ByzantiumBlock, next) THEN CalcByzantium(in, b1)
        ELSE IF IsForked(HomesteadBlock, next) THEN CalcHomestead(in, b1)
        ELSE CalcFrontier(in, b1)

-----------------------------------------------------------------------------
VARIABLES
    big1,       \* the value of the package variable big1
    calls,      \* CalcDifficulty calls made so far
    prepared,   \* headers stamped by Prepare: [in, diff]
    rejected    \* prepared headers whose difficulty verifyHeader refused

vars == <<big1, calls, prepared, rejected>>

Init ==
    /\ big1 = 1
    /\ calls = 0
    /\ prepared = {}
    /\ rejected = {}

(* Prepare: header.Difficulty = CalcDifficulty(parent, header.Time).       *)
Prepare(in) ==
    LET r == CalcDifficulty(in, big1)
    IN  /\ calls < MaxCalls
        /\ calls' = calls + 1
        /\ prepared' = prepared \union {[in |-> in, diff |-> r.diff]}
        /\ big1' = r.big1
        /\ UNCHANGED rejected

(* verifyHeader of a non-super header: recompute the difficulty and        *)
(* refuse the header when it differs ("invalid difficulty").               *)
VerifyDifficulty(h) ==
    LET r == CalcDifficulty(h.in, big1)
    IN  /\ calls < MaxCalls
        /\ calls' = calls + 1
        /\ big1' = r.big1
        /\ rejected' = IF r.diff # h.diff THEN rejected \union {h}
                                          ELSE rejected
        /\ UNCHANGED prepared

Next ==
    \/ \E in \in Inputs : Prepare(in)
    \/ \E h \in prepared : VerifyDifficulty(h)

Spec == Init /\ [][Next]_vars

-----------------------------------------------------------------------------
(* Every difficulty Prepare stamps is at least the governance minimum the  *)
(* calculators clamp to, in every fork rule and whatever big1 holds.        *)
DifficultyFloor == \A h \in prepared : h.diff >= h.in.min

(* Spec 7 (difficulty consistency): a header stamped by Prepare passes the *)
(* difficulty check of verifyHeader, on this node, unchanged.               *)
DifficultyConsistent == rejected = {}
====
