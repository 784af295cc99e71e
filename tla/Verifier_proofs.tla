--------------------------- MODULE Verifier_proofs ---------------------------
(***************************************************************************)
(* Proofs about block import (Verifier): every chain rewards each uncle    *)
(* once, for every ancestor window Horizon and uncle bound, and VerifySeal  *)
(* rebuilds the nonce field the worker hashed, for every seed.             *)
(*                                                                         *)
(* The argument for the uncles is by heights. A block's height is the      *)
(* number of its ancestors; along a chain heights fall by one per block,   *)
(* so the blocks VerifyUncles walks are exactly the chain blocks within    *)
(* Horizon of the new block. An uncle's parent must be one of them (and    *)
(* not the parent), so every uncle of a block lies 1 .. Horizon - 1 below  *)
(* it; an uncle that was rewarded by a block beyond the window, or that    *)
(* is itself a chain block beyond it, would lie lower than that.           *)
(***************************************************************************)
EXTENDS Verifier, TLAPS

ST == INSTANCE SequenceTheorems

Bytes == [1 .. NonceLen -> 0 .. 255]

(* The height of block x: how many ancestors it has.                       *)
Height(x) == Len(anc[x])

(* The ancestor line of a block built on p: p, then p's ancestors.         *)
Line(p) == <<p>> \o anc[p]

TypeOK ==
    /\ n \in 0 .. MaxBlocks
    /\ anc \in [Blocks -> Seq(Blocks)]
    /\ unc \in [Blocks -> Seq(Blocks)]
    /\ nonce \in [Blocks -> Bytes]

(* What the worker hashed for each block is the nonce field of its nonce.   *)
SealOK == sealed = [b \in Blocks |-> NonceField(nonce[b])]

(* Ancestors of imported blocks are imported blocks, and each lies as many *)
(* heights below the block as its place in the list.                       *)
AncOK ==
    \A x \in 0 .. n : \A i \in 1 .. Len(anc[x]) :
        /\ anc[x][i] \in 0 .. n
        /\ Height(anc[x][i]) = Height(x) - i

(* Every uncle is an imported block with a parent, and that parent lies 2  *)
(* .. Horizon heights below the block that includes the uncle.             *)
UncOK ==
    \A a \in 0 .. n : \A k \in 1 .. Len(unc[a]) :
        /\ unc[a][k] \in 0 .. n
        /\ anc[unc[a][k]] # <<>>
        /\ Height(a) - Horizon <= Height(anc[unc[a][k]][1])
        /\ Height(anc[unc[a][k]][1]) <= Height(a) - 2

(* The chain property of UnclesRewardedOnce for the chain ending at b.     *)
RewardedOnce(b) ==
    /\ \A a1, a2 \in ChainOf(b) :
          a1 # a2 => Range(unc[a1]) \cap Range(unc[a2]) = {}
    /\ \A a \in ChainOf(b) :
          /\ \A i, j \in 1 .. Len(unc[a]) : i # j => unc[a][i] # unc[a][j]
          /\ Range(unc[a]) \cap ChainOf(b) = {}

(* The inductive invariant.                                                *)
IInv ==
    /\ TypeOK
    /\ SealOK
    /\ AncOK
    /\ UncOK
    /\ \A b \in 0 .. n : RewardedOnce(b)

-----------------------------------------------------------------------------
(* Sequence facts used below.                                              *)
LEMMA FunIsSeq ==
    ASSUME NEW S, NEW k \in Nat, NEW f \in [1 .. k -> S]
    PROVE  f \in Seq(S) /\ Len(f) = k
<1>1. f \in UNION {[1 .. m -> S] : m \in Nat}
  OBVIOUS
<1>2. f \in Seq(S)
  BY <1>1, ST!SeqDef
<1>. QED
  BY <1>2, ST!LenProperties

(* The nonce text's shape: two prefix characters and 16 digits.           *)
LEMMA TextShape ==
    ASSUME NEW T, NEW c1 \in T, NEW c2 \in T, NEW g \in [1 .. 16 -> T]
    PROVE  Len(<<c1, c2>> \o g) = 18 /\ (<<c1, c2>> \o g)[17] = g[15]
<1>1. <<c1, c2>> \in Seq(T) /\ Len(<<c1, c2>>) = 2
  <2>1. <<c1, c2>> \in [1 .. 2 -> T]
    OBVIOUS
  <2>. QED
    BY <2>1, FunIsSeq
<1>2. g \in Seq(T) /\ Len(g) = 16
  BY FunIsSeq
<1>3. /\ Len(<<c1, c2>> \o g) = Len(<<c1, c2>>) + Len(g)
      /\ \A i \in 1 .. Len(<<c1, c2>>) + Len(g) :
            (<<c1, c2>> \o g)[i] = IF i <= Len(<<c1, c2>>) THEN <<c1, c2>>[i]
                                   ELSE g[i - Len(<<c1, c2>>)]
  BY <1>1, <1>2, ST!ConcatProperties
<1>. QED
  BY <1>1, <1>2, <1>3

-----------------------------------------------------------------------------
(* The nonce text. Its 17th character is a hex digit of the last byte, so  *)
(* once reversed it stands second, where hexutil wants the x of "0x".      *)
LEMMA HexNotX == \A k \in 1 .. 16 : Hex[k] \notin {"x", "X"}
BY DEF Hex

(* The digits of the nonce text, after its "0x".                          *)
HexDigits(b) ==
    [i \in 1 .. 2 * Len(b) |->
        LET byte == b[(i + 1) \div 2]
        IN  IF i % 2 = 1 THEN Hex[byte \div 16 + 1] ELSE Hex[(byte % 16) + 1]]

HexSet == {Hex[k] : k \in 1 .. 16}

TextChars == HexSet \cup {"0", "x"}

LEMMA HexDigitsShape ==
    ASSUME NEW b \in Bytes
    PROVE  /\ HexDigits(b) \in [1 .. 16 -> HexSet]
           /\ HexDigits(b)[15] = Hex[b[8] \div 16 + 1]
<1>1. Len(b) = 8 /\ b[8] \in 0 .. 255
  BY FunIsSeq DEF Bytes, NonceLen
<1>2. HexDigits(b) \in [1 .. 16 -> HexSet]
  <2>1. SUFFICES ASSUME NEW i \in 1 .. 16
                 PROVE  HexDigits(b)[i] \in HexSet
    BY <1>1 DEF HexDigits
  <2>2. b[(i + 1) \div 2] \in 0 .. 255
    BY DEF Bytes, NonceLen
  <2>3. \A k \in 0 .. 255 : k \div 16 + 1 \in 1 .. 16 /\ (k % 16) + 1 \in 1 .. 16
    OBVIOUS
  <2>4. \A k \in 1 .. 16 : Hex[k] \in HexSet
    BY Zenon DEF HexSet
  <2>5. i \in 1 .. 2 * Len(b)
    BY <1>1
  <2>6. CASE i % 2 = 1
    <3>1. HexDigits(b)[i] = Hex[b[(i + 1) \div 2] \div 16 + 1]
      BY <2>5, <2>6 DEF HexDigits
    <3>. QED
      BY <2>2, <2>3, <2>4, <3>1
  <2>7. CASE i % 2 # 1
    <3>1. HexDigits(b)[i] = Hex[(b[(i + 1) \div 2] % 16) + 1]
      BY <2>5, <2>7 DEF HexDigits
    <3>. QED
      BY <2>2, <2>3, <2>4, <3>1
  <2>. QED
    BY <2>6, <2>7
<1>3. HexDigits(b)[15] = Hex[b[8] \div 16 + 1]
  <2>1. (15 + 1) \div 2 = 8 /\ 15 % 2 = 1 /\ 15 \in 1 .. 2 * Len(b)
    BY <1>1
  <2>. QED
    BY <2>1 DEF HexDigits
<1>. QED
  BY <1>2, <1>3

LEMMA MarshalShape ==
    ASSUME NEW b \in Bytes
    PROVE  /\ Len(MarshalText(b)) = 18
           /\ MarshalText(b)[17] \in HexSet
<1>1. MarshalText(b) = <<"0", "x">> \o HexDigits(b)
  BY DEF MarshalText, HexDigits
<1>2. HexDigits(b) \in [1 .. 16 -> TextChars] /\ HexDigits(b)[15] \in HexSet
  <2>1. b[8] \in 0 .. 255
    BY DEF Bytes, NonceLen
  <2>. QED
    BY <2>1, HexDigitsShape DEF TextChars
<1>3. "0" \in TextChars /\ "x" \in TextChars
  BY DEF TextChars
<1>4. /\ Len(<<"0", "x">> \o HexDigits(b)) = 18
      /\ (<<"0", "x">> \o HexDigits(b))[17] = HexDigits(b)[15]
  BY <1>2, <1>3, TextShape
<1>. QED
  BY <1>1, <1>2, <1>4, Zenon

(* The "reverse the nonce" idiom leaves every nonce as it was: the text    *)
(* it hands to UnmarshalText never starts with "0x".                       *)
LEMMA ReverseNonceId ==
    ASSUME NEW b \in Bytes
    PROVE  ReverseNonce(b) = b
<1> DEFINE t == MarshalText(b)
<1>1. Len(t) = 18 /\ t[17] \in HexSet
  BY MarshalShape
<1>2. Reverse(t)[2] = t[17]
  BY <1>1 DEF Reverse
<1>3. Reverse(t)[2] \notin {"x", "X"}
  BY <1>1, <1>2, HexNotX DEF HexSet
<1>. QED
  BY <1>3 DEF ReverseNonce, UnmarshalText

LEMMA EncodeBytes ==
    ASSUME NEW s \in Nat
    PROVE  EncodeNonce(s) \in Bytes
<1>1. 256 ^ 0 = 1 /\ 256 ^ 1 = 256 /\ 256 ^ 2 = 65536
  OBVIOUS
<1>. QED
  BY <1>1 DEF EncodeNonce, Bytes, NonceLen

(* Every nonce a worker reports is an 8-byte word.                         *)
LEMMA FoundBytes == FoundNonces \subseteq Bytes
<1>1. \A s \in Seeds : s \in Nat
  BY VerifierAssumption
<1>2. SUFFICES ASSUME NEW s \in Seeds
               PROVE  ReverseNonce(EncodeNonce(s)) \in Bytes
  <2>1. EncodeNonce(0) \in Bytes
    BY EncodeBytes
  <2>. QED
    BY <2>1 DEF FoundNonces
<1>3. EncodeNonce(s) \in Bytes
  BY <1>1, EncodeBytes
<1>. QED
  BY <1>3, ReverseNonceId

-----------------------------------------------------------------------------
(* Imported blocks have ancestor and uncle lists, and a height.           *)
LEMMA BlockTypes ==
    ASSUME TypeOK, NEW x \in 0 .. n
    PROVE  /\ x \in Blocks
           /\ anc[x] \in Seq(Blocks)
           /\ unc[x] \in Seq(Blocks)
           /\ Height(x) \in Nat
           /\ n \in Nat
<1>0. n \in 0 .. MaxBlocks
  BY Zenon DEF TypeOK
<1>1. x \in Blocks
  BY <1>0, VerifierAssumption DEF Blocks
<1>2. anc[x] \in Seq(Blocks) /\ unc[x] \in Seq(Blocks)
  BY <1>1, Zenon DEF TypeOK
<1>. QED
  BY <1>0, <1>1, <1>2, ST!LenProperties, VerifierAssumption DEF Height

(* The ancestor line of a block built on p, by heights: p first, then each *)
(* ancestor one height lower.                                              *)
LEMMA LineShape ==
    ASSUME TypeOK, AncOK, NEW p \in 0 .. n
    PROVE  /\ Line(p) \in Seq(Blocks)
           /\ Len(Line(p)) = Height(p) + 1
           /\ Line(p)[1] = p
           /\ \A j \in 1 .. Len(Line(p)) :
                 /\ Line(p)[j] \in 0 .. n
                 /\ Height(Line(p)[j]) = Height(p) + 1 - j
           /\ \A j \in 2 .. Len(Line(p)) : Line(p)[j] = anc[p][j - 1]
<1>1. p \in Blocks /\ anc[p] \in Seq(Blocks)
  BY BlockTypes
<1>2. <<p>> \in Seq(Blocks) /\ Len(<<p>>) = 1
  <2>1. <<p>> \in [1 .. 1 -> Blocks]
    BY <1>1
  <2>. QED
    BY <2>1, FunIsSeq
<1>3. /\ Line(p) \in Seq(Blocks)
      /\ Len(Line(p)) = 1 + Len(anc[p])
      /\ \A i \in 1 .. 1 + Len(anc[p]) :
            Line(p)[i] = IF i <= 1 THEN p ELSE anc[p][i - 1]
  BY <1>1, <1>2, ST!ConcatProperties DEF Line
<1>4. Len(anc[p]) \in Nat
  BY <1>1, ST!LenProperties
<1>5. ASSUME NEW j \in 1 .. Len(Line(p))
      PROVE  /\ Line(p)[j] \in 0 .. n
             /\ Height(Line(p)[j]) = Height(p) + 1 - j
  <2>1. CASE j = 1
    BY <1>3, <1>4, <2>1 DEF Height
  <2>2. CASE j # 1
    <3>1. j - 1 \in 1 .. Len(anc[p]) /\ Line(p)[j] = anc[p][j - 1]
      BY <1>3, <1>4, <2>2
    <3>2. /\ anc[p][j - 1] \in 0 .. n
          /\ Height(anc[p][j - 1]) = Height(p) - (j - 1)
      BY <3>1 DEF AncOK
    <3>3. Height(p) \in Nat
      BY BlockTypes
    <3>. QED
      BY <3>1, <3>2, <3>3
  <2>. QED
    BY <2>1, <2>2
<1>. QED
  BY <1>3, <1>4, <1>5 DEF Height

(* The window VerifyUncles walks: the blocks of p's line within Horizon    *)
(* heights of the new block, p included.                                   *)
LEMMA WindowShape ==
    ASSUME TypeOK, AncOK, NEW p \in 0 .. n
    PROVE  /\ \A x \in Range(Walk(p)) :
                 /\ x \in Range(Line(p))
                 /\ Height(x) >= Height(p) + 1 - Horizon
                 /\ x # p => Height(x) <= Height(p) - 1
           /\ \A x \in Range(Line(p)) :
                 /\ x \in 0 .. n
                 /\ Height(x) >= Height(p) + 1 - Horizon => x \in Range(Walk(p))
<1> DEFINE line == Line(p)
           m == MinOf(Horizon, Len(line))
<1>1. /\ line \in Seq(Blocks)
      /\ Len(line) = Height(p) + 1
      /\ line[1] = p
      /\ \A j \in 1 .. Len(line) :
            line[j] \in 0 .. n /\ Height(line[j]) = Height(p) + 1 - j
  BY LineShape
<1>2. Height(p) \in Nat /\ Horizon \in Nat \ {0}
  BY BlockTypes, VerifierAssumption
<1>3. m \in 1 .. Len(line) /\ m <= Horizon
  <2>1. Len(line) \in Nat \ {0}
    BY <1>1, <1>2
  <2>. QED
    BY <2>1, <1>2 DEF MinOf
<1>4. /\ Walk(p) \in Seq(Blocks)
      /\ Len(Walk(p)) = m
      /\ \A i \in 1 .. m : Walk(p)[i] = line[i]
  <2>1. \A i \in 1 .. m : line[i] \in Blocks
    BY <1>1, <1>3, ST!LenProperties
  <2>. QED
    BY <2>1, <1>3, ST!SubSeqProperties DEF Walk, Line
<1>5. Range(Walk(p)) = {line[i] : i \in 1 .. m}
  BY <1>4, ST!LenProperties DEF Range
<1>6. Range(line) = {line[i] : i \in 1 .. Len(line)}
  BY <1>1, ST!LenProperties DEF Range
<1>7. ASSUME NEW x \in Range(Walk(p))
      PROVE  /\ x \in Range(Line(p))
             /\ Height(x) >= Height(p) + 1 - Horizon
             /\ x # p => Height(x) <= Height(p) - 1
  <2>1. PICK i \in 1 .. m : x = line[i]
    BY <1>5
  <2>2. i \in 1 .. Len(line) /\ i <= Horizon
    BY <1>1, <1>2, <1>3
  <2>3. x \in Range(Line(p))
    BY <1>6, <2>1, <2>2
  <2>4. Height(x) = Height(p) + 1 - i
    BY <1>1, <2>1, <2>2
  <2>5. Height(x) >= Height(p) + 1 - Horizon
    BY <1>2, <2>2, <2>4
  <2>6. x # p => Height(x) <= Height(p) - 1
    <3>1. x # p => i # 1
      BY <1>1, <2>1
    <3>. QED
      BY <1>2, <2>2, <2>4, <3>1
  <2>. QED
    BY <2>3, <2>5, <2>6
<1>8. ASSUME NEW x \in Range(Line(p))
      PROVE  /\ x \in 0 .. n
             /\ Height(x) >= Height(p) + 1 - Horizon => x \in Range(Walk(p))
  <2>1. PICK j \in 1 .. Len(line) : x = line[j]
    BY <1>6
  <2>2. Height(x) >= Height(p) + 1 - Horizon => j \in 1 .. m
    BY <1>1, <1>2, <2>1 DEF MinOf
  <2>. QED
    BY <1>1, <1>5, <2>1, <2>2
<1>. QED
  BY <1>7, <1>8

(* A block's line is its parent's chain.                                   *)
LEMMA LineIsChain ==
    ASSUME TypeOK, AncOK, NEW p \in 0 .. n
    PROVE  Range(Line(p)) = ChainOf(p)
<1>1. /\ Line(p) \in Seq(Blocks)
      /\ Len(Line(p)) = Height(p) + 1
      /\ Line(p)[1] = p
      /\ \A j \in 2 .. Len(Line(p)) : Line(p)[j] = anc[p][j - 1]
  BY LineShape
<1>2. anc[p] \in Seq(Blocks) /\ Height(p) \in Nat
  BY BlockTypes
<1>3. Range(Line(p)) = {Line(p)[j] : j \in 1 .. Height(p) + 1}
  BY <1>1, ST!LenProperties DEF Range
<1>4. Range(anc[p]) = {anc[p][i] : i \in 1 .. Height(p)}
  BY <1>2, ST!LenProperties DEF Range, Height
<1>5. Range(Line(p)) \subseteq ChainOf(p)
  BY <1>1, <1>2, <1>3, <1>4 DEF ChainOf
<1>6. ChainOf(p) \subseteq Range(Line(p))
  <2>1. \A i \in 1 .. Height(p) : anc[p][i] = Line(p)[i + 1]
    BY <1>1, <1>2
  <2>. QED
    BY <1>1, <1>2, <1>3, <1>4, <2>1 DEF ChainOf
<1>. QED
  BY <1>5, <1>6

-----------------------------------------------------------------------------
(* Offered uncle lists are sequences of imported blocks.                   *)
LEMMA UncleListShape ==
    ASSUME NEW L \in UncleLists
    PROVE  /\ L \in Seq(0 .. n)
           /\ DOMAIN L = 1 .. Len(L)
           /\ \A k \in 1 .. Len(L) : L[k] \in 0 .. n
<1>1. PICK K \in 0 .. MaxUncles + 1 : L \in [1 .. K -> 0 .. n]
  BY DEF UncleLists
<1>2. K \in Nat
  BY <1>1, VerifierAssumption
<1>3. L \in Seq(0 .. n) /\ Len(L) = K
  BY <1>1, <1>2, FunIsSeq
<1>. QED
  BY <1>1, <1>3

(* What VerifyUncles accepting L for block n + 1 on p says of each uncle u: *)
(* it is an imported block whose parent lies in the window but is not p,   *)
(* so it lies 1 .. Horizon - 1 heights below the new block; it is not in   *)
(* the window, not an uncle of a block in it, and not earlier in L.        *)
LEMMA UncleFacts ==
    ASSUME IInv, NEW p \in 0 .. n, NEW L \in UncleLists,
           VerifyUncles(n + 1, p, L), NEW k \in 1 .. Len(L)
    PROVE  /\ L[k] \in 0 .. n
           /\ anc[L[k]] # <<>>
           /\ anc[L[k]][1] \in 0 .. n
           /\ Height(p) + 1 - Horizon <= Height(anc[L[k]][1])
           /\ Height(anc[L[k]][1]) <= Height(p) - 1
           /\ Height(L[k]) = Height(anc[L[k]][1]) + 1
           /\ L[k] \notin Range(Walk(p))
           /\ \A a \in Range(Walk(p)) : L[k] \notin Range(unc[a])
           /\ \A j \in 1 .. k - 1 : L[j] # L[k]
<1> DEFINE u == L[k]
           walk == Walk(p)
<1>1. TypeOK /\ AncOK
  BY DEF IInv
<1>2. u \in 0 .. n /\ n \in Nat /\ Height(p) \in Nat
  BY <1>1, UncleListShape, BlockTypes
<1>3. /\ u \notin UNION {Range(unc[a]) : a \in Range(walk)} \union {n + 1}
      /\ \A j \in 1 .. k - 1 : L[j] # u
      /\ u \notin Range(walk) \union {n + 1}
      /\ ParentOf(u) \in Range(walk) \union {n + 1}
      /\ ParentOf(u) # p
  BY DEF VerifyUncles
<1>4. /\ \A x \in Range(walk) : x \in Range(Line(p))
      /\ \A x \in Range(Line(p)) : x \in 0 .. n
  BY <1>1, WindowShape
<1>5. anc[u] # <<>>
  <2>1. -1 \notin Range(walk) \union {n + 1}
    BY <1>2, <1>4
  <2>. QED
    BY <1>3, <2>1 DEF ParentOf, NoParent
<1>6. anc[u] \in Seq(Blocks) /\ Height(u) \in Nat
  BY <1>1, <1>2, BlockTypes
<1>7. 1 \in 1 .. Len(anc[u])
  BY <1>5, <1>6, ST!EmptySeq DEF Height
<1>8. anc[u][1] \in 0 .. n /\ Height(anc[u][1]) = Height(u) - 1
  BY <1>1, <1>2, <1>7 DEF AncOK
<1>9. anc[u][1] \in Range(walk) /\ anc[u][1] # p
  BY <1>2, <1>3, <1>5, <1>8 DEF ParentOf
<1>10. Height(anc[u][1]) >= Height(p) + 1 - Horizon
       /\ Height(anc[u][1]) <= Height(p) - 1
  BY <1>1, <1>9, WindowShape
<1>. QED
  BY <1>2, <1>3, <1>5, <1>6, <1>8, <1>10

(* No uncle of the new block is an uncle of a block of its parent's chain: *)
(* within the window VerifyUncles collected them, and a block beyond the   *)
(* window only has uncles lower than the new block's can be.              *)
LEMMA NotRewardedBefore ==
    ASSUME IInv, NEW p \in 0 .. n, NEW L \in UncleLists,
           VerifyUncles(n + 1, p, L), NEW k \in 1 .. Len(L),
           NEW a \in Range(Line(p))
    PROVE  L[k] \notin Range(unc[a])
<1>1. TypeOK /\ AncOK /\ UncOK
  BY DEF IInv
<1>2. /\ a \in 0 .. n
      /\ Height(a) >= Height(p) + 1 - Horizon => a \in Range(Walk(p))
  BY <1>1, WindowShape
<1>3. CASE a \in Range(Walk(p))
  BY <1>3, UncleFacts
<1>4. CASE a \notin Range(Walk(p))
  <2>1. SUFFICES ASSUME L[k] \in Range(unc[a]) PROVE FALSE
    OBVIOUS
  <2>2. unc[a] \in Seq(Blocks) /\ Height(a) \in Nat
    BY <1>1, <1>2, BlockTypes
  <2>7. Height(p) \in Nat /\ L[k] \in 0 .. n /\ anc[L[k]][1] \in 0 .. n
    BY <1>1, BlockTypes, UncleFacts
  <2>8. Height(anc[L[k]][1]) \in Nat
    BY <1>1, <2>7, BlockTypes
  <2>3. PICK i \in 1 .. Len(unc[a]) : unc[a][i] = L[k]
    BY <2>1, <2>2, ST!LenProperties DEF Range
  <2>4. Height(anc[unc[a][i]][1]) <= Height(a) - 2
    BY <1>1, <1>2, <2>3 DEF UncOK
  <2>5. Height(p) + 1 - Horizon <= Height(anc[L[k]][1])
    BY UncleFacts
  <2>6. Height(a) < Height(p) + 1 - Horizon
    BY <1>2, <1>4, <2>2, <2>7, VerifierAssumption
  <2>. QED
    BY <2>2, <2>3, <2>4, <2>5, <2>6, <2>7, <2>8, VerifierAssumption
<1>. QED
  BY <1>3, <1>4

(* No uncle of the new block is a block of its parent's chain: within the  *)
(* window it would be an ancestor, beyond it it would lie lower than an    *)
(* uncle can.                                                              *)
LEMMA UncleOffChain ==
    ASSUME IInv, NEW p \in 0 .. n, NEW L \in UncleLists,
           VerifyUncles(n + 1, p, L), NEW k \in 1 .. Len(L)
    PROVE  L[k] \notin Range(Line(p))
<1>1. TypeOK /\ AncOK
  BY DEF IInv
<1>2. SUFFICES ASSUME L[k] \in Range(Line(p)) PROVE FALSE
  OBVIOUS
<1>3. Height(L[k]) >= Height(p) + 1 - Horizon => L[k] \in Range(Walk(p))
  BY <1>1, <1>2, WindowShape
<1>4. /\ L[k] \notin Range(Walk(p))
      /\ Height(p) + 1 - Horizon <= Height(anc[L[k]][1])
      /\ Height(L[k]) = Height(anc[L[k]][1]) + 1
  BY UncleFacts
<1>5. /\ Height(p) \in Nat /\ Horizon \in Nat
      /\ L[k] \in 0 .. n /\ anc[L[k]][1] \in 0 .. n
  BY <1>1, BlockTypes, UncleFacts, VerifierAssumption
<1>6. Height(L[k]) \in Nat /\ Height(anc[L[k]][1]) \in Nat
  BY <1>1, <1>5, BlockTypes
<1>. QED
  BY <1>3, <1>4, <1>5, <1>6

-----------------------------------------------------------------------------
(* One import step, MineAndImport(p, L, f), from a state satisfying IInv.  *)
LEMMA StepBasics ==
    ASSUME IInv, NEW p \in 0 .. n, NEW L \in UncleLists, NEW f,
           MineAndImport(p, L, f)
    PROVE  /\ n' = n + 1
           /\ n \in Nat /\ n + 1 \in Blocks
           /\ anc' = [anc EXCEPT ![n + 1] = Line(p)]
           /\ unc' = [unc EXCEPT ![n + 1] = L]
           /\ nonce' = [nonce EXCEPT ![n + 1] = f]
           /\ sealed' = [sealed EXCEPT ![n + 1] = NonceField(f)]
           /\ VerifyUncles(n + 1, p, L)
<1>1. n \in 0 .. MaxBlocks
  BY Zenon DEF IInv, TypeOK
<1>2. n < MaxBlocks
  BY DEF MineAndImport
<1>. QED
  BY <1>1, <1>2, VerifierAssumption DEF MineAndImport, Line, Blocks

LEMMA StepType ==
    ASSUME IInv, NEW p \in 0 .. n, NEW L \in UncleLists, NEW f \in FoundNonces,
           MineAndImport(p, L, f)
    PROVE  TypeOK'
<1>1. /\ n' = n + 1
      /\ n \in Nat /\ n + 1 \in Blocks
      /\ anc' = [anc EXCEPT ![n + 1] = Line(p)]
      /\ unc' = [unc EXCEPT ![n + 1] = L]
      /\ nonce' = [nonce EXCEPT ![n + 1] = f]
  BY StepBasics
<1>2. TypeOK
  BY DEF IInv
<1>3. Line(p) \in Seq(Blocks)
  BY <1>2, LineShape DEF IInv
<1>4. L \in Seq(Blocks)
  <2>1. L \in Seq(0 .. n)
    BY UncleListShape
  <2>2. 0 .. n \subseteq Blocks
    BY <1>2, VerifierAssumption DEF TypeOK, Blocks
  <2>. QED
    BY <2>1, <2>2, ST!SeqMonotonic
<1>5. f \in Bytes
  BY FoundBytes
<1>6. n' \in 0 .. MaxBlocks
  BY <1>1 DEF Blocks
<1>7. anc' \in [Blocks -> Seq(Blocks)] /\ unc' \in [Blocks -> Seq(Blocks)]
  BY <1>1, <1>2, <1>3, <1>4 DEF TypeOK
<1>8. nonce' \in [Blocks -> Bytes]
  BY <1>1, <1>2, <1>5 DEF TypeOK
<1>. QED
  BY <1>6, <1>7, <1>8 DEF TypeOK

LEMMA StepSeal ==
    ASSUME IInv, NEW p \in 0 .. n, NEW L \in UncleLists, NEW f,
           MineAndImport(p, L, f)
    PROVE  SealOK'
<1>1. /\ n + 1 \in Blocks
      /\ nonce' = [nonce EXCEPT ![n + 1] = f]
      /\ sealed' = [sealed EXCEPT ![n + 1] = NonceField(f)]
  BY StepBasics
<1>2. sealed = [b \in Blocks |-> NonceField(nonce[b])]
      /\ nonce \in [Blocks -> Bytes]
  BY DEF IInv, SealOK, TypeOK
<1>. QED
  BY <1>1, <1>2 DEF SealOK

LEMMA StepAnc ==
    ASSUME IInv, NEW p \in 0 .. n, NEW L \in UncleLists, NEW f,
           MineAndImport(p, L, f)
    PROVE  AncOK'
<1>1. /\ n' = n + 1
      /\ n \in Nat /\ n + 1 \in Blocks
      /\ anc' = [anc EXCEPT ![n + 1] = Line(p)]
  BY StepBasics
<1>2. TypeOK /\ AncOK
  BY DEF IInv
<1>3. anc \in [Blocks -> Seq(Blocks)]
  BY <1>2 DEF TypeOK
<1>4. \A y \in 0 .. n : anc'[y] = anc[y]
  BY <1>1, <1>3 DEF Blocks
<1>5. SUFFICES ASSUME NEW x \in 0 .. n + 1, NEW i \in 1 .. Len(anc'[x])
               PROVE  /\ anc'[x][i] \in 0 .. n + 1
                      /\ Len(anc'[anc'[x][i]]) = Len(anc'[x]) - i
  BY <1>1 DEF AncOK, Height
<1>6. CASE x \in 0 .. n
  <2>1. anc'[x] = anc[x]
    BY <1>4, <1>6
  <2>2. anc[x][i] \in 0 .. n /\ Len(anc[anc[x][i]]) = Len(anc[x]) - i
    BY <1>2, <1>6, <2>1 DEF AncOK, Height
  <2>3. anc'[anc[x][i]] = anc[anc[x][i]]
    BY <1>4, <2>2
  <2>. QED
    BY <1>1, <2>1, <2>2, <2>3
<1>7. CASE x = n + 1
  <2>1. anc'[x] = Line(p)
    BY <1>1, <1>3, <1>7
  <2>2. /\ Len(Line(p)) = Height(p) + 1
        /\ Line(p)[i] \in 0 .. n
        /\ Height(Line(p)[i]) = Height(p) + 1 - i
    BY <1>2, <2>1, LineShape
  <2>3. anc'[Line(p)[i]] = anc[Line(p)[i]]
    BY <1>4, <2>2
  <2>4. Height(p) \in Nat /\ n \in Nat
    BY <1>2, BlockTypes
  <2>5. anc'[x][i] \in 0 .. n + 1
    BY <2>1, <2>2, <2>4
  <2>6. Len(anc'[anc'[x][i]]) = Height(p) + 1 - i
    BY <2>1, <2>2, <2>3 DEF Height
  <2>7. Len(anc'[x]) = Height(p) + 1
    BY <2>1, <2>2
  <2>. QED
    BY <2>4, <2>5, <2>6, <2>7
<1>. QED
  BY <1>1, <1>6, <1>7

LEMMA StepUnc ==
    ASSUME IInv, NEW p \in 0 .. n, NEW L \in UncleLists, NEW f,
           MineAndImport(p, L, f)
    PROVE  UncOK'
<1>1. /\ n' = n + 1
      /\ n \in Nat /\ n + 1 \in Blocks
      /\ anc' = [anc EXCEPT ![n + 1] = Line(p)]
      /\ unc' = [unc EXCEPT ![n + 1] = L]
      /\ VerifyUncles(n + 1, p, L)
  BY StepBasics
<1>2. TypeOK /\ AncOK /\ UncOK
  BY DEF IInv
<1>3. anc \in [Blocks -> Seq(Blocks)] /\ unc \in [Blocks -> Seq(Blocks)]
  BY <1>2 DEF TypeOK
<1>4. \A y \in 0 .. n : anc'[y] = anc[y] /\ unc'[y] = unc[y]
  BY <1>1, <1>3 DEF Blocks
<1>5. SUFFICES ASSUME NEW a \in 0 .. n + 1, NEW k \in 1 .. Len(unc'[a])
               PROVE  /\ unc'[a][k] \in 0 .. n + 1
                      /\ anc'[unc'[a][k]] # <<>>
                      /\ Len(anc'[a]) - Horizon <= Len(anc'[anc'[unc'[a][k]][1]])
                      /\ Len(anc'[anc'[unc'[a][k]][1]]) <= Len(anc'[a]) - 2
  BY <1>1 DEF UncOK, Height
<1>6. CASE a \in 0 .. n
  <2>1. unc'[a] = unc[a] /\ anc'[a] = anc[a]
    BY <1>4, <1>6
  <2>2. /\ unc[a][k] \in 0 .. n
        /\ anc[unc[a][k]] # <<>>
        /\ Height(a) - Horizon <= Height(anc[unc[a][k]][1])
        /\ Height(anc[unc[a][k]][1]) <= Height(a) - 2
    BY <1>2, <1>6, <2>1 DEF UncOK
  <2>3. anc[unc[a][k]][1] \in 0 .. n
    <3>1. 1 \in 1 .. Len(anc[unc[a][k]])
      BY <1>2, <2>2, BlockTypes
    <3>. QED
      BY <1>2, <2>2, <3>1 DEF AncOK
  <2>4. /\ anc'[unc[a][k]] = anc[unc[a][k]]
        /\ anc'[anc[unc[a][k]][1]] = anc[anc[unc[a][k]][1]]
    BY <1>4, <2>2, <2>3
  <2>5. /\ unc'[a][k] = unc[a][k]
        /\ anc'[unc'[a][k]] = anc[unc[a][k]]
        /\ Len(anc'[anc'[unc'[a][k]][1]]) = Height(anc[unc[a][k]][1])
        /\ Len(anc'[a]) = Height(a)
    BY <2>1, <2>4 DEF Height
  <2>6. Height(a) \in Nat /\ Height(anc[unc[a][k]][1]) \in Nat /\ n \in Nat
    BY <1>2, <1>6, <2>3, BlockTypes
  <2>. QED
    BY <2>2, <2>5, <2>6, VerifierAssumption
<1>7. CASE a = n + 1
  <2>1. unc'[a] = L /\ anc'[a] = Line(p)
    BY <1>1, <1>3, <1>7
  <2>2. /\ L[k] \in 0 .. n
        /\ anc[L[k]] # <<>>
        /\ anc[L[k]][1] \in 0 .. n
        /\ Height(p) + 1 - Horizon <= Height(anc[L[k]][1])
        /\ Height(anc[L[k]][1]) <= Height(p) - 1
    BY <1>1, <2>1, UncleFacts
  <2>3. /\ anc'[L[k]] = anc[L[k]]
        /\ anc'[anc[L[k]][1]] = anc[anc[L[k]][1]]
    BY <1>4, <2>2
  <2>4. Len(Line(p)) = Height(p) + 1
    BY <1>2, LineShape
  <2>5. Height(p) \in Nat /\ Height(anc[L[k]][1]) \in Nat /\ n \in Nat
    BY <1>2, <2>2, BlockTypes
  <2>6. Len(anc'[anc'[unc'[a][k]][1]]) = Height(anc[L[k]][1])
    BY <2>1, <2>3 DEF Height
  <2>7. Len(anc'[a]) = Height(p) + 1
    BY <2>1, <2>4
  <2>8. unc'[a][k] = L[k] /\ anc'[unc'[a][k]] = anc[L[k]]
    BY <2>1, <2>3
  <2>9. unc'[a][k] \in 0 .. n + 1
    BY <2>2, <2>5, <2>8
  <2>10. anc'[unc'[a][k]] # <<>>
    BY <2>2, <2>8
  <2>11. Len(anc'[a]) - Horizon <= Len(anc'[anc'[unc'[a][k]][1]])
    BY <2>2, <2>5, <2>6, <2>7, VerifierAssumption
  <2>12. Len(anc'[anc'[unc'[a][k]][1]]) <= Len(anc'[a]) - 2
    BY <2>2, <2>5, <2>6, <2>7
  <2>. QED
    BY <2>9, <2>10, <2>11, <2>12
<1>. QED
  BY <1>1, <1>6, <1>7

(* Chain blocks of an imported block are imported blocks.                  *)
LEMMA ChainImported ==
    ASSUME TypeOK, AncOK, NEW x \in 0 .. n
    PROVE  ChainOf(x) \subseteq 0 .. n
<1>1. anc[x] \in Seq(Blocks)
  BY BlockTypes
<1>2. \A i \in 1 .. Len(anc[x]) : anc[x][i] \in 0 .. n
  BY DEF AncOK
<1>. QED
  BY <1>1, <1>2 DEF ChainOf, Range

LEMMA StepOld ==
    ASSUME IInv, NEW p \in 0 .. n, NEW L \in UncleLists, NEW f,
           MineAndImport(p, L, f), NEW x \in 0 .. n
    PROVE  RewardedOnce(x)'
<1>1. /\ n + 1 \in Blocks /\ n \in Nat
      /\ anc' = [anc EXCEPT ![n + 1] = Line(p)]
      /\ unc' = [unc EXCEPT ![n + 1] = L]
  BY StepBasics
<1>2. TypeOK /\ AncOK /\ RewardedOnce(x)
  BY DEF IInv
<1>3. \A y \in 0 .. n : anc'[y] = anc[y] /\ unc'[y] = unc[y]
  BY <1>1, <1>2 DEF TypeOK, Blocks
<1>4. ChainOf(x) \subseteq 0 .. n
  BY <1>2, ChainImported
<1>5. ChainOf(x)' = ChainOf(x)
  BY <1>3 DEF ChainOf
<1>6. \A a \in ChainOf(x) : unc'[a] = unc[a]
  BY <1>3, <1>4
<1>. QED
  BY <1>2, <1>5, <1>6 DEF RewardedOnce

(* The chain of the new block is its parent's chain and itself; its uncles *)
(* are new to that chain, distinct, and not on it.                         *)
LEMMA StepNew ==
    ASSUME IInv, NEW p \in 0 .. n, NEW L \in UncleLists, NEW f,
           MineAndImport(p, L, f), NEW x, x = n + 1
    PROVE  RewardedOnce(x)'
<1> DEFINE C == ChainOf(p)
<1>1. /\ n + 1 \in Blocks /\ n \in Nat
      /\ anc' = [anc EXCEPT ![n + 1] = Line(p)]
      /\ unc' = [unc EXCEPT ![n + 1] = L]
      /\ VerifyUncles(n + 1, p, L)
  BY StepBasics
<1>2. TypeOK /\ AncOK /\ UncOK /\ RewardedOnce(p)
  BY DEF IInv
<1>3. C \subseteq 0 .. n
  BY <1>2, ChainImported
<1>4. /\ \A a \in C : unc'[a] = unc[a]
      /\ unc'[x] = L
      /\ anc'[x] = Line(p)
  BY <1>1, <1>2, <1>3 DEF TypeOK, Blocks
<1>5. ChainOf(x)' = C \cup {x}
  <2>1. Range(Line(p)) = C
    BY <1>2, LineIsChain
  <2>. QED
    BY <1>4, <2>1 DEF ChainOf
<1>6. /\ DOMAIN L = 1 .. Len(L)
      /\ \A k \in 1 .. Len(L) : L[k] \in 0 .. n
  BY UncleListShape
<1>7. \A a \in C : Range(L) \cap Range(unc[a]) = {}
  <2>1. C = Range(Line(p))
    BY <1>2, LineIsChain
  <2>2. \A k \in 1 .. Len(L), a \in C : L[k] \notin Range(unc[a])
    BY <1>1, <2>1, NotRewardedBefore
  <2>. QED
    BY <1>6, <2>2 DEF Range
<1>8. Range(L) \cap (C \cup {x}) = {}
  <2>1. \A k \in 1 .. Len(L) : L[k] \notin C
    BY <1>1, <1>2, LineIsChain, UncleOffChain
  <2>. QED
    BY <1>1, <1>6, <2>1 DEF Range
<1>9. \A a \in C : Range(unc[a]) \cap (C \cup {x}) = {}
  <2>1. \A a \in C : Range(unc[a]) \cap C = {}
    BY <1>2 DEF RewardedOnce
  <2>2. SUFFICES ASSUME NEW a \in C PROVE x \notin Range(unc[a])
    BY <2>1
  <2>3. unc[a] \in Seq(Blocks)
    BY <1>2, <1>3, BlockTypes
  <2>4. \A k \in 1 .. Len(unc[a]) : unc[a][k] \in 0 .. n
    BY <1>2, <1>3 DEF UncOK
  <2>. QED
    BY <1>1, <2>3, <2>4 DEF Range
<1>10. \A i, j \in 1 .. Len(L) : i # j => L[i] # L[j]
  <2>1. \A k \in 1 .. Len(L) : \A j \in 1 .. k - 1 : L[j] # L[k]
    BY <1>1, UncleFacts
  <2>. QED
    BY <2>1
<1>11. \A a1, a2 \in C \cup {x} :
          a1 # a2 => Range(unc'[a1]) \cap Range(unc'[a2]) = {}
  <2>1. \A a1, a2 \in C : a1 # a2 => Range(unc[a1]) \cap Range(unc[a2]) = {}
    BY <1>2 DEF RewardedOnce
  <2>. QED
    BY <1>4, <1>7, <2>1
<1>12. \A a \in C \cup {x} :
          /\ \A i, j \in 1 .. Len(unc'[a]) : i # j => unc'[a][i] # unc'[a][j]
          /\ Range(unc'[a]) \cap (C \cup {x}) = {}
  <2>1. \A a \in C : \A i, j \in 1 .. Len(unc[a]) : i # j => unc[a][i] # unc[a][j]
    BY <1>2 DEF RewardedOnce
  <2>. QED
    BY <1>4, <1>8, <1>9, <1>10, <2>1
<1>. QED
  BY <1>5, <1>11, <1>12 DEF RewardedOnce

-----------------------------------------------------------------------------
(* The genesis state (no imported blocks, empty ancestor and uncle lists,  *)
(* zero nonces) satisfies the inductive invariant.                         *)
THEOREM InitIInv == Init => IInv
<1> SUFFICES ASSUME Init PROVE IInv
  OBVIOUS
<1>1. EncodeNonce(0) \in Bytes
  BY EncodeBytes
<1>2. TypeOK
  BY <1>1, VerifierAssumption DEF Init, TypeOK, Blocks
<1>3. SealOK
  BY DEF Init, SealOK
<1>4. /\ \A x \in 0 .. n : anc[x] = <<>> /\ unc[x] = <<>>
      /\ 0 .. n = {0}
  BY VerifierAssumption DEF Init, Blocks
<1>5. AncOK /\ UncOK
  BY <1>4 DEF AncOK, UncOK
<1>6. RewardedOnce(0)
  <2>1. ChainOf(0) = {0} /\ Range(unc[0]) = {} /\ Len(unc[0]) = 0
    BY <1>4 DEF ChainOf, Range
  <2>. QED
    BY <2>1 DEF RewardedOnce
<1>. QED
  BY <1>2, <1>3, <1>5, <1>6, <1>4 DEF IInv

(* Every import step, and every stuttering step, keeps the inductive       *)
(* invariant.                                                              *)
THEOREM NextIInv == IInv /\ [Next]_vars => IInv'
<1> SUFFICES ASSUME IInv, [Next]_vars PROVE IInv'
  OBVIOUS
<1>1. CASE Next
  <2>1. PICK p \in 0 .. n, L \in UncleLists, f \in FoundNonces :
               MineAndImport(p, L, f)
    BY <1>1 DEF Next
  <2>2. n' = n + 1
    BY <2>1, StepBasics
  <2>3. \A x \in 0 .. n' : RewardedOnce(x)'
    <3> SUFFICES ASSUME NEW x \in 0 .. n + 1 PROVE RewardedOnce(x)'
      BY <2>2
    <3>1. n \in Nat
      BY <2>1, StepBasics
    <3>2. CASE x \in 0 .. n
      BY <2>1, <3>2, StepOld
    <3>3. CASE x = n + 1
      BY <2>1, <3>3, StepNew
    <3>. QED
      BY <3>1, <3>2, <3>3
  <2>. QED
    BY <2>1, <2>3, StepType, StepSeal, StepAnc, StepUnc DEF IInv
<1>2. CASE UNCHANGED vars
  <2>1. n' = n /\ anc' = anc /\ unc' = unc /\ nonce' = nonce /\ sealed' = sealed
    BY <1>2 DEF vars
  <2>2. TypeOK' /\ SealOK'
    BY <2>1 DEF IInv, TypeOK, SealOK
  <2>3. AncOK' /\ UncOK'
    BY <2>1 DEF IInv, AncOK, UncOK, Height
  <2>4. \A x \in 0 .. n' : RewardedOnce(x)'
    <3> SUFFICES ASSUME NEW x \in 0 .. n PROVE RewardedOnce(x)'
      BY <2>1
    <3>1. RewardedOnce(x)
      BY DEF IInv
    <3>2. RewardedOnce(x)' = RewardedOnce(x)
      BY <2>1 DEF RewardedOnce, ChainOf
    <3>. QED
      BY <3>1, <3>2
  <2>. QED
    BY <2>2, <2>3, <2>4 DEF IInv
<1>. QED
  BY <1>1, <1>2

(* UnclesRewardedOnce: on every chain of imported blocks VerifyUncles      *)
(* lets each uncle be rewarded once and never lets a chain block be an     *)
(* uncle on its own chain, for every Horizon, maxUncles and chain length.  *)
THEOREM UnclesRewardedOnceHolds == Spec => []UnclesRewardedOnce
<1>1. IInv => UnclesRewardedOnce
  <2> SUFFICES ASSUME IInv, NEW b \in 1 .. n PROVE RewardedOnce(b)
    BY Zenon DEF UnclesRewardedOnce, RewardedOnce
  <2>1. b \in 0 .. n
    OBVIOUS
  <2>. QED
    BY <2>1, Zenon DEF IInv
<1>. QED
  BY <1>1, InitIInv, NextIInv, PTL DEF Spec

(* SealVerifyAgree: for every imported block, VerifySeal's reverse-and-    *)
(* copy of header.Nonce yields the nonce field the worker hashed in mine,  *)
(* for every seed the worker starts from.                                  *)
THEOREM SealVerifyAgreeHolds == Spec => []SealVerifyAgree
<1>1. IInv => SealVerifyAgree
  <2> SUFFICES ASSUME IInv, NEW b \in 1 .. n
               PROVE  VerifySealField(nonce[b]) = sealed[b]
    BY DEF SealVerifyAgree
  <2>0. TypeOK
    BY DEF IInv
  <2>1. b \in Blocks
    <3>1. b \in 0 .. n
      OBVIOUS
    <3>. QED
      BY <2>0, <3>1, BlockTypes
  <2>4. nonce[b] \in Bytes
    BY <2>0, <2>1, Zenon DEF TypeOK
  <2>2. ReverseNonce(nonce[b]) = nonce[b]
    BY <2>4, ReverseNonceId
  <2>3. sealed[b] = NonceField(nonce[b])
    BY <2>1 DEF IInv, SealOK
  <2>. QED
    BY <2>2, <2>3 DEF VerifySealField
<1>. QED
  BY <1>1, InitIInv, NextIInv, PTL DEF Spec
=============================================================================
