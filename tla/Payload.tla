------------------------------ MODULE Payload ------------------------------
(***************************************************************************)
(* The nonce handling of the mining payload (src/consensus/amhash):        *)
(* combinationData's nonce field, the byte-order helper Reverse and the    *)
(* "reverse the nonce" idiom that mine, VerifySeal and combinationData all *)
(* use:                                                                     *)
(*     bytnonce, _ := h.Nonce.MarshalText()                                 *)
(*     Reverse(bytnonce)                                                    *)
(*     h.Nonce.UnmarshalText(bytnonce)                                      *)
(* Reverse reverses its slice in place, here the hex TEXT of the nonce      *)
(* including its "0x" prefix; UnmarshalText's error is discarded.           *)
(*                                                                         *)
(* The other 76 bytes of the payload (header hash, AI hash, zero fields)   *)
(* do not depend on the nonce and are the same wherever the payload is     *)
(* built for one header, so the payload is represented by its nonce field. *)
(*                                                                         *)
(* BlockNonce, EncodeNonce, MarshalText and UnmarshalText are not in this  *)
(* repository (go-ethereum core/types and common/hexutil); they are        *)
(* modelled from their contract: a nonce is an 8-byte big-endian word, its *)
(* text is "0x" and 16 lower-case hex digits, and UnmarshalText accepts    *)
(* only "0x"-prefixed text of exactly 16 digits, leaving the nonce         *)
(* unchanged otherwise.                                                    *)
(***************************************************************************)
EXTENDS Naturals, Sequences

Hex == <<"0", "1", "2", "3", "4", "5", "6", "7",
         "8", "9", "a", "b", "c", "d", "e", "f">>

NonceLen == 8

(* EncodeNonce(n): the 8-byte big-endian word of n, for n < 2^24 (the     *)
(* upper five bytes are then zero; TLC's integers are 32-bit).             *)
EncodeNonce(n) ==
    [i \in 1 .. NonceLen |-> IF i <= NonceLen - 3 THEN 0
                             ELSE (n \div 256 ^ (NonceLen - i)) % 256]

(* MarshalText: "0x" followed by two hex digits per byte.                  *)
MarshalText(b) ==
    <<"0", "x">> \o [i \in 1 .. 2 * Len(b) |->
                        LET byte == b[(i + 1) \div 2]
                        IN  IF i % 2 = 1 THEN Hex[byte \div 16 + 1]
                                         ELSE Hex[(byte % 16) + 1]]

DigitOf(c) == CHOOSE d \in 0 .. 15 : Hex[d + 1] = c

(* UnmarshalText(text) into a nonce that holds old: the decoded word, or   *)
(* old when hexutil rejects the text (missing prefix, wrong length or a    *)
(* non-hex digit).                                                         *)
UnmarshalText(text, old) ==
    IF /\ Len(text) = 2 + 2 * NonceLen
       /\ text[1] = "0" /\ text[2] \in {"x", "X"}
       /\ \A i \in 3 .. Len(text) : text[i] \in {Hex[d] : d \in 1 .. 16}
    THEN [i \in 1 .. NonceLen |-> 16 * DigitOf(text[2 * i + 1])
                                  + DigitOf(text[2 * i + 2])]
    ELSE old

(* Mutant: a Reverse that keeps a leading "0x" in place and reverses only  *)
(* the digits after it.                                                    *)
ReverseDigits(s) ==
    IF Len(s) >= 2 /\ s[1] = "0" /\ s[2] = "x"
       THEN <<"0", "x">> \o [i \in 1 .. Len(s) - 2 |-> s[Len(s) - i + 1]]
       ELSE [i \in 1 .. Len(s) |-> s[Len(s) - i + 1]]

(* Reverse(s): swaps s[i] and s[j] from both ends inwards, in place.       *)
Reverse(s) == [i \in 1 .. Len(s) |-> s[Len(s) - i + 1]]

(* The idiom MarshalText; Reverse; UnmarshalText applied to a nonce.       *)
ReverseNonce(b) == UnmarshalText(Reverse(MarshalText(b)), b)

(* combinationData's nonce field (payload bytes 76..79) for a header whose *)
(* nonce is b: it reverses a copy's nonce; uint32(Nonce.Uint64()) keeps    *)
(* the low four bytes and uint32ToBytes writes them big-endian, so the     *)
(* field is the last four bytes of the reversed nonce, as they are.        *)
NonceField(b) == LET r == ReverseNonce(b) IN SubSeq(r, NonceLen - 3, NonceLen)
====
