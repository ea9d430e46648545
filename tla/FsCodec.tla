-------------------------------- MODULE FsCodec --------------------------------
(***************************************************************************)
(* fsio.c: how numbers and bytes travel as printable characters between a  *)
(* CMS program and the console.  A character is a record of the digit (or, *)
(* for data, the byte) it stands for and of the alphabet it is taken from: *)
(* the last character of an item comes from an alphabet of its own, which  *)
(* is what ends the item.  The code has Base 16 and Digits 8.              *)
(***************************************************************************)
EXTENDS Integers, Sequences

CONSTANTS
    Base,     \* the digits one character can stand for
    Digits    \* characters of the longest number

\* The numbers of Digits digits.
Power[k \in 0 .. Digits] == IF k = 0 THEN 1 ELSE Base * Power[k - 1]
Words == Power[Digits]

\* The numbers of the protocol's own fit, which are return codes up to 4.
ASSUME CodecAssumption == Base \in Nat \ {0, 1} /\ Digits \in Nat \ {0} /\ Words > 8

Signed(u) == IF 2 * u < Words THEN u ELSE u - Words

\* encodeInt(): leading zero digits are left out, negative numbers are not.
EncodeInt(n) ==
    LET left[k \in 0 .. Digits] == IF k = 0 THEN n % Words ELSE left[k - 1] \div Base
        len == CHOOSE k \in 1 .. Digits : left[k] = 0 /\ \A j \in 1 .. k - 1 : left[j] # 0
    IN  [i \in 1 .. len |-> [v |-> left[len - i] % Base, last |-> i = len]]

EncodeInts(ns) ==
    LET text[i \in 0 .. Len(ns)] == IF i = 0 THEN <<>> ELSE text[i - 1] \o EncodeInt(ns[i])
    IN  text[Len(ns)]

Bad == [ok |-> FALSE, val |-> 0, rest |-> <<>>]

\* decodeInt(): at most Digits characters, the sign is that of the full width.
DecodeInt(s) ==
    LET ends == {i \in 1 .. Digits : i =< Len(s) /\ s[i].last}
        len  == CHOOSE i \in ends : \A j \in ends : i =< j
        value[i \in 0 .. len] == IF i = 0 THEN 0 ELSE value[i - 1] * Base + s[i].v
    IN  IF ends = {} THEN Bad
        ELSE [ok |-> TRUE, val |-> Signed(value[len]), rest |-> SubSeq(s, len + 1, Len(s))]

\* encodeData(): nothing at all for no bytes.
EncodeData(bytes) ==
    [i \in DOMAIN bytes |-> [v |-> bytes[i], last |-> i = Len(bytes)]]

\* decodeData() into a target with room for that many bytes, one of which is
\* kept for a closing zero.  It fails when the room is used up first; the
\* bytes that fitted are in the target then.  Behind the end it reads zeros.
DecodeData(s, room) ==
    LET ends == {i \in DOMAIN s : s[i].last}
        len  == IF ends = {} THEN room ELSE CHOOSE i \in ends : \A j \in ends : i =< j
        got  == IF len < room THEN len ELSE IF room > 0 THEN room - 1 ELSE 0
    IN  [ok |-> room > 1 /\ len < room,
         data |-> [i \in 1 .. got |-> IF i \in DOMAIN s THEN s[i].v ELSE 0]]
================================================================================
