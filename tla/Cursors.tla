------------------------------ MODULE Cursors ------------------------------
(***************************************************************************)
(* Relay cursors as services/livesync handles them.                        *)
(*                                                                         *)
(* A cursor is the empty string or the standard base64 text of a JSON      *)
(* array <<"natural", n>>.  The model keeps the index: 0 stands for the    *)
(* empty string and n >= 1 for the text that encodes n.  Two unreadable    *)
(* texts, those of services/livesync/service_test.go, stand for the others:*)
(* one that Go's string order puts below every encoded cursor and one that *)
(* it puts above.  The code orders cursors in two ways, as strings and by  *)
(* index, and both are kept because they disagree.                         *)
(***************************************************************************)
EXTENDS Integers, Sequences

BadLow  == -1   \* the base64 text of ["wow"]: decodes, but holds no index
BadHigh == -2   \* the text "wow": not base64 at all
Cursor  == {c \in Int : c >= -2}
Index   == Nat \ {0}

-----------------------------------------------------------------------------
(* The encoded text of an index.                                           *)

\* The ASCII codes of the decimal digits of n.
Digits[n \in Nat] ==
  IF n < 10 THEN <<48 + n>> ELSE Append(Digits[n \div 10], 48 + (n % 10))

\* The bytes of the JSON text from its tenth on: quote, comma, digits, bracket.
\* The nine bytes before are the same in all cursors and end on a base64 group.
Tail3(n) == <<34, 44>> \o Digits[n] \o <<93>>

\* The i-th six-bit group of the byte sequence b, padded with zero bits.
Sextet(b, i) ==
  LET bit  == 6 * (i - 1)
      j    == (bit \div 8) + 1
      next == IF j < Len(b) THEN b[j + 1] ELSE 0
  IN  ((b[j] * 256 + next) \div 2^(10 - (bit % 8))) % 64

\* The ASCII code of the letter that stands for a six-bit group.
Letter(v) ==
  CASE v < 26             -> 65 + v
    [] v \in 26 .. 51     -> 71 + v
    [] v \in 52 .. 61     -> v - 4
    [] v = 62             -> 43
    [] OTHER              -> 47

\* base64.StdEncoding: four letters for each three bytes, padded with '='.
Base64(b) ==
  [i \in 1 .. 4 * ((Len(b) + 2) \div 3) |->
     IF 6 * (i - 1) < 8 * Len(b) THEN Letter(Sextet(b, i)) ELSE 61]

Text(n) == Base64(Tail3(n))

\* s comes before t in the byte order of Go strings.
Before(s, t) ==
  \/ /\ Len(s) < Len(t)
     /\ \A i \in 1 .. Len(s) : s[i] = t[i]
  \/ \E k \in 1 .. Len(s) :
       /\ k <= Len(t)
       /\ s[k] < t[k]
       /\ \A i \in 1 .. k - 1 : s[i] = t[i]

-----------------------------------------------------------------------------
(* The two orders.                                                         *)

\* strings.Compare(a, b) == -1.
StringLess(a, b) ==
  \/ a = 0      /\ b # 0
  \/ a = BadLow /\ b \in Index \cup {BadHigh}
  \/ b = BadHigh /\ a \in Index
  \/ a \in Index /\ b \in Index /\ Before(Text(a), Text(b))

\* CompareCursors(a, b) returns no error.
Comparable(a, b) == a = 0 \/ b = 0 \/ (a \in Index /\ b \in Index)

\* Mutant: the operands of the subtraction are swapped.
CompareCursors_Swapped(a, b) ==
  CASE a = 0 /\ b = 0             -> 0
    [] a = 0 /\ b # 0             -> -1
    [] a # 0 /\ b = 0             -> 1
    [] a \in Index /\ b \in Index -> b - a
    [] OTHER                      -> 0

\* The integer CompareCursors(a, b) returns; 0 when it returns an error too.
CompareCursors(a, b) ==
  CASE a = 0 /\ b = 0            -> 0
    [] a = 0 /\ b # 0            -> -1
    [] a # 0 /\ b = 0            -> 1
    [] a \in Index /\ b \in Index -> a - b
    [] OTHER                     -> 0

\* Mutants: the index is not compared; the cursor is never moved back.
Lowers_ByStringOnly(a, b) == StringLess(a, b)
Lowers_Never(a, b) == FALSE

\* Register moves a livesync cursor b back to the requested cursor a.
Lowers(a, b) == StringLess(a, b) /\ CompareCursors(a, b) < 0
=============================================================================
