--------------------------- MODULE CursorsProofs ----------------------------
(* Proofs about the two orders of cursors, for all cursors and not only    *)
(* for those of a sample.  What base64 makes of the digits is not needed:  *)
(* the order of the texts may be any at all.                               *)
EXTENDS MCCursors, TLAPS

Triple == a \in Cursor /\ b \in Cursor /\ c \in Cursor

\* CompareCursors of two readable cursors has the sign of the difference of their
\* indexes, and it is zero for two that cannot be compared.
LEMMA CompareSign ==
  ASSUME NEW x \in Cursor, NEW y \in Cursor
  PROVE  /\ x >= 0 /\ y >= 0 => (CompareCursors(x, y) < 0 <=> x < y)
         /\ Comparable(x, y) => (CompareCursors(x, y) = 0 <=> x = y)
         /\ ~ Comparable(x, y) => CompareCursors(x, y) = 0
  BY DEF Cursor, CompareCursors, Comparable, Index

\* Along a chain of indexes the gaps add up.
LEMMA CompareChain ==
  ASSUME NEW x \in Index, NEW y \in Index, NEW z \in Index
  PROVE  CompareCursors(x, z) = CompareCursors(x, y) + CompareCursors(y, z)
  BY DEF CompareCursors, Index

\* Register only moves a cursor back, whatever the order of the texts.
LEMMA LowersGoesBack ==
  ASSUME NEW x \in Cursor, NEW y \in Cursor
  PROVE  /\ Lowers(x, y) => x = 0 \/ (x \in Index /\ y > x)
         /\ x = 0 /\ y # 0 => Lowers(x, y)
<1>1. ASSUME x = 0, y # 0 PROVE Lowers(x, y)
  <2>1. StringLess(x, y)
    BY <1>1, Zenon DEF StringLess
  <2>2. CompareCursors(x, y) = -1
    BY <1>1 DEF CompareCursors, Cursor, Index
  <2> QED BY <2>1, <2>2 DEF Lowers
<1>2. ASSUME CompareCursors(x, y) < 0 PROVE x = 0 \/ (x \in Index /\ y > x)
  BY <1>2 DEF CompareCursors, Index, Cursor
<1> QED BY <1>1, <1>2 DEF Lowers

LEMMA TripleHolds == Spec => []Triple
<1>1. Init => Triple
  BY DEF Init, Triple, Cursor
<1>2. Triple /\ [Choose]_vars => Triple'
  BY SampleAssumption DEF Triple, Choose, vars
<1> QED BY <1>1, <1>2, PTL DEF Spec

\* CompareCursors is an order of all cursors by index, the empty one first, and it
\* takes unreadable cursors for equal to what they are compared with.
THEOREM ComparesAnyByIndex == Spec => []ComparesByIndex
<1>1. Triple => ComparesByIndex
  BY CompareSign, CompareChain DEF Triple, ComparesByIndex
<1> QED BY <1>1, TripleHolds, PTL

\* The rewind of Register never moves a livesync cursor forward, over any pair of
\* cursors, and always does move it back for a listener that asks for everything.
THEOREM RewindsAnyBack == Spec => []RewindsGoBack
<1>1. Triple => RewindsGoBack
  BY LowersGoesBack DEF Triple, RewindsGoBack
<1> QED BY <1>1, TripleHolds, PTL
=============================================================================
