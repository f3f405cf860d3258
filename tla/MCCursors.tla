----------------------------- MODULE MCCursors -----------------------------
(* Triples of cursors, chosen anew at every step, so that TLC meets every  *)
(* combination of Sample.                                                  *)
EXTENDS Cursors

CONSTANT Sample     \* the cursors compared

ASSUME SampleAssumption == Sample \subseteq Cursor

MCSample == {BadHigh, BadLow, 0, 1, 2, 3, 4, 9, 10, 12, 13, 25, 99, 100, 109}

VARIABLES a, b, c
vars == <<a, b, c>>

Init == a = 0 /\ b = 0 /\ c = 0
Choose == a' \in Sample /\ b' \in Sample /\ c' \in Sample
Spec == Init /\ [][Choose]_vars

\* CompareCursors orders readable cursors by index, the empty string first, and
\* its gaps agree with each other along a chain; an unreadable text, compared
\* with a text, gives the gap 0 that makes pollAndNotify skip the listener.
ComparesByIndex ==
  IF Comparable(a, b)
    THEN /\ a >= 0 /\ b >= 0 => (CompareCursors(a, b) < 0 <=> a < b)
         /\ CompareCursors(a, b) = 0 <=> a = b
         /\ {a, b, c} \subseteq Index =>
              CompareCursors(a, c) = CompareCursors(a, b) + CompareCursors(b, c)
    ELSE CompareCursors(a, b) = 0

\* The two guards of Register's rewind (livesync.go:78-86), string order and then
\* index order, never move a livesync cursor forward: a readable cursor is only
\* replaced by an earlier one, and an unreadable one only by the empty string.  The
\* string pre-check alone would move it forward: it puts index 10 before index 2.
\* A listener that asks for everything always rewinds.
RewindsGoBack ==
  /\ Lowers(a, b) => a = 0 \/ (a \in Index /\ b > a)
  /\ a = 0 /\ b # 0 => Lowers(a, b)
=============================================================================
