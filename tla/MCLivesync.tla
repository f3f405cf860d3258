----------------------------- MODULE MCLivesync -----------------------------
(* Instances of Livesync for TLC.                                          *)
EXTENDS LivesyncRefinement, TLC

CONSTANTS w1, w2, w3, s1, s2

MCWatched1 == <<w1>>
MCWatched2 == <<w1, w2>>

Ask(w, c) == [isNil |-> FALSE, states |-> <<[ID |-> w, Cursor |-> c]>>]
Ask2(w, c, v, d) ==
  [isNil |-> FALSE, states |-> <<[ID |-> w, Cursor |-> c], [ID |-> v, Cursor |-> d]>>]

\* The parser and the bleveparser: both pass nil.
MCNilRequests == {NilRequest}

\* Services that ask for all that is watched, for the whole or a part of a watched
\* workflow, for one that is not watched yet, for one the API does not know, or with a
\* cursor that cannot be read.
MCRequests ==
  {NilRequest, Ask(w1, 1), Ask(w1, 3), Ask2(w1, 0, w2, 2), Ask(w3, 0), Ask(w1, BadHigh),
   Ask(w2, BadLow)}

\* A service that comes late and asks for an update of the past.
MCPastRequests == {NilRequest, Ask(w1, 3)}

Symmetry == Permutations(Services)
=============================================================================
