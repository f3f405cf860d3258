--------------------------- MODULE MCReplication ---------------------------
(* An instance of Replication for TLC: three pages of links, one parser    *)
(* and one bleveparser.                                                    *)
EXTENDS Replication

CONSTANTS p, b

\* Links 2 and 3 have a previous link, the others have none.  At the first place of
\* their pages, 3 is decoded over 1 and 5 over 3; at the second, 4 over a copy of 2,
\* as 2 can be read.
MCParent == [i \in Positions |-> IF i \in {2, 3} THEN i - 1 ELSE 0]
MCOrder  == <<p, b>>
=============================================================================
