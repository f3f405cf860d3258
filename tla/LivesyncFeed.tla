---------------------------- MODULE LivesyncFeed ----------------------------
(***************************************************************************)
(* What livesync promises to a listener, with no poller, page, batch or    *)
(* cursor: from the position its registration fixes, it receives the links *)
(* of a workflow in order, each once and none left out, and only links     *)
(* that exist.  Nothing is said about how many come at a time.             *)
(***************************************************************************)
EXTENDS Integers, Sequences

CONSTANTS Workflows, Services, NoPromise

VARIABLES
  published,   \* the links of a workflow are 1 .. published[w]
  feed,        \* the links each listener received of each workflow
  start        \* the positions between which that feed may start

vars == <<published, feed, start>>

Init ==
  /\ published = [w \in Workflows |-> 0]
  /\ feed = [s \in Services |-> [w \in Workflows |-> << >>]]
  /\ start = [s \in Services |-> [w \in Workflows |-> NoPromise]]

Publish(w) ==
  /\ published' = [published EXCEPT ![w] = @ + 1]
  /\ UNCHANGED <<feed, start>>

\* A listener subscribes once, to the workflows of its choice.
Subscribe(s) ==
  /\ \A w \in Workflows :
       /\ start[s][w] = NoPromise
       /\ \/ start'[s][w] = NoPromise
          \/ 0 <= start'[s][w].from /\ start'[s][w].from <= start'[s][w].upTo
  /\ \A t \in Services \ {s} : start'[t] = start[t]
  /\ UNCHANGED <<published, feed>>

\* The first link to come may be the one after the last, or be where the registration
\* allows the feed to start.
MayFollow(s, w) ==
  LET past == feed[s][w]
  IN  IF past = << >> THEN start[s][w].from + 1 .. start[s][w].upTo + 1
                      ELSE {past[Len(past)] + 1}

\* Existing links arrive, one or several at a time, and join those of before.
Deliver(s, w) ==
  /\ start[s][w] # NoPromise
  /\ feed'[s][w] # feed[s][w]
  /\ \E first \in MayFollow(s, w) : \E last \in first .. published[w] :
       feed' = [feed EXCEPT ![s][w] = @ \o [i \in 1 .. last + 1 - first |-> first + i - 1]]
  /\ UNCHANGED <<published, start>>

Next ==
  \/ \E w \in Workflows : Publish(w)
  \/ \E s \in Services : Subscribe(s) \/ \E w \in Workflows : Deliver(s, w)

Spec == Init /\ [][Next]_vars
=============================================================================
