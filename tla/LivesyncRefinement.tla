------------------------- MODULE LivesyncRefinement -------------------------
(***************************************************************************)
(* Livesync implements the feed of module LivesyncFeed.  The feed of a     *)
(* listener is what it received; what the abstract specification knows of  *)
(* a registration is what Register promises.  All the rest of livesync's   *)
(* state has no counterpart.                                               *)
(***************************************************************************)
EXTENDS Livesync

Feed == INSTANCE LivesyncFeed WITH
  published <- links,
  feed <- received,
  start <- promised

\* Each step of livesync is a step of the feed or none: over pages, polls, failed calls
\* (livesync.go:104-157) and registrations (69-102), nothing is left out, repeated or
\* reordered from the position a listener asked for.
FeedSpec == Feed!Spec
=============================================================================
