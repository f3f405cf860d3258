---------------------------- MODULE Replication ----------------------------
(***************************************************************************)
(* What the parser and the bleveparser keep of the links of one workflow,  *)
(* with the memory that livesync shares with them.                         *)
(*                                                                         *)
(* pollAndNotify decodes all the pages of a poll into one rsp variable.    *)
(* encoding/json decodes an array into the elements that the slice already *)
(* has, and an object into the Link that a non-nil pointer already points  *)
(* to: a field missing from the JSON text keeps its value.  The segments   *)
(* sent to the listeners hold those same pointers, and are read while the  *)
(* poller goes on.  Module Livesync says which links are sent, and when;   *)
(* this one follows what is in them.                                       *)
(*                                                                         *)
(* Link i is the one at position i of the workflow, and i stands for its   *)
(* hash.  Its content is the position its required fields come from, an    *)
(* optional field (the previous link's hash; 0 when the field is absent),  *)
(* and whether its data are decrypted.                                     *)
(***************************************************************************)
EXTENDS Integers, Sequences

CONSTANTS
  MaxLinks,     \* bound: links in the workflow
  MaxFailures,  \* bound: answers that come with an error
  Pagination,   \* DefaultPagination
  Parent,       \* the optional field of each link
  Readable,     \* the links the decryption service can decrypt, or finds in the clear
  Parsers,      \* listeners that keep links as the parser does
  Indexers,     \* listeners that keep links as the bleveparser does
  Order         \* all listeners, in the order they registered

Positions == 1 .. MaxLinks
Listeners == Parsers \cup Indexers

ASSUME BoundsAssumption ==
  MaxLinks \in Nat /\ MaxFailures \in Nat /\ Pagination \in Nat \ {0}
ASSUME ParentAssumption == Parent \in [Positions -> Nat]
ASSUME ReadableAssumption == Readable \subseteq Positions
ASSUME OrderAssumption ==
  /\ Parsers \cap Indexers = {}
  /\ Order \in Seq(Listeners)
  /\ \A l \in Listeners : \E n \in 1 .. Len(Order) : Order[n] = l

Content == [from : Positions, parent : Nat, plain : BOOLEAN]
Missing == [from |-> 0, parent |-> 0, plain |-> FALSE]

\* A link as the Trace API returns it, and as a reader allowed to should see it.
Original(i) == [from |-> i, parent |-> Parent[i], plain |-> FALSE]
Decrypted(i) == [Original(i) EXCEPT !.plain = i \in Readable]

VARIABLES
  published,   \* API: how many links there are
  cursor,      \* w.Cursor
  pc,          \* where the poller is
  heap,        \* the Link objects; their index is their address
  raw,         \* the Raw pointers of rsp's edges, those of earlier pages included
  last,        \* the position of the last link of the page
  answered,    \* API: how many links there were when it answered
  decoded,     \* how many edges of the page are decoded
  toNotify,    \* the listeners that have yet to receive the page
  failures,    \* how many answers came with an error
  inbox,       \* the segments each listener has received and not yet handled
  marshaled,   \* indexLink: the raw text of the segment in hand
  batch,       \* saveSegments: the documents of the batch
  gone,        \* the listeners that stopped on an error
  store,       \* what the parsers put under each link hash
  index,       \* the documents of the indexers
  reused       \* history: the links whose object was decoded into for two links

pollVars == <<cursor, pc, heap, raw, last, answered, decoded, toNotify,
              failures, reused>>
listenerVars == <<inbox, marshaled, batch, gone, store, index>>
vars == <<published, pollVars, listenerVars>>

Segment  == [link : Nat, hash : Positions]
Document == [key : Content, raw : Content, hash : Positions]

Init ==
  /\ published = 0
  /\ cursor = 0
  /\ pc = "idle"
  /\ heap = << >>
  /\ raw = << >>
  /\ last = 0
  /\ answered = 0
  /\ decoded = 0
  /\ toNotify = << >>
  /\ inbox = [l \in Listeners |-> << >>]
  /\ marshaled = [l \in Indexers |-> Missing]
  /\ batch = [l \in Indexers |-> {}]
  /\ gone = {}
  /\ store = [l \in Parsers |-> [i \in Positions |-> Missing]]
  /\ index = [l \in Indexers |-> {}]
  /\ failures = 0
  /\ reused = {}

Publish ==
  /\ published < MaxLinks
  /\ published' = published + 1
  /\ UNCHANGED <<pollVars, listenerVars>>

-----------------------------------------------------------------------------
(* The poller.                                                             *)

\* A tick: rsp is fresh, its edges empty.
StartPoll ==
  /\ pc = "idle"
  /\ raw' = << >>
  /\ pc' = "call"
  /\ UNCHANGED <<published, cursor, heap, last, answered, decoded, toNotify, failures, reused,
                 listenerVars>>

\* Mutant: the query has no limit.
Respond_NoLimit ==
  /\ pc = "call"
  /\ IF published > cursor
       THEN /\ last' = published
            /\ answered' = published
            /\ decoded' = 0
            /\ pc' = "decode"
       ELSE /\ pc' = "idle"
            /\ UNCHANGED <<last, answered, decoded>>
  /\ UNCHANGED <<published, cursor, heap, raw, toNotify, failures, reused,
                 listenerVars>>

\* The API answers with a page of the links after the cursor, or with none.
Respond ==
  /\ pc = "call"
  /\ IF published > cursor
       THEN /\ last' = IF cursor + Pagination < published
                         THEN cursor + Pagination ELSE published
            /\ answered' = published
            /\ decoded' = 0
            /\ pc' = "decode"
       ELSE /\ pc' = "idle"
            /\ UNCHANGED <<last, answered, decoded>>
  /\ UNCHANGED <<published, cursor, heap, raw, toNotify, failures, reused,
                 listenerVars>>

\* The call returns an error: it has no answer ...
APIFails ==
  /\ pc = "call"
  /\ pc' = "idle"
  /\ UNCHANGED <<published, cursor, heap, raw, last, answered, decoded, toNotify, failures,
                 reused, listenerVars>>

\* ... or one with an error in it, after its data are decoded in part.
AnswerFails ==
  /\ pc = "decode"
  /\ failures < MaxFailures
  /\ failures' = failures + 1
  /\ pc' = "idle"
  /\ UNCHANGED <<published, cursor, heap, raw, last, answered, decoded, toNotify, reused,
                 listenerVars>>

\* A decoded object: the fields of the text, and the old ones it does not mention.
Merge(old, new) ==
  [new EXCEPT !.parent = IF new.parent = 0 THEN old.parent ELSE new.parent]

\* The next edge of the page.  An element that the slice holds from an earlier page
\* keeps its pointer, and the pointer its object.
Decode ==
  /\ pc = "decode"
  /\ cursor + decoded < last
  /\ LET k == decoded + 1
         i == cursor + k
     IN  IF k <= Len(raw)
           THEN /\ heap' = [heap EXCEPT ![raw[k]] = Merge(@, Original(i))]
                /\ reused' = reused \cup {i, heap[raw[k]].from}
                /\ UNCHANGED raw
           ELSE /\ heap' = Append(heap, Original(i))
                /\ raw' = Append(raw, Len(heap) + 1)
                /\ UNCHANGED reused
  /\ decoded' = decoded + 1
  /\ UNCHANGED <<published, cursor, pc, last, answered, toNotify, failures, listenerVars>>

\* CallTraceGql decrypts the links of the page that it can: each is copied, and the
\* edge then points to the copy.  The copies of the others are dropped.
Decrypt ==
  /\ pc = "decode"
  /\ cursor + decoded = last
  /\ LET mine == {k \in 1 .. decoded : cursor + k \in Readable}
         new(k) == Len(heap) + k
     IN  /\ raw' = [k \in 1 .. Len(raw) |-> IF k \in mine THEN new(k) ELSE raw[k]]
         /\ heap' = heap \o [k \in 1 .. decoded |->
                               [heap[raw[k]] EXCEPT !.plain = k \in mine]]
  /\ cursor' = last
  /\ toNotify' = Order
  /\ pc' = "notify"
  /\ UNCHANGED <<published, last, answered, decoded, failures, reused, listenerVars>>

\* Mutants: the channel is buffered; a busy listener is skipped.
Send_Buffered ==
  /\ pc = "notify"
  /\ toNotify # << >>
  /\ Head(toNotify) \notin gone
  /\ inbox' = [inbox EXCEPT ![Head(toNotify)] = @ \o
                 [k \in 1 .. decoded |->
                    [link |-> raw[k], hash |-> last - decoded + k]]]
  /\ toNotify' = Tail(toNotify)
  /\ UNCHANGED <<published, cursor, pc, heap, raw, last, answered, decoded, failures,
                 reused, marshaled, batch, gone, store, index>>
Send_SkipsBusy ==
  /\ pc = "notify"
  /\ toNotify # << >>
  /\ LET l == Head(toNotify)
     IN  inbox' = IF l \in gone \/ inbox[l] # << >> THEN inbox
                  ELSE [inbox EXCEPT ![l] =
                          [k \in 1 .. decoded |->
                             [link |-> raw[k], hash |-> last - decoded + k]]]
  /\ toNotify' = Tail(toNotify)
  /\ UNCHANGED <<published, cursor, pc, heap, raw, last, answered, decoded, failures,
                 reused, marshaled, batch, gone, store, index>>

\* Slice makes new segments, with link hashes of their own and the links of rsp.  The
\* listener receives when it has handled what it received before.
Send ==
  /\ pc = "notify"
  /\ toNotify # << >>
  /\ LET l == Head(toNotify)
     IN  /\ l \notin gone
         /\ inbox[l] = << >>
         /\ l \in Indexers => batch[l] = {}
         /\ inbox' = [inbox EXCEPT ![l] =
                        [k \in 1 .. decoded |->
                           [link |-> raw[k], hash |-> last - decoded + k]]]
  /\ toNotify' = Tail(toNotify)
  /\ UNCHANGED <<published, cursor, pc, heap, raw, last, answered, decoded, failures,
                 reused, marshaled, batch, gone, store, index>>

HasNextPage == last < answered

\* All listeners have the page; the next one is decoded into the same rsp.
NextPage ==
  /\ pc = "notify"
  /\ toNotify = << >>
  /\ pc' = IF HasNextPage THEN "call" ELSE "idle"
  /\ UNCHANGED <<published, cursor, heap, raw, last, answered, decoded, toNotify, failures, reused,
                 listenerVars>>

-----------------------------------------------------------------------------
(* The listeners.  A link is read when it is handled.                      *)

\* Mutant: every Put takes the address of the loop's last segment.
Put_LastSegment(l) ==
  /\ inbox[l] # << >>
  /\ store' = [store EXCEPT ![l][Head(inbox[l]).hash] =
                 heap[inbox[l][Len(inbox[l])].link]]
  /\ inbox' = [inbox EXCEPT ![l] = Tail(@)]
  /\ UNCHANGED <<published, pollVars, marshaled, batch, gone, index>>

\* saveLinks: one Put per segment, under the hash the segment came with.
Put(l) ==
  /\ inbox[l] # << >>
  /\ store' = [store EXCEPT ![l][Head(inbox[l]).hash] = heap[Head(inbox[l]).link]]
  /\ inbox' = [inbox EXCEPT ![l] = Tail(@)]
  /\ UNCHANGED <<published, pollVars, marshaled, batch, gone, index>>

\* indexLink reads the link twice: for the raw text ...
Marshal(l) ==
  /\ inbox[l] # << >>
  /\ marshaled[l] = Missing
  /\ marshaled' = [marshaled EXCEPT ![l] = heap[Head(inbox[l]).link]]
  /\ UNCHANGED <<published, pollVars, inbox, batch, gone, store, index>>

\* ... and for the key, the hash of its content.
IndexLink(l) ==
  /\ inbox[l] # << >>
  /\ marshaled[l] # Missing
  /\ LET s   == Head(inbox[l])
         doc == [key |-> heap[s.link], raw |-> marshaled[l], hash |-> s.hash]
     IN  batch' = [batch EXCEPT ![l] = {d \in @ : d.key # doc.key} \cup {doc}]
  /\ inbox' = [inbox EXCEPT ![l] = Tail(@)]
  /\ marshaled' = [marshaled EXCEPT ![l] = Missing]
  /\ UNCHANGED <<published, pollVars, gone, store, index>>

\* The documents of a batch are stored together.
CommitBatch(l) ==
  /\ inbox[l] = << >>
  /\ batch[l] # {}
  /\ index' = [index EXCEPT ![l] =
                 {d \in @ : \A e \in batch[l] : d.key # e.key} \cup batch[l]]
  /\ batch' = [batch EXCEPT ![l] = {}]
  /\ UNCHANGED <<published, pollVars, inbox, marshaled, gone, store>>

\* An error of the store or of the encoding ends the listener, with what it has done.
Fail(l) ==
  /\ l \notin gone
  /\ inbox[l] # << >> \/ (l \in Indexers /\ batch[l] # {})
  /\ gone' = gone \cup {l}
  /\ inbox' = [inbox EXCEPT ![l] = << >>]
  /\ batch' = [m \in Indexers |-> IF m = l THEN {} ELSE batch[m]]
  /\ UNCHANGED <<published, pollVars, marshaled, store, index>>

pollAndNotify ==
  StartPoll \/ Respond \/ APIFails \/ AnswerFails \/ Decode \/ Decrypt \/ Send \/ NextPage

Next ==
  \/ Publish
  \/ pollAndNotify
  \/ \E l \in Parsers : Put(l)
  \/ \E l \in Indexers : Marshal(l) \/ IndexLink(l) \/ CommitBatch(l)
  \/ \E l \in Listeners : Fail(l)

Spec == Init /\ [][Next]_vars

-----------------------------------------------------------------------------
(* Properties.                                                             *)

TypeOK ==
  /\ published \in 0 .. MaxLinks
  /\ cursor \in 0 .. published
  /\ pc \in {"idle", "call", "decode", "notify"}
  /\ heap \in Seq(Content)
  /\ raw \in Seq(1 .. Len(heap))
  /\ last \in 0 .. published
  /\ answered \in last .. published
  /\ decoded \in 0 .. Pagination
  /\ toNotify \in Seq(Listeners)
  /\ failures \in 0 .. MaxFailures
  /\ inbox \in [Listeners -> Seq(Segment)]
  /\ marshaled \in [Indexers -> Content \cup {Missing}]
  /\ batch \in [Indexers -> SUBSET Document]
  /\ gone \subseteq Listeners
  /\ store \in [Parsers -> [Positions -> Content \cup {Missing}]]
  /\ index \in [Indexers -> SUBSET Document]
  /\ reused \subseteq Positions

\* A link whose object served no other link is kept as it is: the parser has its
\* fields under its hash, and the document of the indexer has its text and its key.
\* Only what a poll of several pages decodes into the same objects can be wrong.
FaithfulUnlessReused ==
  \A i \in Positions \ reused :
    /\ \A l \in Parsers : store[l][i] \in {Missing, Decrypted(i)}
    /\ \A l \in Indexers : \A d \in index[l] :
         d.hash = i => d.raw = Decrypted(i) /\ d.key = Decrypted(i)

\* The poller is never more than a page ahead of a listener, because its channel is
\* not buffered: what is under a link's hash comes from that link, or from the one
\* at the same place of the next page.
AtMostOnePageAhead ==
  \A l \in Parsers : \A i \in Positions :
    store[l][i].from \in {0, i, i + Pagination}

\* A listener that has handled what it received has kept every link sent to it, in
\* the parser's store under its hash; the index may lack a link whose object was
\* reused, as it then takes the key of another.
SentUpTo(l) ==
  IF \E k \in 1 .. Len(toNotify) : toNotify[k] = l THEN last - decoded ELSE cursor

NothingSkipped ==
  \A l \in Listeners \ gone :
    /\ l \in Parsers /\ inbox[l] = << >> =>
         \A i \in 1 .. SentUpTo(l) : store[l][i] # Missing
    /\ l \in Indexers /\ inbox[l] = << >> /\ batch[l] = {} =>
         \A i \in (1 .. SentUpTo(l)) \ reused : \E d \in index[l] : d.hash = i

\* parser.go:28: saveLinks stores the links, indexed by linkHash.
StoredUnderItsHash ==
  \A l \in Parsers : \A i \in Positions : store[l][i] \in {Missing, Decrypted(i)}
=============================================================================
