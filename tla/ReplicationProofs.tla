------------------------- MODULE ReplicationProofs --------------------------
(* Proofs about Replication, for any number of links, any page size, any   *)
(* listeners, and whatever decryption can read.                            *)
EXTENDS Replication, SequenceTheorems, TLAPS

USE BoundsAssumption

-----------------------------------------------------------------------------
(* The inductive invariant.                                                *)

\* The segments that a listener has received and not yet handled.
Held(l) == {inbox[l][m] : m \in 1 .. Len(inbox[l])}

\* A listener that has yet to receive the page, and one that registered at all.
Awaits(l) == \E n \in 1 .. Len(toNotify) : toNotify[n] = l
Registered(l) == \E n \in 1 .. Len(Order) : Order[n] = l

\* Where the poller is in its pages: only a full page is followed by another.
PollInv ==
  /\ Len(raw) <= Pagination
  /\ \A j, k \in 1 .. Len(raw) : raw[j] = raw[k] => j = k
  /\ pc # "notify" => toNotify = << >>
  /\ \A n \in 1 .. Len(toNotify) : Registered(toNotify[n])
  /\ pc = "call" => Len(raw) = 0 \/ (Len(raw) = Pagination /\ Pagination <= cursor)
  /\ pc = "decode" =>
       /\ cursor + decoded <= last /\ last <= cursor + Pagination
       /\ HasNextPage => last = cursor + Pagination
       /\ Len(raw) = decoded \/ (Len(raw) = Pagination /\ Pagination <= cursor)
  /\ pc = "notify" =>
       /\ cursor = last /\ decoded <= Len(raw) /\ decoded <= cursor
       /\ HasNextPage => decoded = Pagination

\* The k-th object of rsp is still that of the page before; or of the page in hand.
Old(k) == pc = "call" \/ (pc = "decode" /\ k > decoded)
New(k) == pc = "notify" /\ k <= decoded

\* An object at address a that is of link i, and of no other if i is not reused.
Holds(a, i, content) ==
  /\ heap[a].from = i
  /\ i \notin reused => heap[a] = content

\* What is in the objects of rsp.
SlotsInv ==
  \A k \in 1 .. Len(raw) :
    /\ Old(k) => Holds(raw[k], cursor - Pagination + k, Decrypted(cursor - Pagination + k))
    /\ pc = "decode" /\ k <= decoded => Holds(raw[k], cursor + k, Original(cursor + k))
    /\ New(k) => Holds(raw[k], cursor - decoded + k, Decrypted(cursor - decoded + k))

\* What a listener will read: its link, or the one decoded over it, and the latter only
\* when a page has come since, which it has not yet been sent.
InboxInv ==
  \A l \in Listeners :
    /\ l \in gone \/ ~ Registered(l) => inbox[l] = << >>
    /\ \A s \in Held(l) :
         /\ s.link \in 1 .. Len(heap)
         /\ heap[s.link].from \in {s.hash, s.hash + Pagination}
         /\ s.hash \notin reused => heap[s.link] = Decrypted(s.hash)
         /\ \A k \in 1 .. Len(raw) :
              raw[k] = s.link /\ (Old(k) \/ (New(k) /\ ~ Awaits(l))) =>
                heap[s.link].from = s.hash

\* A document is faithful unless its link is reused.
Faithful(d) ==
  d.hash \notin reused => d.raw = Decrypted(d.hash) /\ d.key = Decrypted(d.hash)

\* What an indexer has in hand.
IndexerInv ==
  \A l \in Indexers :
    /\ inbox[l] = << >> /\ l \notin gone => marshaled[l] = Missing
    /\ marshaled[l] # Missing /\ inbox[l] # << >> /\ Head(inbox[l]).hash \notin reused =>
         marshaled[l] = Decrypted(Head(inbox[l]).hash)
    /\ \A d \in batch[l] : Faithful(d)

KeptInv == IndexerInv /\ AtMostOnePageAhead /\ FaithfulUnlessReused

ReplicationInv == TypeOK /\ PollInv /\ SlotsInv /\ InboxInv /\ KeptInv

-----------------------------------------------------------------------------
(* The start, and the steps of the poller that touch no object.            *)

LEMMA InitInv == Init => ReplicationInv
<1> SUFFICES ASSUME Init PROVE ReplicationInv
  OBVIOUS
<1>1. TypeOK
  <2>1. \A S : << >> \in Seq(S)
    OBVIOUS
  <2>2. 0 \in 0 .. MaxLinks /\ 0 \in 0 .. 0 /\ 0 \in 0 .. Pagination /\ 0 \in 0 .. MaxFailures
    OBVIOUS
  <2>3. inbox \in [Listeners -> Seq(Segment)] /\ batch \in [Indexers -> SUBSET Document]
        /\ marshaled \in [Indexers -> Content \cup {Missing}]
        /\ store \in [Parsers -> [Positions -> Content \cup {Missing}]]
        /\ index \in [Indexers -> SUBSET Document]
    BY <2>1 DEF Init
  <2> QED BY <2>1, <2>2, <2>3 DEF Init, TypeOK
<1>2. PollInv /\ SlotsInv
  BY DEF Init, PollInv, SlotsInv
<1>3. InboxInv
  BY DEF Init, InboxInv, Held, Listeners
<1>4. IndexerInv
  BY DEF Init, IndexerInv, Listeners
<1>5. AtMostOnePageAhead
  BY DEF Init, AtMostOnePageAhead, Missing
<1>6. FaithfulUnlessReused
  BY DEF Init, FaithfulUnlessReused
<1> QED BY <1>1, <1>2, <1>3, <1>4, <1>5, <1>6 DEF ReplicationInv, KeptInv

\* What the listeners hold stays what it is when the objects do, and when no more of the
\* objects of rsp are to be decoded over, or are of the page in hand, than before.
LEMMA ListenerFrame ==
  ASSUME ReplicationInv, UNCHANGED <<heap, reused, listenerVars>>,
         raw' = raw \/ Len(raw') = 0,
         \A k \in 1 .. Len(raw'), l \in Listeners :
           Old(k)' \/ (New(k)' /\ ~ Awaits(l)') => Old(k) \/ (New(k) /\ ~ Awaits(l))
  PROVE  InboxInv' /\ KeptInv'
<1>1. \A l : Held(l)' = Held(l)
  BY DEF Held, listenerVars
<1>2. InboxInv'
  BY <1>1 DEF ReplicationInv, InboxInv, Registered, listenerVars
<1>3. KeptInv'
  BY DEF ReplicationInv, KeptInv, IndexerInv, Faithful, AtMostOnePageAhead,
         FaithfulUnlessReused, listenerVars
<1> QED BY <1>2, <1>3

LEMMA PollerInv ==
  ASSUME ReplicationInv,
         Publish \/ StartPoll \/ Respond \/ APIFails \/ AnswerFails \/ NextPage
  PROVE  ReplicationInv'
<1>0. /\ published \in 0 .. MaxLinks /\ cursor \in 0 .. published /\ last \in 0 .. published
      /\ answered \in last .. published /\ decoded \in 0 .. Pagination /\ Len(raw) \in Nat
      /\ failures \in 0 .. MaxFailures
  BY DEF ReplicationInv, TypeOK
<1>1. UNCHANGED <<heap, reused, listenerVars>>
  BY DEF Publish, StartPoll, Respond, APIFails, AnswerFails, NextPage, pollVars
<1>2. CASE Publish
  <2>1. TypeOK'
    BY <1>0, <1>2 DEF ReplicationInv, TypeOK, Publish, pollVars, listenerVars
  <2>2. PollInv' /\ SlotsInv'
    BY <1>2 DEF ReplicationInv, PollInv, SlotsInv, Old, New, Holds, HasNextPage, Publish, pollVars
  <2>3. \A k, l : Old(k)' = Old(k) /\ New(k)' = New(k) /\ Awaits(l)' = Awaits(l)
    BY <1>2 DEF Old, New, Awaits, Publish, pollVars
  <2>4. raw' = raw
    BY <1>2 DEF Publish, pollVars
  <2> QED BY <1>1, <2>1, <2>2, <2>3, <2>4, ListenerFrame DEF ReplicationInv
<1>3. CASE StartPoll
  <2>1. TypeOK'
    BY <1>0, <1>3 DEF ReplicationInv, TypeOK, StartPoll, listenerVars
  <2>2. Len(raw') = 0
    BY <1>3 DEF StartPoll
  <2>3. PollInv' /\ SlotsInv'
    BY <1>0, <1>3, <2>2 DEF ReplicationInv, PollInv, SlotsInv, StartPoll
  <2> QED BY <1>1, <2>1, <2>2, <2>3, ListenerFrame DEF ReplicationInv
<1>4. CASE Respond
  <2>0. /\ last' \in 0 .. published /\ answered' \in last' .. published
        /\ decoded' \in 0 .. Pagination /\ pc' \in {"decode", "idle"}
        /\ pc' = "decode" => /\ decoded' = 0 /\ cursor <= last' /\ last' <= cursor + Pagination
                             /\ last' < answered' => last' = cursor + Pagination
        /\ UNCHANGED <<published, cursor, heap, raw, toNotify, failures, reused, listenerVars>>
    <3>1. CASE published > cursor
      <4>1. /\ last' = IF cursor + Pagination < published THEN cursor + Pagination ELSE published
            /\ answered' = published /\ decoded' = 0 /\ pc' = "decode"
            /\ UNCHANGED <<published, cursor, heap, raw, toNotify, failures, reused, listenerVars>>
        BY <1>4, <3>1 DEF Respond
      <4> QED BY <1>0, <3>1, <4>1
    <3>2. CASE ~ (published > cursor)
      BY <1>0, <1>4, <3>2 DEF Respond
    <3> QED BY <3>1, <3>2
  <2>1. TypeOK'
    BY <1>0, <2>0 DEF ReplicationInv, TypeOK, listenerVars
  <2>2. raw' = raw /\ pc = "call" /\ \A k : ~ New(k)'
    BY <1>4 DEF Respond, New
  <2>3. PollInv'
    <3>1. /\ Len(raw) <= Pagination /\ \A j, k \in 1 .. Len(raw) : raw[j] = raw[k] => j = k
          /\ toNotify = << >>
          /\ Len(raw) = 0 \/ (Len(raw) = Pagination /\ Pagination <= cursor)
      BY <2>2 DEF ReplicationInv, PollInv
    <3>2. UNCHANGED <<raw, toNotify, cursor>> /\ pc' \notin {"call", "notify"}
      BY <2>0
    <3>3. pc' = "decode" => cursor + decoded' <= last' /\ last' <= cursor + Pagination
                            /\ decoded' = 0
      BY <1>0, <2>0
    <3>4. pc' = "decode" => (last' < answered' => last' = cursor + Pagination)
      BY <2>0
    <3> QED BY <3>1, <3>2, <3>3, <3>4 DEF PollInv, HasNextPage
  <2>4. SlotsInv'
    <3>1. UNCHANGED <<raw, heap, reused, cursor>>
      BY <2>0
    <3>2. \A k \in 1 .. Len(raw) : Old(k) /\ ~ New(k)'
      BY <2>2 DEF Old
    <3>3. \A k \in 1 .. Len(raw) : ~ (pc' = "decode" /\ k <= decoded')
      BY <1>0, <2>0
    <3>4. \A k \in 1 .. Len(raw) :
            Holds(raw[k], cursor - Pagination + k, Decrypted(cursor - Pagination + k))
      BY <3>2 DEF ReplicationInv, SlotsInv
    <3> QED BY <3>1, <3>2, <3>3, <3>4 DEF SlotsInv, Holds
  <2>5. \A k : Old(k)
    BY <2>2 DEF Old
  <2> QED BY <1>1, <2>1, <2>2, <2>3, <2>4, <2>5, ListenerFrame DEF ReplicationInv
<1>5. CASE APIFails \/ AnswerFails
  <2>1. TypeOK'
    BY <1>0, <1>5 DEF ReplicationInv, TypeOK, APIFails, AnswerFails, listenerVars
  <2>2. raw' = raw /\ pc' = "idle" /\ \A k : ~ Old(k)' /\ ~ New(k)'
    BY <1>5 DEF APIFails, AnswerFails, Old, New
  <2>3. PollInv'
    BY <1>5 DEF ReplicationInv, PollInv, APIFails, AnswerFails
  <2>4. SlotsInv'
    BY <2>2 DEF SlotsInv
  <2> QED BY <1>1, <2>1, <2>2, <2>3, <2>4, ListenerFrame DEF ReplicationInv
<1>6. CASE NextPage
  <2>1. TypeOK'
    BY <1>0, <1>6 DEF ReplicationInv, TypeOK, NextPage, listenerVars
  <2>2. /\ raw' = raw /\ pc = "notify" /\ Len(toNotify) = 0 /\ pc' \in {"call", "idle"}
        /\ pc' = "call" => HasNextPage
        /\ UNCHANGED <<cursor, decoded, toNotify, last>>
    BY <1>6 DEF NextPage
  <2>3. pc' = "call" => decoded = Pagination /\ Len(raw) = Pagination /\ Pagination <= cursor
    BY <1>0, <2>2 DEF ReplicationInv, PollInv
  <2>4. PollInv'
    BY <1>6, <2>2, <2>3 DEF ReplicationInv, PollInv, NextPage
  <2>5. \A k \in 1 .. Len(raw) : Old(k)' => New(k) /\ pc' = "call"
    BY <1>0, <2>2, <2>3 DEF Old, New
  <2>6. \A k : ~ New(k)'
    BY <2>2 DEF New
  <2>7. SlotsInv'
    BY <1>1, <2>2, <2>3, <2>5, <2>6 DEF ReplicationInv, SlotsInv, Holds
  <2>8. \A l : ~ Awaits(l)
    BY <2>2 DEF Awaits
  <2> QED BY <1>1, <2>1, <2>2, <2>4, <2>5, <2>6, <2>7, <2>8, ListenerFrame DEF ReplicationInv
<1> QED BY <1>2, <1>3, <1>4, <1>5, <1>6

-----------------------------------------------------------------------------
(* The steps of the poller that touch objects.                             *)

\* The types of what the poller works on.
LEMMA PollTypes ==
  ASSUME ReplicationInv
  PROVE  /\ published \in 0 .. MaxLinks /\ cursor \in 0 .. published /\ last \in 0 .. published
         /\ answered \in last .. published /\ decoded \in 0 .. Pagination
         /\ heap \in Seq(Content) /\ Len(heap) \in Nat
         /\ raw \in Seq(1 .. Len(heap)) /\ Len(raw) \in Nat
         /\ \A k \in 1 .. Len(raw) : raw[k] \in 1 .. Len(heap)
         /\ \A a \in 1 .. Len(heap) : heap[a] \in Content
  BY DEF ReplicationInv, TypeOK

LEMMA ContentTypes ==
  ASSUME NEW i \in Positions
  PROVE  /\ Original(i) \in Content /\ Original(i).from = i
         /\ Decrypted(i) \in Content /\ Decrypted(i).from = i
         /\ Decrypted(i) # Missing
<1>1. Original(i) \in Content /\ Original(i).from = i
  <2>1. Parent[i] \in Nat
    BY ParentAssumption
  <2> QED BY <2>1 DEF Original, Content
<1>2. PICK b \in BOOLEAN : b = (i \in Readable)
  <2>1. (i \in Readable) \in BOOLEAN
    OBVIOUS
  <2> WITNESS (i \in Readable) \in BOOLEAN
  <2> QED OBVIOUS
<1>3. Decrypted(i) = [Original(i) EXCEPT !.plain = b]
  BY <1>2 DEF Decrypted
<1>4. PICK o \in Content : o = Original(i)
  BY <1>1
<1>5. [o EXCEPT !.plain = b] \in Content /\ [o EXCEPT !.plain = b].from = o.from
  BY DEF Content
<1>6. Decrypted(i) \in Content /\ Decrypted(i).from = i
  BY <1>1, <1>3, <1>4, <1>5
<1>7. Missing.from = 0 /\ i # 0
  BY DEF Missing, Positions
<1> QED BY <1>1, <1>6, <1>7

\* A decoded object has the required fields of the new link.
LEMMA MergeType ==
  ASSUME NEW old \in Content, NEW i \in Positions
  PROVE  Merge(old, Original(i)) \in Content /\ Merge(old, Original(i)).from = i
  BY ContentTypes DEF Merge, Content

\* Decoding into a fresh object: all others stay.
LEMMA DecodeFreshInv ==
  ASSUME ReplicationInv, Decode, Len(raw) = decoded
  PROVE  ReplicationInv'
<1> DEFINE i == cursor + decoded + 1
<1>0. /\ published \in 0 .. MaxLinks /\ cursor \in 0 .. published /\ last \in 0 .. published
      /\ answered \in last .. published /\ decoded \in 0 .. Pagination
      /\ heap \in Seq(Content) /\ Len(heap) \in Nat
      /\ raw \in Seq(1 .. Len(heap)) /\ Len(raw) \in Nat
      /\ \A k \in 1 .. Len(raw) : raw[k] \in 1 .. Len(heap)
  BY PollTypes
<1>1. /\ pc = "decode" /\ cursor + decoded < last
      /\ heap' = Append(heap, Original(i))
      /\ raw' = Append(raw, Len(heap) + 1)
      /\ decoded' = decoded + 1
      /\ UNCHANGED <<reused, published, cursor, pc, last, answered, toNotify, failures,
                     listenerVars>>
  BY <1>0 DEF Decode
<1>2. i \in Positions /\ decoded + 1 <= Pagination
  BY <1>0, <1>1 DEF Positions, ReplicationInv, PollInv
<1>3. /\ heap' \in Seq(Content) /\ Len(heap') = Len(heap) + 1
      /\ \A a \in 1 .. Len(heap) : heap'[a] = heap[a]
      /\ heap'[Len(heap) + 1] = Original(i)
  <2>1. PICK o \in Content : o = Original(i)
    BY <1>2, ContentTypes
  <2>2. heap' = Append(heap, o)
    BY <1>1, <2>1
  <2> HIDE DEF i
  <2> QED BY <1>0, <2>1, <2>2
<1>4. /\ raw' \in Seq(1 .. Len(heap')) /\ Len(raw') = decoded + 1
      /\ \A k \in 1 .. decoded : raw'[k] = raw[k]
      /\ raw'[decoded + 1] = Len(heap) + 1
  <2>1. PICK n : n = Len(heap) + 1
    OBVIOUS
  <2>2. n \in 1 .. Len(heap') /\ raw \in Seq(1 .. Len(heap'))
    BY <1>0, <1>3, <2>1
  <2>3. raw' = Append(raw, n)
    BY <1>1, <2>1
  <2> QED BY <1>0, <2>1, <2>2, <2>3
<1>5. TypeOK'
  BY <1>0, <1>1, <1>2, <1>3, <1>4 DEF ReplicationInv, TypeOK, listenerVars
<1>6. PollInv'
  <2>1. \A j, k \in 1 .. Len(raw') : raw'[j] = raw'[k] => j = k
    <3>1. \A j, k \in 1 .. decoded : raw[j] = raw[k] => j = k
      BY DEF ReplicationInv, PollInv
    <3> QED BY <1>0, <1>4, <3>1
  <2>2. Len(raw') <= Pagination /\ cursor' + decoded' <= last'
    BY <1>0, <1>1, <1>2, <1>4
  <2> QED BY <1>0, <1>1, <1>4, <2>1, <2>2 DEF ReplicationInv, PollInv, HasNextPage
<1>7. SlotsInv'
  <2>1. ASSUME NEW k \in 1 .. decoded PROVE Holds(raw[k], cursor + k, Original(cursor + k))
    BY <1>0, <1>1, <2>1 DEF ReplicationInv, SlotsInv
  <2>2. ASSUME NEW k \in 1 .. Len(raw')
        PROVE  /\ heap'[raw'[k]].from = cursor + k
               /\ cursor + k \notin reused => heap'[raw'[k]] = Original(cursor + k)
    <3>1. CASE k \in 1 .. decoded
      <4>1. raw'[k] = raw[k] /\ heap'[raw[k]] = heap[raw[k]]
        BY <1>0, <1>3, <1>4, <3>1
      <4> QED BY <2>1, <3>1, <4>1 DEF Holds
    <3>2. CASE k = decoded + 1
      <4>1. heap'[raw'[k]] = Original(i) /\ cursor + k = i
        BY <1>0, <1>3, <1>4, <3>2
      <4>2. Original(i).from = i
        BY <1>2, ContentTypes
      <4> QED BY <4>1, <4>2
    <3> QED BY <1>0, <1>4, <3>1, <3>2
  <2>3. \A k \in 1 .. Len(raw') : ~ Old(k)' /\ ~ New(k)'
    BY <1>0, <1>1, <1>4 DEF Old, New
  <2> QED BY <1>1, <2>2, <2>3 DEF SlotsInv, Holds
<1>8. InboxInv'
  <2>1. \A l : Held(l)' = Held(l)
    BY <1>1 DEF Held, listenerVars
  <2>2. \A k \in 1 .. Len(raw') : ~ Old(k)' /\ ~ New(k)'
    BY <1>0, <1>1, <1>4 DEF Old, New
  <2>3. \A a \in 1 .. Len(heap) : heap'[a] = heap[a] /\ a \in 1 .. Len(heap')
    BY <1>0, <1>3
  <2> QED BY <1>1, <2>1, <2>2, <2>3
          DEF ReplicationInv, InboxInv, Registered, listenerVars
<1>9. KeptInv'
  BY <1>1 DEF ReplicationInv, KeptInv, IndexerInv, Faithful, AtMostOnePageAhead,
              FaithfulUnlessReused, listenerVars
<1> QED BY <1>5, <1>6, <1>7, <1>8, <1>9 DEF ReplicationInv

\* Decoding over an object of the page before: whoever holds it sees the new link, and
\* both links count as reused.
LEMMA DecodeOverInv ==
  ASSUME ReplicationInv, Decode, decoded < Len(raw)
  PROVE  ReplicationInv'
<1> DEFINE k == decoded + 1
           i == cursor + decoded + 1
<1>0. /\ published \in 0 .. MaxLinks /\ cursor \in 0 .. published /\ last \in 0 .. published
      /\ answered \in last .. published /\ decoded \in 0 .. Pagination
      /\ heap \in Seq(Content) /\ Len(heap) \in Nat
      /\ raw \in Seq(1 .. Len(heap)) /\ Len(raw) \in Nat
      /\ \A j \in 1 .. Len(raw) : raw[j] \in 1 .. Len(heap)
      /\ \A b \in 1 .. Len(heap) : heap[b] \in Content
  BY PollTypes
<1>1. PICK a : a = raw[k]
  OBVIOUS
<1>2. PICK new : new = Merge(heap[a], Original(i))
  OBVIOUS
<1>3. /\ pc = "decode" /\ cursor + decoded < last
      /\ heap' = [heap EXCEPT ![a] = Merge(@, Original(i))]
      /\ reused' = reused \cup {i, heap[a].from}
      /\ raw' = raw
      /\ decoded' = decoded + 1
      /\ UNCHANGED <<published, cursor, pc, last, answered, toNotify, failures, listenerVars>>
  BY <1>0, <1>1 DEF Decode
<1>4. /\ Len(raw) = Pagination /\ Pagination <= cursor /\ k \in 1 .. Len(raw)
      /\ a \in 1 .. Len(heap) /\ i \in Positions
      /\ heap[a].from = cursor - Pagination + k
      /\ \A j \in 1 .. Len(raw) : raw[j] = a => j = k
  <2>1. Len(raw) = Pagination /\ Pagination <= cursor /\ k \in 1 .. Len(raw)
    BY <1>0, <1>3 DEF ReplicationInv, PollInv
  <2>2. i \in Positions
    BY <1>0, <1>3 DEF Positions
  <2>3. Old(k)
    BY <1>0, <1>3 DEF Old
  <2>4. heap[a].from = cursor - Pagination + k
    BY <1>1, <2>1, <2>3 DEF ReplicationInv, SlotsInv, Holds
  <2>5. \A j \in 1 .. Len(raw) : raw[j] = raw[k] => j = k
    BY <2>1 DEF ReplicationInv, PollInv
  <2> QED BY <1>0, <1>1, <2>1, <2>2, <2>4, <2>5
<1>5. /\ heap' \in Seq(Content) /\ Len(heap') = Len(heap)
      /\ \A b \in 1 .. Len(heap) : heap'[b] = IF b = a THEN new ELSE heap[b]
      /\ new.from = i
  <2>1. heap[a] \in Content
    BY <1>0, <1>4
  <2>2. new \in Content /\ new.from = i
    BY <1>2, <1>4, <2>1, MergeType
  <2>3. heap' = [heap EXCEPT ![a] = new]
    BY <1>2, <1>3
  <2> QED BY <1>0, <1>4, <2>2, <2>3
<1>6. TypeOK'
  <2>1. heap[a].from \in Positions
    BY <1>0, <1>4 DEF Positions
  <2>2. reused' \subseteq Positions
    BY <1>3, <1>4, <2>1 DEF ReplicationInv, TypeOK
  <2>3. decoded' \in 0 .. Pagination /\ raw' \in Seq(1 .. Len(heap'))
    BY <1>0, <1>3, <1>4, <1>5
  <2> QED BY <1>0, <1>3, <1>5, <2>2, <2>3 DEF ReplicationInv, TypeOK, listenerVars
<1>7. PollInv'
  BY <1>0, <1>3, <1>4 DEF ReplicationInv, PollInv, HasNextPage
<1>8. SlotsInv'
  <2>1. ASSUME NEW j \in 1 .. Len(raw), j # k PROVE heap'[raw[j]] = heap[raw[j]]
    <3>1. raw[j] # a
      BY <1>4, <2>1
    <3>2. raw[j] \in 1 .. Len(heap)
      BY <1>0
    <3> QED BY <1>5, <3>1, <3>2
  <2>2. ASSUME NEW j \in 1 .. Len(raw), j > k
        PROVE  Holds(raw[j], cursor - Pagination + j, Decrypted(cursor - Pagination + j))'
    <3>1. Holds(raw[j], cursor - Pagination + j, Decrypted(cursor - Pagination + j))
      BY <1>0, <1>3, <2>2 DEF ReplicationInv, SlotsInv, Old
    <3>2. heap'[raw[j]] = heap[raw[j]]
      <4>1. j # k
        BY <1>0, <2>2
      <4> QED BY <2>1, <4>1
    <3> QED BY <1>3, <3>1, <3>2 DEF Holds, Decrypted, Original
  <2>3. ASSUME NEW j \in 1 .. Len(raw), j <= k
        PROVE  Holds(raw[j], cursor + j, Original(cursor + j))'
    <3>1. CASE j < k
      <4>1. Holds(raw[j], cursor + j, Original(cursor + j))
        BY <1>0, <1>3, <2>3, <3>1 DEF ReplicationInv, SlotsInv
      <4>2. heap'[raw[j]] = heap[raw[j]]
        BY <1>0, <2>1, <2>3, <3>1
      <4> QED BY <1>3, <4>1, <4>2 DEF Holds, Original
    <3>2. CASE j = k
      <4>1. raw'[j] = a /\ cursor' + j = i /\ heap'[a].from = i /\ i \in reused'
        BY <1>0, <1>1, <1>3, <1>4, <1>5, <3>2
      <4> QED BY <4>1 DEF Holds
    <3> QED BY <1>0, <2>3, <3>1, <3>2
  <2>4. \A j \in 1 .. Len(raw) : ~ New(j)' /\ (Old(j)' => j > k) /\ (j <= decoded' => j <= k)
    BY <1>0, <1>3 DEF Old, New
  <2> QED BY <1>3, <2>2, <2>3, <2>4 DEF SlotsInv
<1>9. InboxInv'
  <2>1. \A l : Held(l)' = Held(l)
    BY <1>3 DEF Held, listenerVars
  <2>2. ASSUME NEW l \in Listeners, NEW s \in Held(l)
        PROVE  /\ s.link \in 1 .. Len(heap')
               /\ heap'[s.link].from \in {s.hash, s.hash + Pagination}
               /\ s.hash \notin reused' => heap'[s.link] = Decrypted(s.hash)
               /\ \A j \in 1 .. Len(raw) :
                    raw[j] = s.link /\ j > k => heap'[s.link].from = s.hash
    <3>0. /\ s.link \in 1 .. Len(heap)
          /\ heap[s.link].from \in {s.hash, s.hash + Pagination}
          /\ s.hash \notin reused => heap[s.link] = Decrypted(s.hash)
          /\ \A j \in 1 .. Len(raw) : raw[j] = s.link /\ Old(j) => heap[s.link].from = s.hash
      BY DEF ReplicationInv, InboxInv
    <3>1. CASE s.link = a
      <4>1. Old(k) /\ raw[k] = a
        BY <1>0, <1>1, <1>3 DEF Old
      <4>2. heap[a].from = s.hash
        BY <1>4, <3>0, <3>1, <4>1
      <4>3. s.hash \in reused' /\ heap'[a].from = s.hash + Pagination
        BY <1>0, <1>3, <1>4, <1>5, <4>2
      <4>4. \A j \in 1 .. Len(raw) : raw[j] = s.link => j = k
        BY <1>4, <3>1
      <4> QED BY <1>0, <1>5, <3>0, <3>1, <4>3, <4>4
    <3>2. CASE s.link # a
      <4>1. heap'[s.link] = heap[s.link]
        BY <1>5, <3>0, <3>2
      <4>2. \A j \in 1 .. Len(raw) : j > k => Old(j)
        BY <1>0, <1>3 DEF Old
      <4> QED BY <1>3, <1>5, <3>0, <4>1, <4>2
    <3> QED BY <3>1, <3>2
  <2>3. \A j \in 1 .. Len(raw) : ~ New(j)' /\ (Old(j)' => j > k)
    BY <1>0, <1>3 DEF Old, New
  <2>4. \A l \in Listeners : (l \in gone \/ ~ Registered(l) => inbox[l] = << >>)'
    BY <1>3 DEF ReplicationInv, InboxInv, Registered, listenerVars
  <2>5. \A s : Decrypted(s)' = Decrypted(s)
    BY DEF Decrypted, Original
  <2> QED BY <1>3, <2>1, <2>2, <2>3, <2>4, <2>5 DEF InboxInv
<1>10. KeptInv'
  <2>1. reused \subseteq reused'
    BY <1>3
  <2> QED BY <1>3, <2>1 DEF ReplicationInv, KeptInv, IndexerInv, Faithful, AtMostOnePageAhead,
              FaithfulUnlessReused, listenerVars
<1> QED BY <1>6, <1>7, <1>8, <1>9, <1>10 DEF ReplicationInv

\* What decryption makes of an object: a copy that differs in its data only.
LEMMA CopyType ==
  ASSUME NEW o \in Content, NEW b \in BOOLEAN
  PROVE  [o EXCEPT !.plain = b] \in Content /\ [o EXCEPT !.plain = b].from = o.from
  BY DEF Content

LEMMA LeftAsItIs ==
  ASSUME NEW i \in Positions, i \notin Readable
  PROVE  Decrypted(i) = Original(i)
<1>1. Decrypted(i) = [Original(i) EXCEPT !.plain = FALSE]
  <2>1. (i \in Readable) = FALSE
    OBVIOUS
  <2> QED BY <2>1, Zenon DEF Decrypted
<1> QED BY <1>1 DEF Original

\* Decryption replaces the objects of the page that can be read by decrypted copies; the
\* segments that the listeners still hold keep the old ones.
LEMMA DecryptInv ==
  ASSUME ReplicationInv, Decrypt
  PROVE  ReplicationInv'
<1> DEFINE mine == {k \in 1 .. decoded : cursor + k \in Readable}
<1>0. /\ published \in 0 .. MaxLinks /\ cursor \in 0 .. published /\ last \in 0 .. published
      /\ answered \in last .. published /\ decoded \in 0 .. Pagination
      /\ heap \in Seq(Content) /\ Len(heap) \in Nat
      /\ raw \in Seq(1 .. Len(heap)) /\ Len(raw) \in Nat
      /\ \A k \in 1 .. Len(raw) : raw[k] \in 1 .. Len(heap)
      /\ \A a \in 1 .. Len(heap) : heap[a] \in Content
  BY PollTypes
<1>1. PICK copies : copies = [k \in 1 .. decoded |->
                                [heap[raw[k]] EXCEPT !.plain = k \in mine]]
  OBVIOUS
<1>2. /\ pc = "decode" /\ cursor + decoded = last
      /\ raw' = [k \in 1 .. Len(raw) |-> IF k \in mine THEN Len(heap) + k ELSE raw[k]]
      /\ heap' = heap \o copies
      /\ cursor' = last /\ toNotify' = Order /\ pc' = "notify"
      /\ UNCHANGED <<published, last, answered, decoded, failures, reused, listenerVars>>
  BY <1>1 DEF Decrypt
<1>3. decoded <= Len(raw) /\ Len(raw) <= Pagination
  BY <1>0, <1>2 DEF ReplicationInv, PollInv
<1>4. ASSUME NEW k \in 1 .. decoded
      PROVE  /\ copies[k] \in Content
             /\ copies[k].from = heap[raw[k]].from
  <2>1. PICK b \in BOOLEAN : b = (k \in mine)
    <3>1. (k \in mine) \in BOOLEAN
      OBVIOUS
    <3> WITNESS (k \in mine) \in BOOLEAN
    <3> QED OBVIOUS
  <2>2. PICK o \in Content : o = heap[raw[k]]
    BY <1>0, <1>3
  <2>3. copies[k] = [o EXCEPT !.plain = b]
    BY <1>1, <2>1, <2>2
  <2> QED BY <2>2, <2>3, CopyType
<1>5. copies \in Seq(Content) /\ Len(copies) = decoded
  <2>1. copies \in [1 .. decoded -> Content]
    BY <1>1, <1>4
  <2> QED BY <1>0, <2>1
<1>6. /\ heap' \in Seq(Content) /\ Len(heap') = Len(heap) + decoded
      /\ \A a \in 1 .. Len(heap) : heap'[a] = heap[a]
      /\ \A k \in 1 .. decoded : heap'[Len(heap) + k] = copies[k]
  <2> HIDE DEF mine
  <2>1. heap \o copies \in Seq(Content) /\ Len(heap \o copies) = Len(heap) + Len(copies)
    BY <1>0, <1>5, ConcatProperties
  <2>2. \A a \in 1 .. Len(heap) + Len(copies) :
          (heap \o copies)[a] = IF a <= Len(heap) THEN heap[a] ELSE copies[a - Len(heap)]
    BY <1>0, <1>5, ConcatProperties
  <2>3. \A k \in 1 .. decoded : /\ Len(heap) + k \in 1 .. Len(heap) + Len(copies)
                                /\ ~ (Len(heap) + k <= Len(heap))
                                /\ (Len(heap) + k) - Len(heap) = k
    BY <1>0, <1>5
  <2>4. \A a \in 1 .. Len(heap) : a \in 1 .. Len(heap) + Len(copies) /\ a <= Len(heap)
    BY <1>0, <1>5
  <2> QED BY <1>2, <1>5, <2>1, <2>2, <2>3, <2>4
<1>7. /\ Len(raw') = Len(raw)
      /\ \A k \in mine : raw'[k] = Len(heap) + k /\ k \in 1 .. decoded
      /\ \A k \in 1 .. Len(raw) : k \notin mine => raw'[k] = raw[k]
      /\ raw' \in Seq(1 .. Len(heap'))
  <2>1. \A k \in mine : k \in 1 .. decoded /\ k \in 1 .. Len(raw)
    BY <1>0, <1>3
  <2> HIDE DEF mine
  <2>2. raw' \in [1 .. Len(raw) -> 1 .. Len(heap')]
    BY <1>0, <1>2, <1>6, <2>1
  <2>3. Len(raw') = Len(raw) /\ raw' \in Seq(1 .. Len(heap'))
    BY <1>0, <2>2
  <2> QED BY <1>2, <2>1, <2>3
<1>8. TypeOK'
  BY <1>0, <1>2, <1>6, <1>7, OrderAssumption DEF ReplicationInv, TypeOK, listenerVars
<1>9. PollInv'
  <2>1. ASSUME NEW j \in 1 .. Len(raw'), NEW k \in 1 .. Len(raw'), raw'[j] = raw'[k]
        PROVE  j = k
    <3>1. raw[j] = raw[k] => j = k
      BY <1>7 DEF ReplicationInv, PollInv
    <3>2. raw[j] <= Len(heap) /\ raw[k] <= Len(heap) /\ raw[j] \in Nat /\ raw[k] \in Nat
      BY <1>0, <1>7
    <3> HIDE DEF mine
    <3>3. CASE j \in mine /\ k \in mine
      BY <1>0, <1>7, <2>1, <3>3
    <3>4. CASE j \notin mine /\ k \notin mine
      BY <1>7, <2>1, <3>1, <3>4
    <3>5. j \in mine => raw'[j] > Len(heap)
      BY <1>0, <1>7
    <3>6. k \in mine => raw'[k] > Len(heap)
      BY <1>0, <1>7
    <3>7. j \notin mine => raw'[j] = raw[j]
      BY <1>7
    <3>8. k \notin mine => raw'[k] = raw[k]
      BY <1>7
    <3> QED BY <1>0, <2>1, <3>2, <3>3, <3>4, <3>5, <3>6, <3>7, <3>8
  <2>2. decoded <= cursor' /\ (HasNextPage => decoded = Pagination)
    BY <1>0, <1>2 DEF ReplicationInv, PollInv
  <2>3. \A n \in 1 .. Len(toNotify') : Registered(toNotify'[n])
    BY <1>2 DEF Registered
  <2> QED BY <1>0, <1>2, <1>3, <1>7, <2>1, <2>2, <2>3 DEF PollInv, HasNextPage
<1>10. SlotsInv'
  <2>1. ASSUME NEW k \in 1 .. decoded
        PROVE  Holds(raw[k], cursor + k, Original(cursor + k))
    BY <1>0, <1>2, <1>3, <2>1 DEF ReplicationInv, SlotsInv
  <2>2. ASSUME NEW k \in 1 .. decoded
        PROVE  /\ heap'[raw'[k]].from = cursor + k
               /\ cursor + k \notin reused => heap'[raw'[k]] = Decrypted(cursor + k)
    <3>0. cursor + k \in Positions
      BY <1>0, <1>2 DEF Positions
    <3>1. CASE cursor + k \in Readable
      <4>1. k \in mine /\ raw'[k] = Len(heap) + k /\ heap'[raw'[k]] = copies[k]
        <5>1. k \in mine
          BY <3>1
        <5> HIDE DEF mine
        <5> QED BY <1>6, <1>7, <5>1
      <4>2. copies[k].from = cursor + k
        BY <1>4, <2>1 DEF Holds
      <4>3. ASSUME cursor + k \notin reused PROVE copies[k] = Decrypted(cursor + k)
        <5>1. heap[raw[k]] = Original(cursor + k)
          BY <2>1, <4>3 DEF Holds
        <5>2. copies[k] = [Original(cursor + k) EXCEPT !.plain = TRUE]
          BY <1>1, <4>1, <5>1
        <5>3. Decrypted(cursor + k) = [Original(cursor + k) EXCEPT !.plain = TRUE]
          BY <3>1 DEF Decrypted
        <5> QED BY <5>2, <5>3
      <4> QED BY <4>1, <4>2, <4>3
    <3>2. CASE cursor + k \notin Readable
      <4>1. raw'[k] = raw[k] /\ heap'[raw'[k]] = heap[raw[k]]
        <5>1. k \notin mine
          BY <3>2
        <5>2. k \in 1 .. Len(raw)
          BY <1>0, <1>3
        <5> HIDE DEF mine
        <5>3. raw'[k] = raw[k]
          BY <1>7, <5>1, <5>2
        <5>4. raw[k] \in 1 .. Len(heap)
          BY <1>0, <5>2
        <5> QED BY <1>6, <5>3, <5>4
      <4>2. Decrypted(cursor + k) = Original(cursor + k)
        BY <3>0, <3>2, LeftAsItIs
      <4> QED BY <2>1, <4>1, <4>2 DEF Holds
    <3> QED BY <3>1, <3>2
  <2>3. ASSUME NEW k \in 1 .. Len(raw'), k <= decoded
        PROVE  Holds(raw[k], cursor - decoded + k, Decrypted(cursor - decoded + k))'
    <3>1. cursor' - decoded' + k = cursor + k /\ k \in 1 .. decoded
      BY <1>0, <1>2, <2>3
    <3> QED BY <1>2, <2>2, <3>1 DEF Holds, Decrypted, Original
  <2> QED BY <1>2, <2>3 DEF SlotsInv, Old, New
<1>11. InboxInv'
  <2>1. \A l : Held(l)' = Held(l)
    BY <1>2 DEF Held, listenerVars
  <2>2. \A l \in Listeners : Registered(l) => Awaits(l)'
    BY <1>2 DEF Registered, Awaits
  <2>3. \A l \in Listeners : ~ Registered(l) => Held(l) = {}
    BY DEF ReplicationInv, InboxInv, Held
  <2>4. ASSUME NEW l \in Listeners, NEW s \in Held(l)
        PROVE  /\ s.link \in 1 .. Len(heap') /\ heap'[s.link] = heap[s.link]
               /\ heap[s.link].from \in {s.hash, s.hash + Pagination}
               /\ s.hash \notin reused => heap[s.link] = Decrypted(s.hash)
               /\ Awaits(l)'
    BY <1>0, <1>6, <2>2, <2>3 DEF ReplicationInv, InboxInv
  <2>5. \A l \in Listeners : (l \in gone \/ ~ Registered(l) => inbox[l] = << >>)'
    BY <1>2 DEF ReplicationInv, InboxInv, Registered, listenerVars
  <2>6. \A k : ~ Old(k)'
    BY <1>2 DEF Old
  <2>7. \A s : Decrypted(s)' = Decrypted(s)
    BY DEF Decrypted, Original
  <2> QED BY <1>2, <2>1, <2>4, <2>5, <2>6, <2>7 DEF InboxInv
<1>12. KeptInv'
  BY <1>2 DEF ReplicationInv, KeptInv, IndexerInv, Faithful, AtMostOnePageAhead,
              FaithfulUnlessReused, listenerVars
<1> QED BY <1>8, <1>9, <1>10, <1>11, <1>12 DEF ReplicationInv

-----------------------------------------------------------------------------
(* Sending, and the steps of the listeners.                                *)

\* Sending the page: the listener holds the objects of the page in hand.
LEMMA SendInv ==
  ASSUME ReplicationInv, Send
  PROVE  ReplicationInv'
<1> PICK l : l = Head(toNotify)
  OBVIOUS
<1> DEFINE page == [k \in 1 .. decoded |-> [link |-> raw[k], hash |-> last - decoded + k]]
<1>0. /\ published \in 0 .. MaxLinks /\ cursor \in 0 .. published /\ last \in 0 .. published
      /\ answered \in last .. published /\ decoded \in 0 .. Pagination
      /\ heap \in Seq(Content) /\ Len(heap) \in Nat
      /\ raw \in Seq(1 .. Len(heap)) /\ Len(raw) \in Nat
      /\ \A k \in 1 .. Len(raw) : raw[k] \in 1 .. Len(heap)
      /\ \A a \in 1 .. Len(heap) : heap[a] \in Content
  BY PollTypes
<1>1. /\ pc = "notify" /\ toNotify # << >> /\ l \notin gone /\ inbox[l] = << >>
      /\ inbox' = [inbox EXCEPT ![l] = page]
      /\ toNotify' = Tail(toNotify)
      /\ UNCHANGED <<published, cursor, pc, heap, raw, last, answered, decoded, failures,
                     reused, marshaled, batch, gone, store, index>>
  BY DEF Send
<1>2. /\ toNotify \in Seq(Listeners) /\ l \in Listeners /\ Registered(l)
      /\ toNotify' \in Seq(Listeners)
      /\ \A n \in 1 .. Len(toNotify') : toNotify'[n] = toNotify[n + 1]
                                        /\ n + 1 \in 1 .. Len(toNotify)
  <2>1. toNotify \in Seq(Listeners)
    BY DEF ReplicationInv, TypeOK
  <2>2. l = toNotify[1] /\ 1 \in 1 .. Len(toNotify) /\ l \in Listeners
    BY <1>1, <2>1
  <2>3. Registered(l)
    BY <2>2 DEF ReplicationInv, PollInv
  <2> QED BY <1>1, <2>1, <2>2, <2>3
<1>3. cursor = last /\ decoded <= Len(raw) /\ decoded <= cursor
  BY <1>1 DEF ReplicationInv, PollInv
<1>4. page \in Seq(Segment) /\ Len(page) = decoded
  <2>1. ASSUME NEW k \in 1 .. decoded
        PROVE  [link |-> raw[k], hash |-> last - decoded + k] \in Segment
    <3>1. raw[k] \in Nat /\ last - decoded + k \in Positions
      BY <1>0, <1>3 DEF Positions
    <3> QED BY <3>1 DEF Segment
  <2>2. page \in [1 .. decoded -> Segment]
    BY <2>1
  <2> QED BY <1>0, <2>2
<1>5. inbox' \in [Listeners -> Seq(Segment)]
  BY <1>1, <1>2, <1>4 DEF ReplicationInv, TypeOK
<1>6. TypeOK'
  BY <1>0, <1>1, <1>2, <1>5 DEF ReplicationInv, TypeOK
<1>7. PollInv'
  <2>1. \A n \in 1 .. Len(toNotify') : Registered(toNotify'[n])
    BY <1>2 DEF ReplicationInv, PollInv
  <2> QED BY <1>1, <2>1 DEF ReplicationInv, PollInv, HasNextPage
<1>8. SlotsInv'
  <2>1. \A k : Old(k)' = Old(k) /\ New(k)' = New(k) /\ Decrypted(k)' = Decrypted(k)
    BY <1>1 DEF Old, New, Decrypted, Original
  <2> QED BY <1>1, <2>1 DEF ReplicationInv, SlotsInv, Holds
<1>9. InboxInv'
  <2>1. ASSUME NEW k \in 1 .. decoded
        PROVE  /\ heap[page[k].link].from = page[k].hash
               /\ page[k].hash \notin reused => heap[page[k].link] = Decrypted(page[k].hash)
               /\ page[k].link \in 1 .. Len(heap)
    <3>1. page[k].link = raw[k] /\ page[k].hash = cursor - decoded + k
      BY <1>3
    <3>2. Holds(raw[k], cursor - decoded + k, Decrypted(cursor - decoded + k))
      BY <1>0, <1>1, <1>3 DEF ReplicationInv, SlotsInv, New
    <3> HIDE DEF page
    <3> QED BY <1>0, <1>3, <3>1, <3>2 DEF Holds
  <2> HIDE DEF page
  <2>2. Held(l)' = {page[k] : k \in 1 .. decoded}
    <3>1. inbox'[l] = page
      BY <1>1, <1>2 DEF ReplicationInv, TypeOK
    <3> QED BY <1>4, <3>1 DEF Held
  <2>3. \A m \in Listeners : m # l => Held(m)' = Held(m) /\ inbox'[m] = inbox[m]
    BY <1>1 DEF ReplicationInv, TypeOK, Held
  <2>4. ASSUME NEW m \in Listeners, m # l, Awaits(m)
        PROVE  Awaits(m)'
    <3>1. PICK n \in 1 .. Len(toNotify) : toNotify[n] = m
      BY <2>4 DEF Awaits
    <3>2. n # 1
      BY <1>1, <1>2, <2>4, <3>1
    <3>3. n - 1 \in 1 .. Len(toNotify') /\ toNotify'[n - 1] = m
      BY <1>1, <1>2, <3>1, <3>2
    <3> QED BY <3>3 DEF Awaits
  <2>5. \A k : Old(k)' = Old(k) /\ New(k)' = New(k) /\ Decrypted(k)' = Decrypted(k)
    BY <1>1 DEF Old, New, Decrypted, Original
  <2>6. ASSUME NEW m \in Listeners, NEW s \in Held(m)'
        PROVE  /\ s.link \in 1 .. Len(heap)
               /\ heap[s.link].from \in {s.hash, s.hash + Pagination}
               /\ s.hash \notin reused => heap[s.link] = Decrypted(s.hash)
               /\ \A k \in 1 .. Len(raw) :
                    raw[k] = s.link /\ (Old(k) \/ (New(k) /\ ~ Awaits(m)')) =>
                      heap[s.link].from = s.hash
    <3>1. CASE m = l
      BY <2>1, <2>2, <2>6, <3>1
    <3>2. CASE m # l
      BY <2>3, <2>4, <2>6, <3>2 DEF ReplicationInv, InboxInv
    <3> QED BY <3>1, <3>2
  <2>7. \A m \in Listeners : m \in gone \/ ~ Registered(m) => inbox'[m] = << >>
    BY <1>1, <1>2, <2>3 DEF ReplicationInv, InboxInv
  <2> QED BY <1>1, <2>5, <2>6, <2>7 DEF InboxInv
<1>10. KeptInv'
  <2>1. \A d : Faithful(d)' = Faithful(d)
    BY <1>1 DEF Faithful, Decrypted, Original
  <2>2. \A m \in Indexers : m # l => inbox'[m] = inbox[m]
    BY <1>1 DEF ReplicationInv, TypeOK, Listeners
  <2>3. l \in Indexers => marshaled[l] = Missing
    BY <1>1 DEF ReplicationInv, KeptInv, IndexerInv
  <2> HIDE DEF page
  <2>4. IndexerInv'
    BY <1>1, <2>1, <2>2, <2>3 DEF ReplicationInv, KeptInv, IndexerInv
  <2> QED BY <1>1, <2>4 DEF ReplicationInv, KeptInv, AtMostOnePageAhead, FaithfulUnlessReused
<1> QED BY <1>6, <1>7, <1>8, <1>9, <1>10 DEF ReplicationInv

\* The segment that a listener handles next.
LEMMA HeadHeld ==
  ASSUME ReplicationInv, NEW l \in Listeners, inbox[l] # << >>
  PROVE  /\ l \notin gone
         /\ Head(inbox[l]).hash \in Positions
         /\ heap[Head(inbox[l]).link] \in Content
         /\ heap[Head(inbox[l]).link].from
              \in {Head(inbox[l]).hash, Head(inbox[l]).hash + Pagination}
         /\ Head(inbox[l]).hash \notin reused =>
              heap[Head(inbox[l]).link] = Decrypted(Head(inbox[l]).hash)
<1>1. inbox[l] \in Seq(Segment)
  BY DEF ReplicationInv, TypeOK
<1>2. PICK s \in Segment : s = Head(inbox[l])
  BY <1>1
<1>3. s \in Held(l)
  <2>1. s = inbox[l][1] /\ 1 \in 1 .. Len(inbox[l])
    BY <1>1, <1>2
  <2> QED BY <2>1 DEF Held
<1>4. s.hash \in Positions
  BY DEF Segment
<1>5. /\ l \notin gone /\ s.link \in 1 .. Len(heap)
      /\ heap[s.link].from \in {s.hash, s.hash + Pagination}
      /\ s.hash \notin reused => heap[s.link] = Decrypted(s.hash)
  BY <1>3 DEF ReplicationInv, InboxInv
<1>6. heap[s.link] \in Content
  BY <1>5, PollTypes
<1> QED BY <1>2, <1>4, <1>5, <1>6

\* A listener's step changes nothing of the poller, and only takes from its inbox.
LEMMA ListenerStep ==
  ASSUME ReplicationInv, UNCHANGED <<published, pollVars>>,
         inbox' \in [Listeners -> Seq(Segment)],
         \A m \in Listeners : Held(m)' \subseteq Held(m),
         \A m \in Listeners : m \in gone' \/ ~ Registered(m) => inbox'[m] = << >>
  PROVE  PollInv' /\ SlotsInv' /\ InboxInv'
<1>1. \A k, m : /\ Old(k)' = Old(k) /\ New(k)' = New(k) /\ Awaits(m)' = Awaits(m)
               /\ Decrypted(k)' = Decrypted(k)
  BY DEF Old, New, Awaits, Decrypted, Original, pollVars
<1>2. UNCHANGED <<heap, raw, reused, cursor, decoded, last, answered, toNotify, pc>>
  BY DEF pollVars
<1>3. PollInv'
  BY <1>2 DEF ReplicationInv, PollInv, HasNextPage
<1>4. SlotsInv'
  BY <1>1, <1>2 DEF ReplicationInv, SlotsInv, Holds
<1>5. InboxInv'
  BY <1>1, <1>2 DEF ReplicationInv, InboxInv
<1> QED BY <1>3, <1>4, <1>5

\* Taking a segment out of the inbox.
LEMMA TakeInv ==
  ASSUME ReplicationInv, NEW l \in Listeners, inbox[l] # << >>,
         inbox' = [inbox EXCEPT ![l] = Tail(@)], UNCHANGED <<published, pollVars, gone>>
  PROVE  /\ inbox' \in [Listeners -> Seq(Segment)]
         /\ PollInv' /\ SlotsInv' /\ InboxInv'
<1>1. inbox \in [Listeners -> Seq(Segment)]
  BY DEF ReplicationInv, TypeOK
<1>2. PICK rest : rest = Tail(inbox[l])
  OBVIOUS
<1>3. /\ rest \in Seq(Segment)
      /\ \A n \in 1 .. Len(rest) : rest[n] = inbox[l][n + 1] /\ n + 1 \in 1 .. Len(inbox[l])
  <2>1. inbox[l] \in Seq(Segment)
    BY <1>1
  <2> QED BY <1>2, <2>1
<1>4. inbox' = [inbox EXCEPT ![l] = rest]
  BY <1>2
<1>5. inbox' \in [Listeners -> Seq(Segment)]
  BY <1>1, <1>3, <1>4
<1>6. ASSUME NEW m \in Listeners PROVE Held(m)' \subseteq Held(m)
  <2>1. CASE m = l
    <3>1. inbox'[m] = rest
      BY <1>1, <1>4, <2>1
    <3> QED BY <1>3, <2>1, <3>1 DEF Held
  <2>2. CASE m # l
    BY <1>1, <1>4, <2>2 DEF Held
  <2> QED BY <2>1, <2>2
<1>7. ASSUME NEW m \in Listeners, m \in gone' \/ ~ Registered(m) PROVE inbox'[m] = << >>
  <2>1. inbox[m] = << >>
    BY <1>7 DEF ReplicationInv, InboxInv
  <2> QED BY <1>1, <1>4, <2>1
<1> QED BY <1>5, <1>6, <1>7, ListenerStep

\* The parser's Put.
LEMMA PutInv ==
  ASSUME ReplicationInv, NEW l \in Parsers, Put(l)
  PROVE  ReplicationInv'
<1>1. l \in Listeners /\ l \notin Indexers
  BY OrderAssumption DEF Listeners
<1>2. PICK s : s = Head(inbox[l])
  OBVIOUS
<1>3. PICK content : content = heap[s.link]
  OBVIOUS
<1>4. /\ inbox[l] # << >>
      /\ store' = [store EXCEPT ![l][s.hash] = content]
      /\ inbox' = [inbox EXCEPT ![l] = Tail(@)]
      /\ UNCHANGED <<published, pollVars, marshaled, batch, gone, index>>
  BY <1>2, <1>3 DEF Put
<1>5. /\ s.hash \in Positions /\ content \in Content
      /\ content.from \in {s.hash, s.hash + Pagination}
      /\ s.hash \notin reused => content = Decrypted(s.hash)
  BY <1>1, <1>2, <1>3, <1>4, HeadHeld
<1>6. inbox' \in [Listeners -> Seq(Segment)] /\ PollInv' /\ SlotsInv' /\ InboxInv'
  BY <1>1, <1>4, TakeInv
<1>7. store \in [Parsers -> [Positions -> Content \cup {Missing}]]
  BY DEF ReplicationInv, TypeOK
<1>8. /\ store' \in [Parsers -> [Positions -> Content \cup {Missing}]]
      /\ \A m \in Parsers, i \in Positions :
           store'[m][i] = IF m = l /\ i = s.hash THEN content ELSE store[m][i]
  BY <1>4, <1>5, <1>7
<1>9. TypeOK'
  BY <1>4, <1>6, <1>8 DEF ReplicationInv, TypeOK, pollVars
<1>10. UNCHANGED <<reused, index, marshaled, batch, gone>>
  BY <1>4 DEF pollVars
<1>11. \A d : Faithful(d)' = Faithful(d)
  BY <1>10 DEF Faithful, Decrypted, Original
<1>12. IndexerInv'
  <2>1. \A m \in Indexers : inbox'[m] = inbox[m]
    BY <1>1, <1>4 DEF ReplicationInv, TypeOK, Listeners
  <2> QED BY <1>10, <1>11, <2>1 DEF ReplicationInv, KeptInv, IndexerInv
<1>13. AtMostOnePageAhead'
  BY <1>5, <1>8 DEF ReplicationInv, KeptInv, AtMostOnePageAhead
<1>14. FaithfulUnlessReused'
  <2>1. \A i \in Positions \ reused : \A m \in Parsers :
           store'[m][i] \in {Missing, Decrypted(i)}
    BY <1>5, <1>8 DEF ReplicationInv, KeptInv, FaithfulUnlessReused
  <2>2. \A i : Decrypted(i)' = Decrypted(i)
    BY DEF Decrypted, Original
  <2> QED BY <1>10, <2>1, <2>2 DEF ReplicationInv, KeptInv, FaithfulUnlessReused
<1> QED BY <1>6, <1>9, <1>12, <1>13, <1>14 DEF ReplicationInv, KeptInv

\* The two reads of indexLink, the first of which is kept aside ...
LEMMA MarshalInv ==
  ASSUME ReplicationInv, NEW l \in Indexers, Marshal(l)
  PROVE  ReplicationInv'
<1>1. l \in Listeners
  BY DEF Listeners
<1>2. PICK content : content = heap[Head(inbox[l]).link]
  OBVIOUS
<1>3. /\ inbox[l] # << >>
      /\ marshaled' = [marshaled EXCEPT ![l] = content]
      /\ UNCHANGED <<published, pollVars, inbox, batch, gone, store, index>>
  BY <1>2 DEF Marshal
<1>4. /\ content \in Content
      /\ Head(inbox[l]).hash \notin reused => content = Decrypted(Head(inbox[l]).hash)
  BY <1>1, <1>2, <1>3, HeadHeld
<1>5. /\ marshaled' \in [Indexers -> Content \cup {Missing}]
      /\ \A m \in Indexers : marshaled'[m] = IF m = l THEN content ELSE marshaled[m]
  <2>1. marshaled \in [Indexers -> Content \cup {Missing}]
    BY DEF ReplicationInv, TypeOK
  <2> QED BY <1>3, <1>4, <2>1
<1>6. TypeOK'
  BY <1>3, <1>5 DEF ReplicationInv, TypeOK, pollVars
<1>7. PollInv' /\ SlotsInv' /\ InboxInv'
  <2>1. \A m : Held(m)' = Held(m)
    BY <1>3 DEF Held
  <2>2. inbox' \in [Listeners -> Seq(Segment)]
    BY <1>3 DEF ReplicationInv, TypeOK
  <2>3. \A m \in Listeners : m \in gone' \/ ~ Registered(m) => inbox'[m] = << >>
    BY <1>3 DEF ReplicationInv, InboxInv
  <2> QED BY <1>3, <2>1, <2>2, <2>3, ListenerStep
<1>8. UNCHANGED <<reused, inbox, batch, gone, store, index>>
  BY <1>3 DEF pollVars
<1>9. \A d : Faithful(d)' = Faithful(d) /\ Decrypted(d)' = Decrypted(d)
  BY <1>8 DEF Faithful, Decrypted, Original
<1>10. IndexerInv'
  BY <1>3, <1>4, <1>5, <1>8, <1>9 DEF ReplicationInv, KeptInv, IndexerInv
<1>11. AtMostOnePageAhead' /\ FaithfulUnlessReused'
  BY <1>8 DEF ReplicationInv, KeptInv, AtMostOnePageAhead, FaithfulUnlessReused
<1> QED BY <1>6, <1>7, <1>10, <1>11 DEF ReplicationInv, KeptInv

\* ... and the second joins it in a document.
LEMMA IndexLinkInv ==
  ASSUME ReplicationInv, NEW l \in Indexers, IndexLink(l)
  PROVE  ReplicationInv'
<1>1. l \in Listeners
  BY DEF Listeners
<1>2. PICK s : s = Head(inbox[l])
  OBVIOUS
<1>3. PICK doc : doc = [key |-> heap[s.link], raw |-> marshaled[l], hash |-> s.hash]
  OBVIOUS
<1>4. /\ inbox[l] # << >> /\ marshaled[l] # Missing
      /\ batch' = [batch EXCEPT ![l] = {d \in @ : d.key # doc.key} \cup {doc}]
      /\ inbox' = [inbox EXCEPT ![l] = Tail(@)]
      /\ marshaled' = [marshaled EXCEPT ![l] = Missing]
      /\ UNCHANGED <<published, pollVars, gone, store, index>>
  BY <1>2, <1>3 DEF IndexLink
<1>5. doc \in Document /\ Faithful(doc)
  <2>1. /\ s.hash \in Positions /\ heap[s.link] \in Content
        /\ s.hash \notin reused => heap[s.link] = Decrypted(s.hash)
    BY <1>1, <1>2, <1>4, HeadHeld
  <2>2. marshaled[l] \in Content
    BY <1>4 DEF ReplicationInv, TypeOK
  <2>3. s.hash \notin reused => marshaled[l] = Decrypted(s.hash)
    BY <1>2, <1>4 DEF ReplicationInv, KeptInv, IndexerInv
  <2> QED BY <1>3, <2>1, <2>2, <2>3 DEF Document, Faithful
<1>6. inbox' \in [Listeners -> Seq(Segment)] /\ PollInv' /\ SlotsInv' /\ InboxInv'
  BY <1>1, <1>4, TakeInv
<1>7. /\ marshaled' \in [Indexers -> Content \cup {Missing}]
      /\ \A m \in Indexers : marshaled'[m] = IF m = l THEN Missing ELSE marshaled[m]
  BY <1>4 DEF ReplicationInv, TypeOK
<1>8. /\ batch' \in [Indexers -> SUBSET Document]
      /\ \A m \in Indexers : batch'[m] \subseteq batch[m] \cup {doc}
      /\ \A m \in Indexers : m # l => batch'[m] = batch[m]
  <2>1. batch \in [Indexers -> SUBSET Document]
    BY DEF ReplicationInv, TypeOK
  <2>2. PICK B : B = {d \in batch[l] : d.key # doc.key} \cup {doc}
    OBVIOUS
  <2>3. B \subseteq batch[l] \cup {doc} /\ B \subseteq Document
    BY <1>5, <2>1, <2>2
  <2>4. batch' = [batch EXCEPT ![l] = B]
    BY <1>4, <2>2
  <2> QED BY <2>1, <2>3, <2>4
<1>9. TypeOK'
  BY <1>4, <1>6, <1>7, <1>8 DEF ReplicationInv, TypeOK, pollVars
<1>10. UNCHANGED <<reused, gone, store, index>>
  BY <1>4 DEF pollVars
<1>11. \A d : Faithful(d)' = Faithful(d) /\ Decrypted(d)' = Decrypted(d)
  BY <1>10 DEF Faithful, Decrypted, Original
<1>12. IndexerInv'
  <2>1. \A m \in Indexers : m # l => inbox'[m] = inbox[m]
    BY <1>4 DEF ReplicationInv, TypeOK, Listeners
  <2> QED BY <1>5, <1>7, <1>8, <1>10, <1>11, <2>1 DEF ReplicationInv, KeptInv, IndexerInv
<1>13. AtMostOnePageAhead' /\ FaithfulUnlessReused'
  BY <1>10 DEF ReplicationInv, KeptInv, AtMostOnePageAhead, FaithfulUnlessReused
<1> QED BY <1>6, <1>9, <1>12, <1>13 DEF ReplicationInv, KeptInv

\* The documents of the batch go to the index.
LEMMA CommitInv ==
  ASSUME ReplicationInv, NEW l \in Indexers, CommitBatch(l)
  PROVE  ReplicationInv'
<1>1. PICK D : D = {d \in index[l] : \A e \in batch[l] : d.key # e.key} \cup batch[l]
  OBVIOUS
<1>2. /\ index' = [index EXCEPT ![l] = D]
      /\ batch' = [batch EXCEPT ![l] = {}]
      /\ UNCHANGED <<published, pollVars, inbox, marshaled, gone, store>>
  BY <1>1 DEF CommitBatch
<1>3. /\ index \in [Indexers -> SUBSET Document] /\ batch \in [Indexers -> SUBSET Document]
      /\ D \subseteq index[l] \cup batch[l]
  BY <1>1 DEF ReplicationInv, TypeOK
<1>4. /\ index' \in [Indexers -> SUBSET Document] /\ batch' \in [Indexers -> SUBSET Document]
      /\ \A m \in Indexers : /\ index'[m] \subseteq index[m] \cup batch[m]
                            /\ batch'[m] \subseteq batch[m]
  BY <1>2, <1>3
<1>5. TypeOK'
  BY <1>2, <1>4 DEF ReplicationInv, TypeOK, pollVars
<1>6. PollInv' /\ SlotsInv' /\ InboxInv'
  <2>1. \A m : Held(m)' = Held(m)
    BY <1>2 DEF Held
  <2>2. inbox' \in [Listeners -> Seq(Segment)]
    BY <1>2 DEF ReplicationInv, TypeOK
  <2>3. \A m \in Listeners : m \in gone' \/ ~ Registered(m) => inbox'[m] = << >>
    BY <1>2 DEF ReplicationInv, InboxInv
  <2> QED BY <1>2, <2>1, <2>2, <2>3, ListenerStep
<1>7. UNCHANGED <<reused, inbox, marshaled, gone, store>>
  BY <1>2 DEF pollVars
<1>8. \A d : Faithful(d)' = Faithful(d) /\ Decrypted(d)' = Decrypted(d)
  BY <1>7 DEF Faithful, Decrypted, Original
<1>9. IndexerInv'
  BY <1>4, <1>7, <1>8 DEF ReplicationInv, KeptInv, IndexerInv
<1>10. AtMostOnePageAhead'
  BY <1>7 DEF ReplicationInv, KeptInv, AtMostOnePageAhead
<1>11. FaithfulUnlessReused'
  <2>1. ASSUME NEW i \in Positions \ reused, NEW m \in Indexers, NEW d \in index'[m],
               d.hash = i
        PROVE  d.raw = Decrypted(i) /\ d.key = Decrypted(i)
    <3>1. CASE d \in index[m]
      BY <2>1, <3>1 DEF ReplicationInv, KeptInv, FaithfulUnlessReused
    <3>2. CASE d \in batch[m]
      BY <2>1, <3>2 DEF ReplicationInv, KeptInv, IndexerInv, Faithful
    <3> QED BY <1>4, <2>1, <3>1, <3>2
  <2> QED BY <1>7, <1>8, <2>1 DEF ReplicationInv, KeptInv, FaithfulUnlessReused
<1> QED BY <1>5, <1>6, <1>9, <1>10, <1>11 DEF ReplicationInv, KeptInv

\* A listener that stops drops what it has in hand.
LEMMA FailInv ==
  ASSUME ReplicationInv, NEW l \in Listeners, Fail(l)
  PROVE  ReplicationInv'
<1>1. /\ gone' = gone \cup {l}
      /\ inbox' = [inbox EXCEPT ![l] = << >>]
      /\ batch' = [m \in Indexers |-> IF m = l THEN {} ELSE batch[m]]
      /\ UNCHANGED <<published, pollVars, marshaled, store, index>>
  BY DEF Fail
<1>2. /\ inbox' \in [Listeners -> Seq(Segment)] /\ batch' \in [Indexers -> SUBSET Document]
      /\ gone' \subseteq Listeners
      /\ \A m \in Listeners : inbox'[m] = IF m = l THEN << >> ELSE inbox[m]
      /\ \A m \in Indexers : batch'[m] \subseteq batch[m]
  <2>1. /\ inbox \in [Listeners -> Seq(Segment)] /\ batch \in [Indexers -> SUBSET Document]
        /\ gone \subseteq Listeners
    BY DEF ReplicationInv, TypeOK
  <2>2. << >> \in Seq(Segment)
    OBVIOUS
  <2> QED BY <1>1, <2>1, <2>2
<1>3. TypeOK'
  BY <1>1, <1>2 DEF ReplicationInv, TypeOK, pollVars
<1>4. PollInv' /\ SlotsInv' /\ InboxInv'
  <2>1. \A m \in Listeners : Held(m)' \subseteq Held(m)
    BY <1>2 DEF Held
  <2>2. \A m \in Listeners : m \in gone' \/ ~ Registered(m) => inbox'[m] = << >>
    BY <1>1, <1>2 DEF ReplicationInv, InboxInv
  <2> QED BY <1>1, <1>2, <2>1, <2>2, ListenerStep
<1>5. UNCHANGED <<reused, marshaled, store, index>>
  BY <1>1 DEF pollVars
<1>6. \A d : Faithful(d)' = Faithful(d) /\ Decrypted(d)' = Decrypted(d)
  BY <1>5 DEF Faithful, Decrypted, Original
<1>7. IndexerInv'
  BY <1>1, <1>2, <1>5, <1>6 DEF ReplicationInv, KeptInv, IndexerInv, Listeners
<1>8. AtMostOnePageAhead' /\ FaithfulUnlessReused'
  BY <1>5 DEF ReplicationInv, KeptInv, AtMostOnePageAhead, FaithfulUnlessReused
<1> QED BY <1>3, <1>4, <1>7, <1>8 DEF ReplicationInv, KeptInv

-----------------------------------------------------------------------------
(* The whole of Next.                                                      *)

LEMMA NextInv == ReplicationInv /\ [Next]_vars => ReplicationInv'
<1> SUFFICES ASSUME ReplicationInv, [Next]_vars PROVE ReplicationInv'
  OBVIOUS
<1>1. CASE UNCHANGED vars
  <2>1. \A k, m : /\ Old(k)' = Old(k) /\ New(k)' = New(k) /\ Awaits(m)' = Awaits(m)
                 /\ Held(m)' = Held(m)
    BY <1>1 DEF Old, New, Awaits, Held, vars, pollVars, listenerVars
  <2>2. TypeOK' /\ PollInv' /\ SlotsInv'
    BY <1>1, <2>1 DEF ReplicationInv, TypeOK, PollInv, SlotsInv, Holds, HasNextPage,
                      vars, pollVars, listenerVars
  <2>3. raw' = raw /\ UNCHANGED <<heap, reused, listenerVars>>
    BY <1>1 DEF vars, pollVars
  <2> QED BY <2>1, <2>2, <2>3, ListenerFrame DEF ReplicationInv
<1>2. CASE Publish
  BY <1>2, PollerInv
<1>3. CASE pollAndNotify
  <2>1. CASE Decode
    <3>1. Len(raw) = decoded \/ decoded < Len(raw)
      BY <2>1, PollTypes DEF Decode, ReplicationInv, PollInv
    <3> QED BY <2>1, <3>1, DecodeFreshInv, DecodeOverInv
  <2> QED BY <1>3, <2>1, PollerInv, DecryptInv, SendInv DEF pollAndNotify
<1>4. CASE \E l \in Parsers : Put(l)
  BY <1>4, PutInv
<1>5. CASE \E l \in Indexers : Marshal(l) \/ IndexLink(l) \/ CommitBatch(l)
  BY <1>5, MarshalInv, IndexLinkInv, CommitInv
<1>6. CASE \E l \in Listeners : Fail(l)
  BY <1>6, FailInv
<1> QED BY <1>1, <1>2, <1>3, <1>4, <1>5, <1>6 DEF Next

-----------------------------------------------------------------------------
(* Nothing is skipped.                                                     *)

InHand(l, i) == \E s \in Held(l) : s.hash = i

\* What a listener was sent it has kept, or holds.  A document gives way to another of
\* the same key only: of a link that is not reused, that is one of the same link, because
\* the links that a listener reads under another's hash are all reused.
KeepsInv ==
  /\ \A l \in Listeners : \A s \in Held(l) :
       heap[s.link].from = s.hash \/ heap[s.link].from \in reused
  /\ \A l \in Indexers : \A d \in batch[l] : d.key.from = d.hash \/ d.key.from \in reused
  /\ \A l \in Parsers \ gone : \A i \in 1 .. SentUpTo(l) :
       store[l][i] # Missing \/ InHand(l, i)
  /\ \A l \in Indexers \ gone : \A i \in (1 .. SentUpTo(l)) \ reused :
       (\E d \in index[l] \cup batch[l] : d.hash = i) \/ InHand(l, i)

LEMMA InitKeeps == Init => KeepsInv
  BY DEF Init, KeepsInv, Held, SentUpTo, Listeners

LEMMA SentPositions ==
  ASSUME ReplicationInv, NEW l \in Listeners, NEW i \in 1 .. SentUpTo(l)
  PROVE  i \in Positions
<1>1. SentUpTo(l) \in Int /\ SentUpTo(l) <= MaxLinks
  BY PollTypes DEF SentUpTo
<1> QED BY <1>1 DEF Positions

\* The poller's own steps: the listeners have what they had, and an object changes its
\* link only by being reused.
LEMMA KeepsFrame ==
  ASSUME ReplicationInv, KeepsInv, UNCHANGED listenerVars, reused \subseteq reused',
         \A l \in Listeners : SentUpTo(l)' = SentUpTo(l),
         \A l \in Listeners : \A s \in Held(l) :
           heap'[s.link].from = heap[s.link].from \/ heap'[s.link].from \in reused'
  PROVE  KeepsInv'
<1>1. \A l, i : Held(l)' = Held(l) /\ InHand(l, i)' = InHand(l, i)
  BY DEF Held, InHand, listenerVars
<1>2. UNCHANGED <<batch, index, store, gone>>
  BY DEF listenerVars
<1>3. \A l \in Listeners : \A s \in Held(l)' :
        heap'[s.link].from = s.hash \/ heap'[s.link].from \in reused'
  BY <1>1 DEF KeepsInv
<1>4. \A l \in Indexers : \A d \in batch'[l] : d.key.from = d.hash \/ d.key.from \in reused'
  BY <1>2 DEF KeepsInv
<1>5. \A l \in Parsers \ gone' : \A i \in 1 .. SentUpTo(l)' :
        store'[l][i] # Missing \/ InHand(l, i)'
  BY <1>1, <1>2 DEF KeepsInv, Listeners
<1>6. \A l \in Indexers \ gone' : \A i \in (1 .. SentUpTo(l)') \ reused' :
        (\E d \in index'[l] \cup batch'[l] : d.hash = i) \/ InHand(l, i)'
  BY <1>1, <1>2 DEF KeepsInv, Listeners
<1> QED BY <1>3, <1>4, <1>5, <1>6 DEF KeepsInv

LEMMA PollerKeeps ==
  ASSUME ReplicationInv, KeepsInv,
         Publish \/ StartPoll \/ Respond \/ APIFails \/ AnswerFails \/ NextPage
  PROVE  KeepsInv'
<1>1. UNCHANGED <<listenerVars, heap, reused, cursor, toNotify>>
  BY DEF Publish, StartPoll, Respond, APIFails, AnswerFails, NextPage, pollVars
<1>2. UNCHANGED <<last, decoded>> \/ toNotify = << >>
  BY DEF Publish, StartPoll, Respond, APIFails, AnswerFails, NextPage, pollVars,
         ReplicationInv, PollInv
<1>3. \A l \in Listeners : SentUpTo(l)' = SentUpTo(l)
  BY <1>1, <1>2 DEF SentUpTo
<1> QED BY <1>1, <1>3, KeepsFrame

LEMMA DecodeKeeps ==
  ASSUME ReplicationInv, KeepsInv, Decode
  PROVE  KeepsInv'
<1>1. /\ pc = "decode" /\ toNotify = << >> /\ cursor + decoded < last
      /\ UNCHANGED <<listenerVars, cursor, toNotify>>
  BY DEF Decode, ReplicationInv, PollInv
<1>2. \A l \in Listeners : SentUpTo(l)' = SentUpTo(l)
  BY <1>1 DEF SentUpTo
<1>3. PICK k \in Nat : k = decoded + 1
  BY PollTypes
<1>4. PICK i \in Positions : i = cursor + k
  <2>1. cursor + k \in Positions
    BY <1>1, <1>3, PollTypes DEF Positions
  <2> QED BY <2>1
<1>5. Original(i) \in Content /\ Original(i).from = i
  BY ContentTypes
<1>6. \A l \in Listeners : \A s \in Held(l) : s.link \in 1 .. Len(heap)
  BY DEF ReplicationInv, InboxInv
<1>7. CASE k <= Len(raw)
  <2>1. PICK a \in 1 .. Len(heap) : a = raw[k]
    BY <1>3, <1>7, PollTypes
  <2>2. PICK new \in Content : new = Merge(heap[a], Original(i)) /\ new.from = i
    BY <2>1, PollTypes, MergeType
  <2>3. heap' = [heap EXCEPT ![a] = new] /\ reused' = reused \cup {i, heap[a].from}
    BY <1>3, <1>4, <1>7, <2>1, <2>2 DEF Decode
  <2>4. \A l \in Listeners : \A s \in Held(l) :
          heap'[s.link].from = heap[s.link].from \/ heap'[s.link].from \in reused'
    BY <1>6, <2>2, <2>3, PollTypes
  <2> QED BY <1>1, <1>2, <2>3, <2>4, KeepsFrame
<1>8. CASE ~ (k <= Len(raw))
  <2>1. PICK new \in Content : new = Original(i)
    BY <1>5
  <2>2. heap' = Append(heap, new) /\ reused' = reused
    BY <1>3, <1>4, <1>8, <2>1 DEF Decode
  <2>3. \A l \in Listeners : \A s \in Held(l) : heap'[s.link].from = heap[s.link].from
    BY <1>6, <2>2, PollTypes
  <2> QED BY <1>1, <1>2, <2>2, <2>3, KeepsFrame
<1> QED BY <1>7, <1>8

\* Every listener is registered: the page that is now to be sent begins where the cursor
\* was.
LEMMA DecryptKeeps ==
  ASSUME ReplicationInv, KeepsInv, Decrypt
  PROVE  KeepsInv'
<1> DEFINE copy(k) ==
      [heap[raw[k]] EXCEPT !.plain = k \in {j \in 1 .. decoded : cursor + j \in Readable}]
<1>1. PICK copies : copies = [k \in 1 .. decoded |-> copy(k)]
  OBVIOUS
<1>2. /\ pc = "decode" /\ cursor + decoded = last
      /\ heap' = heap \o copies
      /\ cursor' = last /\ toNotify' = Order
      /\ UNCHANGED <<last, decoded, reused, listenerVars>>
  BY <1>1 DEF Decrypt
<1>3. toNotify = << >>
  BY <1>2 DEF ReplicationInv, PollInv
<1>4. \A l \in Listeners : SentUpTo(l)' = SentUpTo(l)
  <2>1. \A l \in Listeners : SentUpTo(l) = cursor
    BY <1>3 DEF SentUpTo
  <2>2. \A l \in Listeners : SentUpTo(l)' = last - decoded
    BY <1>2, OrderAssumption DEF SentUpTo
  <2> QED BY <1>2, <2>1, <2>2, PollTypes
<1>5. \A a \in 1 .. Len(heap) : heap'[a] = heap[a]
  <2> HIDE DEF copy
  <2>1. PICK S : S = Content \cup {copy(k) : k \in 1 .. decoded}
    OBVIOUS
  <2>2. heap \in Seq(S) /\ copies \in Seq(S)
    BY <1>1, <2>1, PollTypes
  <2> QED BY <1>2, <2>2, ConcatProperties
<1>6. \A l \in Listeners : \A s \in Held(l) : s.link \in 1 .. Len(heap)
  BY DEF ReplicationInv, InboxInv
<1> QED BY <1>2, <1>4, <1>5, <1>6, KeepsFrame

\* Sending: the page is in the listener's hand, and what came before it is kept, as its
\* hands were empty.
LEMMA SendKeeps ==
  ASSUME ReplicationInv, KeepsInv, Send
  PROVE  KeepsInv'
<1> PICK l : l = Head(toNotify)
  OBVIOUS
<1> PICK page : page = [k \in 1 .. decoded |-> [link |-> raw[k], hash |-> last - decoded + k]]
  OBVIOUS
<1>1. /\ pc = "notify" /\ toNotify # << >> /\ inbox[l] = << >>
      /\ l \in Indexers => batch[l] = {}
      /\ inbox' = [inbox EXCEPT ![l] = page]
      /\ toNotify' = Tail(toNotify)
      /\ UNCHANGED <<cursor, pc, heap, raw, last, decoded, reused, batch, gone, store, index>>
  BY DEF Send
<1>2. /\ toNotify \in Seq(Listeners) /\ l \in Listeners /\ toNotify[1] = l
      /\ 1 \in 1 .. Len(toNotify)
      /\ Len(toNotify') = Len(toNotify) - 1
      /\ \A n \in 1 .. Len(toNotify') : toNotify'[n] = toNotify[n + 1]
  <2>1. toNotify \in Seq(Listeners)
    BY DEF ReplicationInv, TypeOK
  <2> QED BY <1>1, <2>1
<1>3. cursor = last /\ decoded <= Len(raw) /\ decoded <= cursor
  BY <1>1 DEF ReplicationInv, PollInv
<1>4. SentUpTo(l) = last - decoded /\ SentUpTo(l)' \in {last - decoded, last}
  BY <1>1, <1>2, <1>3 DEF SentUpTo
<1>5. ASSUME NEW m \in Listeners, m # l
      PROVE  SentUpTo(m)' = SentUpTo(m) /\ Held(m)' = Held(m)
  <2>1. (\E n \in 1 .. Len(toNotify) : toNotify[n] = m)
          <=> (\E n \in 1 .. Len(toNotify') : toNotify'[n] = m)
    <3>1. ASSUME NEW n \in 1 .. Len(toNotify), toNotify[n] = m
          PROVE  n - 1 \in 1 .. Len(toNotify') /\ toNotify'[n - 1] = m
      <4>1. n # 1
        BY <1>2, <1>5, <3>1
      <4>2. n - 1 \in 1 .. Len(toNotify') /\ (n - 1) + 1 = n
        BY <1>2, <4>1
      <4> QED BY <1>2, <3>1, <4>2
    <3>2. \A n \in 1 .. Len(toNotify') : n + 1 \in 1 .. Len(toNotify)
      BY <1>2
    <3> QED BY <1>2, <3>1, <3>2
  <2>2. Held(m)' = Held(m)
    BY <1>1, <1>5 DEF ReplicationInv, TypeOK, Held
  <2> QED BY <1>1, <2>1, <2>2 DEF SentUpTo
<1>6. /\ \A k \in 1 .. decoded : \E s \in Held(l)' : s.hash = last - decoded + k
      /\ \A s \in Held(l)' : heap[s.link].from = s.hash
  <2>1. inbox'[l] = page /\ Len(page) = decoded
    BY <1>1, <1>2, PollTypes DEF ReplicationInv, TypeOK
  <2>2. Held(l)' = {page[k] : k \in 1 .. decoded}
    BY <2>1 DEF Held
  <2>3. ASSUME NEW k \in 1 .. decoded
        PROVE  page[k].hash = last - decoded + k /\ heap[page[k].link].from = page[k].hash
    <3>1. page[k].link = raw[k] /\ page[k].hash = cursor - decoded + k
      BY <1>3
    <3>2. Holds(raw[k], cursor - decoded + k, Decrypted(cursor - decoded + k))
      BY <1>1, <1>3, PollTypes DEF ReplicationInv, SlotsInv, New
    <3> QED BY <1>3, <3>1, <3>2 DEF Holds
  <2> QED BY <2>2, <2>3
<1>7. Held(l) = {}
  BY <1>1 DEF Held
<1>8. ASSUME NEW i \in 1 .. SentUpTo(l)' PROVE i \in 1 .. SentUpTo(l) \/ InHand(l, i)'
  <2>1. CASE i <= last - decoded
    BY <1>4, <2>1, PollTypes
  <2>2. CASE ~ (i <= last - decoded)
    <3>1. PICK k \in 1 .. decoded : i = last - decoded + k
      <4>1. i - (last - decoded) \in 1 .. decoded
        BY <1>4, <2>2, PollTypes
      <4>2. i = last - decoded + (i - (last - decoded))
        BY PollTypes
      <4> QED BY <4>1, <4>2
    <3> QED BY <1>6, <3>1 DEF InHand
  <2> QED BY <2>1, <2>2
<1>9. \A m \in Listeners : \A s \in Held(m)' :
        heap'[s.link].from = s.hash \/ heap'[s.link].from \in reused'
  BY <1>1, <1>5, <1>6 DEF KeepsInv
<1>10. \A m \in Indexers : \A d \in batch'[m] : d.key.from = d.hash \/ d.key.from \in reused'
  BY <1>1 DEF KeepsInv
<1>11. ASSUME NEW m \in Parsers \ gone', NEW i \in 1 .. SentUpTo(m)'
       PROVE  store'[m][i] # Missing \/ InHand(m, i)'
  BY <1>1, <1>5, <1>7, <1>8 DEF KeepsInv, InHand, Listeners
<1>12. ASSUME NEW m \in Indexers \ gone', NEW i \in (1 .. SentUpTo(m)') \ reused'
       PROVE  (\E d \in index'[m] \cup batch'[m] : d.hash = i) \/ InHand(m, i)'
  BY <1>1, <1>5, <1>7, <1>8 DEF KeepsInv, InHand, Listeners
<1> QED BY <1>9, <1>10, <1>11, <1>12 DEF KeepsInv

\* Taking a segment out of the inbox: only that link leaves the hand.
LEMMA TakeHand ==
  ASSUME ReplicationInv, NEW l \in Listeners, inbox[l] # << >>,
         inbox' = [inbox EXCEPT ![l] = Tail(@)]
  PROVE  /\ Head(inbox[l]) \in Held(l)
         /\ \A m \in Listeners : Held(m)' \subseteq Held(m)
         /\ \A m \in Listeners \ {l} : Held(m)' = Held(m)
         /\ \A s \in Held(l) : s = Head(inbox[l]) \/ s \in Held(l)'
<1>1. inbox \in [Listeners -> Seq(Segment)]
  BY DEF ReplicationInv, TypeOK
<1>2. PICK q \in Seq(Segment) : q = inbox[l]
  BY <1>1
<1>3. /\ inbox'[l] = Tail(q) /\ Head(q) = q[1] /\ Len(q) >= 1 /\ Len(Tail(q)) = Len(q) - 1
      /\ \A n \in 1 .. Len(Tail(q)) : Tail(q)[n] = q[n + 1] /\ n + 1 \in 1 .. Len(q)
  BY <1>1, <1>2
<1>4. \A n \in 1 .. Len(q) : n # 1 => n - 1 \in 1 .. Len(Tail(q)) /\ Tail(q)[n - 1] = q[n]
  BY <1>2, <1>3
<1>5. Held(l) = {q[n] : n \in 1 .. Len(q)} /\ Held(l)' = {Tail(q)[n] : n \in 1 .. Len(Tail(q))}
  BY <1>2, <1>3 DEF Held
<1>6. \A m \in Listeners \ {l} : Held(m)' = Held(m)
  BY <1>1 DEF Held
<1>7. Held(l)' \subseteq Held(l)
  BY <1>3, <1>5
<1>8. Head(q) \in Held(l)
  BY <1>2, <1>3, <1>5
<1>9. \A s \in Held(l) : s = Head(q) \/ s \in Held(l)'
  BY <1>3, <1>4, <1>5
<1> QED BY <1>2, <1>6, <1>7, <1>8, <1>9

LEMMA PutKeeps ==
  ASSUME ReplicationInv, KeepsInv, NEW l \in Parsers, Put(l)
  PROVE  KeepsInv'
<1>1. l \in Listeners /\ l \notin Indexers
  BY OrderAssumption DEF Listeners
<1>2. PICK s : s = Head(inbox[l])
  OBVIOUS
<1>3. PICK content : content = heap[s.link]
  OBVIOUS
<1>4. /\ inbox[l] # << >>
      /\ store' = [store EXCEPT ![l][s.hash] = content]
      /\ inbox' = [inbox EXCEPT ![l] = Tail(@)]
      /\ UNCHANGED <<published, pollVars, marshaled, batch, gone, index>>
  BY <1>2, <1>3 DEF Put
<1>5. s.hash \in Positions /\ content \in Content /\ content # Missing
  <2>1. s.hash \in Positions /\ content \in Content /\ content.from \in {s.hash, s.hash + Pagination}
    BY <1>1, <1>2, <1>3, <1>4, HeadHeld
  <2> QED BY <2>1 DEF Missing, Positions
<1>6. /\ \A m \in Listeners : Held(m)' \subseteq Held(m)
      /\ \A m \in Listeners \ {l} : Held(m)' = Held(m)
      /\ \A t \in Held(l) : t = s \/ t \in Held(l)'
  BY <1>1, <1>2, <1>4, TakeHand
<1>7. \A m \in Parsers, i \in Positions :
        store'[m][i] = IF m = l /\ i = s.hash THEN content ELSE store[m][i]
  BY <1>4, <1>5 DEF ReplicationInv, TypeOK
<1>8. UNCHANGED <<heap, reused, batch, gone, index>> /\ \A m : SentUpTo(m)' = SentUpTo(m)
  BY <1>4 DEF pollVars, SentUpTo
<1>9. \A m \in Listeners : \A t \in Held(m)' :
        heap'[t.link].from = t.hash \/ heap'[t.link].from \in reused'
  BY <1>6, <1>8 DEF KeepsInv
<1>10. ASSUME NEW m \in Parsers \ gone', NEW i \in 1 .. SentUpTo(m)'
       PROVE  store'[m][i] # Missing \/ InHand(m, i)'
  <2>1. i \in Positions /\ m \in Listeners
    BY <1>8, SentPositions DEF Listeners
  <2>2. store[m][i] # Missing \/ InHand(m, i)
    BY <1>8 DEF KeepsInv
  <2> QED BY <1>5, <1>6, <1>7, <2>1, <2>2 DEF InHand
<1>11. ASSUME NEW m \in Indexers \ gone', NEW i \in (1 .. SentUpTo(m)') \ reused'
       PROVE  (\E d \in index'[m] \cup batch'[m] : d.hash = i) \/ InHand(m, i)'
  BY <1>1, <1>6, <1>8 DEF KeepsInv, InHand, Listeners
<1> QED BY <1>8, <1>9, <1>10, <1>11 DEF KeepsInv

LEMMA IndexLinkKeeps ==
  ASSUME ReplicationInv, KeepsInv, NEW l \in Indexers, IndexLink(l)
  PROVE  KeepsInv'
<1>1. l \in Listeners /\ l \notin Parsers
  BY OrderAssumption DEF Listeners
<1>2. PICK s : s = Head(inbox[l])
  OBVIOUS
<1>3. PICK doc : doc = [key |-> heap[s.link], raw |-> marshaled[l], hash |-> s.hash]
  OBVIOUS
<1>4. /\ inbox[l] # << >>
      /\ batch' = [batch EXCEPT ![l] = {d \in @ : d.key # doc.key} \cup {doc}]
      /\ inbox' = [inbox EXCEPT ![l] = Tail(@)]
      /\ UNCHANGED <<published, pollVars, gone, store, index>>
  BY <1>2, <1>3 DEF IndexLink
<1>5. /\ \A m \in Listeners : Held(m)' \subseteq Held(m)
      /\ \A m \in Listeners \ {l} : Held(m)' = Held(m)
      /\ s \in Held(l)
      /\ \A t \in Held(l) : t = s \/ t \in Held(l)'
  BY <1>1, <1>2, <1>4, TakeHand
<1>6. doc.key.from = doc.hash \/ doc.key.from \in reused
  BY <1>1, <1>3, <1>5 DEF KeepsInv
<1>7. /\ batch'[l] = {d \in batch[l] : d.key # doc.key} \cup {doc}
      /\ \A m \in Indexers \ {l} : batch'[m] = batch[m]
  <2>1. PICK B : B = {d \in batch[l] : d.key # doc.key} \cup {doc}
    OBVIOUS
  <2>2. batch' = [batch EXCEPT ![l] = B]
    BY <1>4, <2>1
  <2> QED BY <2>1, <2>2 DEF ReplicationInv, TypeOK
<1>8. UNCHANGED <<heap, reused, gone, store, index>> /\ \A m : SentUpTo(m)' = SentUpTo(m)
  BY <1>4 DEF pollVars, SentUpTo
<1>9. \A m \in Listeners : \A t \in Held(m)' :
        heap'[t.link].from = t.hash \/ heap'[t.link].from \in reused'
  BY <1>5, <1>8 DEF KeepsInv
<1>10. \A m \in Indexers : \A d \in batch'[m] : d.key.from = d.hash \/ d.key.from \in reused'
  BY <1>6, <1>7, <1>8 DEF KeepsInv
<1>11. ASSUME NEW m \in Parsers \ gone', NEW i \in 1 .. SentUpTo(m)'
       PROVE  store'[m][i] # Missing \/ InHand(m, i)'
  BY <1>1, <1>5, <1>8 DEF KeepsInv, InHand, Listeners
<1>12. ASSUME NEW m \in Indexers \ gone', NEW i \in (1 .. SentUpTo(m)') \ reused'
       PROVE  (\E d \in index'[m] \cup batch'[m] : d.hash = i) \/ InHand(m, i)'
  <2>1. (\E d \in index[m] \cup batch[m] : d.hash = i) \/ InHand(m, i)
    BY <1>8 DEF KeepsInv
  <2>2. CASE m # l
    BY <1>5, <1>7, <1>8, <2>1, <2>2 DEF InHand, Listeners
  <2>3. CASE m = l
    <3>1. i \in Positions /\ i \notin reused
      BY <1>1, <1>8, <2>3, SentPositions
    <3>2. ASSUME NEW d \in batch[l], d.hash = i, d.key = doc.key PROVE doc.hash = i
      <4>1. d.key = Decrypted(i)
        BY <3>1, <3>2 DEF ReplicationInv, KeptInv, IndexerInv, Faithful
      <4>2. doc.key.from = i
        BY <3>1, <3>2, <4>1, ContentTypes
      <4> QED BY <1>6, <3>1, <4>2
    <3>3. ASSUME NEW d \in index[l] \cup batch[l], d.hash = i
          PROVE  \E e \in index'[l] \cup batch'[l] : e.hash = i
      <4>1. CASE d \in index[l] \/ d.key # doc.key
        BY <1>7, <1>8, <3>3, <4>1
      <4>2. CASE d \in batch[l] /\ d.key = doc.key
        BY <1>7, <3>2, <3>3, <4>2
      <4> QED BY <3>3, <4>1, <4>2
    <3>4. ASSUME InHand(l, i)
          PROVE  (\E e \in index'[l] \cup batch'[l] : e.hash = i) \/ InHand(l, i)'
      <4>1. PICK t \in Held(l) : t.hash = i
        BY <3>4 DEF InHand
      <4>2. CASE t = s
        BY <1>3, <1>7, <4>1, <4>2
      <4> QED BY <1>5, <4>1, <4>2 DEF InHand
    <3> QED BY <2>1, <2>3, <3>3, <3>4
  <2> QED BY <2>2, <2>3
<1> QED BY <1>8, <1>9, <1>10, <1>11, <1>12 DEF KeepsInv

\* A document of the index gives way to one of the same link.
LEMMA CommitKeeps ==
  ASSUME ReplicationInv, KeepsInv, NEW l \in Indexers, CommitBatch(l)
  PROVE  KeepsInv'
<1>1. PICK D : D = {d \in index[l] : \A e \in batch[l] : d.key # e.key} \cup batch[l]
  OBVIOUS
<1>2. /\ index' = [index EXCEPT ![l] = D]
      /\ batch' = [batch EXCEPT ![l] = {}]
      /\ UNCHANGED <<published, pollVars, inbox, marshaled, gone, store>>
  BY <1>1 DEF CommitBatch
<1>3. /\ index'[l] = D /\ batch'[l] = {}
      /\ \A m \in Indexers \ {l} : index'[m] = index[m] /\ batch'[m] = batch[m]
  BY <1>2 DEF ReplicationInv, TypeOK
<1>4. /\ UNCHANGED <<heap, reused, gone, store>>
      /\ \A m : SentUpTo(m)' = SentUpTo(m) /\ Held(m)' = Held(m)
  BY <1>2 DEF pollVars, SentUpTo, Held
<1>5. \A m \in Listeners : \A t \in Held(m)' :
        heap'[t.link].from = t.hash \/ heap'[t.link].from \in reused'
  BY <1>4 DEF KeepsInv
<1>6. \A m \in Indexers : \A d \in batch'[m] : d.key.from = d.hash \/ d.key.from \in reused'
  BY <1>3, <1>4 DEF KeepsInv
<1>7. ASSUME NEW m \in Parsers \ gone', NEW i \in 1 .. SentUpTo(m)'
      PROVE  store'[m][i] # Missing \/ InHand(m, i)'
  BY <1>4 DEF KeepsInv, InHand
<1>8. ASSUME NEW m \in Indexers \ gone', NEW i \in (1 .. SentUpTo(m)') \ reused'
      PROVE  (\E d \in index'[m] \cup batch'[m] : d.hash = i) \/ InHand(m, i)'
  <2>1. (\E d \in index[m] \cup batch[m] : d.hash = i) \/ InHand(m, i)
    BY <1>4 DEF KeepsInv
  <2>2. CASE m # l
    BY <1>3, <1>4, <2>1, <2>2 DEF InHand
  <2>3. CASE m = l
    <3>1. i \in Positions /\ i \notin reused
      BY <1>4, <2>3, SentPositions DEF Listeners
    <3>2. ASSUME NEW d \in index[l], d.hash = i, NEW e \in batch[l], d.key = e.key
          PROVE  e.hash = i
      <4>1. d.key = Decrypted(i)
        BY <3>1, <3>2 DEF ReplicationInv, KeptInv, FaithfulUnlessReused
      <4>2. e.key.from = i
        BY <3>1, <3>2, <4>1, ContentTypes
      <4> QED BY <3>1, <4>2 DEF KeepsInv
    <3>3. ASSUME NEW d \in index[l] \cup batch[l], d.hash = i
          PROVE  \E e \in index'[l] : e.hash = i
      <4>1. CASE d \in batch[l] \/ \A e \in batch[l] : d.key # e.key
        BY <1>1, <1>3, <3>3, <4>1
      <4>2. CASE d \in index[l] /\ \E e \in batch[l] : d.key = e.key
        BY <1>1, <1>3, <3>2, <3>3, <4>2
      <4> QED BY <3>3, <4>1, <4>2
    <3> QED BY <1>4, <2>1, <2>3, <3>3 DEF InHand
  <2> QED BY <2>2, <2>3
<1> QED BY <1>4, <1>5, <1>6, <1>7, <1>8 DEF KeepsInv

LEMMA FailKeeps ==
  ASSUME ReplicationInv, KeepsInv, NEW l \in Listeners, Fail(l)
  PROVE  KeepsInv'
<1>1. /\ gone' = gone \cup {l}
      /\ inbox' = [inbox EXCEPT ![l] = << >>]
      /\ batch' = [m \in Indexers |-> IF m = l THEN {} ELSE batch[m]]
      /\ UNCHANGED <<published, pollVars, marshaled, store, index>>
  BY DEF Fail
<1>2. /\ UNCHANGED <<heap, reused, store, index>> /\ \A m : SentUpTo(m)' = SentUpTo(m)
  BY <1>1 DEF pollVars, SentUpTo
<1>3. \A m \in Listeners : IF m = l THEN Held(m)' = {} ELSE Held(m)' = Held(m)
  <2>1. \A m \in Listeners : inbox'[m] = IF m = l THEN << >> ELSE inbox[m]
    BY <1>1 DEF ReplicationInv, TypeOK
  <2> QED BY <2>1 DEF Held
<1>4. \A m \in Indexers : IF m = l THEN batch'[m] = {} ELSE batch'[m] = batch[m]
  BY <1>1
<1>5. \A m \in Listeners : \A t \in Held(m)' :
        heap'[t.link].from = t.hash \/ heap'[t.link].from \in reused'
  BY <1>2, <1>3 DEF KeepsInv
<1>6. \A m \in Indexers : \A d \in batch'[m] : d.key.from = d.hash \/ d.key.from \in reused'
  BY <1>2, <1>4 DEF KeepsInv
<1>7. ASSUME NEW m \in Parsers \ gone', NEW i \in 1 .. SentUpTo(m)'
      PROVE  store'[m][i] # Missing \/ InHand(m, i)'
  BY <1>1, <1>2, <1>3 DEF KeepsInv, InHand, Listeners
<1>8. ASSUME NEW m \in Indexers \ gone', NEW i \in (1 .. SentUpTo(m)') \ reused'
      PROVE  (\E d \in index'[m] \cup batch'[m] : d.hash = i) \/ InHand(m, i)'
  BY <1>1, <1>2, <1>3, <1>4 DEF KeepsInv, InHand, Listeners
<1> QED BY <1>5, <1>6, <1>7, <1>8 DEF KeepsInv

LEMMA NextKeeps == ReplicationInv /\ KeepsInv /\ [Next]_vars => KeepsInv'
<1> SUFFICES ASSUME ReplicationInv, KeepsInv, [Next]_vars PROVE KeepsInv'
  OBVIOUS
<1>1. CASE UNCHANGED vars
  <2>1. UNCHANGED <<listenerVars, heap, reused>> /\ \A l : SentUpTo(l)' = SentUpTo(l)
    BY <1>1 DEF vars, pollVars, SentUpTo
  <2> QED BY <2>1, KeepsFrame
<1>2. CASE Publish \/ pollAndNotify
  BY <1>2, PollerKeeps, DecodeKeeps, DecryptKeeps, SendKeeps DEF pollAndNotify
<1>3. ASSUME NEW l \in Indexers, Marshal(l) PROVE KeepsInv'
  <2>1. UNCHANGED <<heap, reused, inbox, batch, gone, store, index>>
        /\ \A m : SentUpTo(m)' = SentUpTo(m)
    BY <1>3 DEF Marshal, pollVars, SentUpTo
  <2> QED BY <2>1 DEF KeepsInv, InHand, Held
<1> QED BY <1>1, <1>2, <1>3, PutKeeps, IndexLinkKeeps, CommitKeeps, FailKeeps DEF Next

-----------------------------------------------------------------------------
(* The theorems.                                                           *)

\* What the poller, the parsers and the bleveparsers hold keeps its shape: in particular
\* every pointer of rsp and of a segment is that of an object.
THEOREM TypeCorrect == Spec => []TypeOK
<1>1. ReplicationInv => TypeOK
  BY DEF ReplicationInv
<1> QED BY <1>1, InitInv, NextInv, PTL DEF Spec

\* A parser stores, under a link's hash, that link or the one decoded over it, which is
\* at the same place of the next page: the poller waits for the listener before it goes
\* further, whatever the listeners and the page size.
THEOREM OnePageAhead == Spec => []AtMostOnePageAhead
<1>1. ReplicationInv => AtMostOnePageAhead
  BY DEF ReplicationInv, KeptInv
<1> QED BY <1>1, InitInv, NextInv, PTL DEF Spec

\* A link whose object served no other link is stored and indexed as the API sent it,
\* decrypted when it can be: the interleavings of decoding, decryption and reading harm
\* only the links that a poll of several pages decodes into one object.
THEOREM KeptFaithfully == Spec => []FaithfulUnlessReused
<1>1. ReplicationInv => FaithfulUnlessReused
  BY DEF ReplicationInv, KeptInv
<1> QED BY <1>1, InitInv, NextInv, PTL DEF Spec

\* The poller leaves no link behind, and no listener loses one it was sent: a parser that
\* is not in the middle of a page has every link under its hash, and the index misses at
\* most links whose objects were reused.
THEOREM NothingLost == Spec => []NothingSkipped
<1>1. ReplicationInv /\ KeepsInv => NothingSkipped
  <2> SUFFICES ASSUME ReplicationInv, KeepsInv, NEW l \in Listeners \ gone
               PROVE  /\ l \in Parsers /\ inbox[l] = << >> =>
                           \A i \in 1 .. SentUpTo(l) : store[l][i] # Missing
                      /\ l \in Indexers /\ inbox[l] = << >> /\ batch[l] = {} =>
                           \A i \in (1 .. SentUpTo(l)) \ reused :
                             \E d \in index[l] : d.hash = i
    BY DEF NothingSkipped
  <2>1. inbox[l] = << >> => \A i : ~ InHand(l, i)
    BY DEF InHand, Held
  <2> QED BY <2>1 DEF KeepsInv
<1>2. Init => ReplicationInv /\ KeepsInv
  BY InitInv, InitKeeps
<1>3. ReplicationInv /\ KeepsInv /\ [Next]_vars => (ReplicationInv /\ KeepsInv)'
  BY NextInv, NextKeeps
<1> QED BY <1>1, <1>2, <1>3, PTL DEF Spec
=============================================================================
