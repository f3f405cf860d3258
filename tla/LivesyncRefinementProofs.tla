---------------------- MODULE LivesyncRefinementProofs ----------------------
(* Livesync implements LivesyncFeed, for any number of workflows, links,   *)
(* services and pages: the conditions under which it does, and the proof.  *)
EXTENDS LivesyncRefinement, LivesyncProofs

USE WatchedAssumption, UnknownAssumption, ConfigAssumption, BoundsAssumption,
    RequestsAssumption

-----------------------------------------------------------------------------
(* The conditions.                                                         *)

\* The cursors that registrations ask for.
Requested == UNION {{r.states[i].Cursor : i \in 1 .. Len(r.states)} : r \in Requests}

\* Register asks for both orders before it moves livesync's cursor back
\* (livesync.go:78): they have to agree on the positions that may be asked for.  They do
\* for 0, the empty cursor.
OrdersAgree ==
  \A c \in Requested \cap Nat, n \in (1 .. MaxLinks) \cup (Requested \cap Nat) :
    c < n => StringLess(c, n)

\* A registration that names workflows runs alone, while no page is on its way.
AloneUnlessNil ==
  \A s \in Services : Registering(s) /\ ~ request[s].isNil =>
    /\ pc \in {"idle", "stopped"}
    /\ \A t \in Services \ {s} : ~ Registering(t)

\* Two appends to registeredServices race over an empty list only: among three or more,
\* one listener could be dropped by a second and brought back by a third, with the links
\* of the time between missing.
NoListenerRace ==
  \A s, t \in Services : svc[s] = "add" /\ svc[t] = "add" /\ s # t => registeredServices = << >>

Calm == AloneUnlessNil /\ NoListenerRace

-----------------------------------------------------------------------------
(* The inductive invariant.                                                *)

In(q, x) == \E i \in 1 .. Len(q) : q[i] = x

\* Get on any slice of workflow states, and the slices it finds every state in.
Names(q, w) == \E i \in 1 .. Len(q) : q[i].ID = w
First(q, w) ==
  q[CHOOSE i \in 1 .. Len(q) : q[i].ID = w /\ \A j \in 1 .. i - 1 : q[j].ID # w]
Unique(q) == \A i, j \in 1 .. Len(q) : q[i].ID = q[j].ID => i = j

\* Register has returned the channel of s.
Registered(s) == svc[s] \in {"ready", "busy", "gone"}

Follows(n, c) == n \in Nat /\ c \in Nat => n <= c

\* Livesync's cursor has been compared with that of a requested workflow, and lowered to
\* it if need be.
Reached(e) == Has(e.ID) /\ Follows(cursor[Get(e.ID)], e.Cursor)

StatesInv ==
  /\ Unique(workflowStates)
  /\ \A p \in Pointer : cursor[p] \in Nat => cursor[p] \in (0 .. MaxLinks) \cup Requested
  /\ \A w \in Workflows : links[w] <= MaxLinks

\* What Register has done of its work: nothing it read has changed since, except by a
\* nil registration and its effects.
RegisterOK(s) ==
  /\ request[s] \in Requests \cup {NilRequest}
  /\ \A i \in 1 .. Len(left[s]) : left[s][i].Cursor \in Requested
  /\ left[s] # << >> => ~ request[s].isNil
  /\ svc[s] \in {"loop", "lower", "append"} =>
       \A i \in 1 .. Len(request[s].states) :
         In(left[s], request[s].states[i]) \/ Reached(request[s].states[i])
  /\ svc[s] = "lower" => /\ Has(Head(left[s]).ID)
                         /\ header[s] = <<Get(Head(left[s]).ID)>>
                         /\ Lowers(Head(left[s]).Cursor, cursor[Get(Head(left[s]).ID)])
  /\ svc[s] = "append" => header[s] = workflowStates /\ ~ Has(Head(left[s]).ID)
  /\ svc[s] = "add" =>
       /\ \A t \in Services : In(header[s], t) => In(registeredServices, t)
       /\ \A w \in Workflows : states[s][w] \in Nat =>
            /\ Has(w)
            /\ IF request[s].isNil THEN states[s][w] = 0
                                   ELSE Follows(cursor[Get(w)], states[s][w])
RegisterInv == \A s \in Services : RegisterOK(s)

\* What the poller works on.
PollingInv ==
  /\ pc \notin {"idle", "stopped"} => \A i \in 1 .. Len(todo) : In(workflowStates, todo[i])
  /\ pc = "page" /\ cursor[Current] = 0 => after = 0
  /\ pc = "call" => after = cursor[Current]
  /\ Distributing => page.hi <= links[Current.ID]
  /\ pc \in {"send", "sent"} => states[Listener][Current.ID] \in Nat
  /\ pc = "send" =>
       /\ states[Listener][Current.ID] < page.hi
       /\ batch = Slice(page, states[Listener][Current.ID])

\* The listeners that may be sent something.
Listed(s) ==
  \/ In(registeredServices, s)
  \/ pc \in {"notify", "send", "sent"} /\ In(toNotify, s)
ListedInv == \A s \in Services : Listed(s) => Registered(s)

\* The promise of a registration, and where its listener is until it receives something.
PromiseInv ==
  \A s \in Services, w \in Workflows :
    /\ ~ Registered(s) => promised[s][w] = NoPromise
    /\ Registered(s) /\ states[s][w] \in Nat =>
         /\ promised[s][w] # NoPromise
         /\ received[s][w] = << >> =>
              /\ 0 <= promised[s][w].from
              /\ promised[s][w].from <= states[s][w]
              /\ states[s][w] <= promised[s][w].upTo

\* The page on its way is still to come for s.
Pending(s, w) ==
  /\ Distributing
  /\ w = Current.ID
  /\ IF pc = "fetched" THEN In(registeredServices, s) ELSE In(toNotify, s)

\* The links after n leave none out for s.
MayComeNext(s, w, n) ==
  \/ n <= states[s][w]
  \/ received[s][w] = << >> /\ n <= promised[s][w].upTo

\* What comes next, be it the page on its way or the one the next call asks for, leaves
\* no link out.
OfferInv ==
  \A s \in Services, w \in Workflows :
    Registered(s) /\ states[s][w] \in Nat =>
      /\ Pending(s, w) /\ ~ (pc = "sent" /\ s = Listener) => MayComeNext(s, w, page.lo)
      /\ In(registeredServices, s) =>
           /\ Has(w)
           /\ ~ Pending(s, w) /\ cursor[Get(w)] \in Nat => MayComeNext(s, w, cursor[Get(w)])

FeedInv == StatesInv /\ RegisterInv /\ PollingInv /\ ListedInv /\ PromiseInv /\ OfferInv

-----------------------------------------------------------------------------
(* Lemmas about the slices and the pages.                                  *)

LEMMA HasGet ==
  \A w : /\ Has(w) = Names(workflowStates, w) /\ Has(w)' = Names(workflowStates', w)
         /\ Get(w) = First(workflowStates, w) /\ Get(w)' = First(workflowStates', w)
BY DEF Has, Get, Names, First

LEMMA FirstUnique ==
  ASSUME NEW q \in Seq(Pointer), Unique(q), NEW i \in 1 .. Len(q)
  PROVE  First(q, q[i].ID) = q[i]
<1> DEFINE Is(k) == q[k].ID = q[i].ID /\ \A j \in 1 .. k - 1 : q[j].ID # q[i].ID
           k == CHOOSE n \in 1 .. Len(q) : Is(n)
<1>1. Is(i)
  BY LenProperties DEF Unique
<1>2. k \in 1 .. Len(q) /\ Is(k)
  <2> HIDE DEF Is
  <2> QED BY <1>1
<1>3. k = i
  <2> HIDE DEF k
  <2> QED BY <1>2 DEF Unique
<1>4. First(q, q[i].ID) = q[k]
  BY DEF First
<1> HIDE DEF k
<1> QED BY <1>3, <1>4

LEMMA AppendFirst ==
  ASSUME NEW q \in Seq(Pointer), Unique(q), NEW p \in Pointer, ~ Names(q, p.ID)
  PROVE  /\ Unique(Append(q, p))
         /\ First(Append(q, p), p.ID) = p
         /\ \A w : Names(Append(q, p), w) <=> Names(q, w) \/ w = p.ID
         /\ \A w : Names(q, w) => First(Append(q, p), w) = First(q, w)
<1> DEFINE r == Append(q, p)
<1>1. /\ r \in Seq(Pointer) /\ Len(q) \in Nat /\ Len(r) = Len(q) + 1
      /\ \A i \in 1 .. Len(q) : r[i] = q[i] /\ i \in 1 .. Len(r)
      /\ r[Len(q) + 1] = p
      /\ \A i \in 1 .. Len(r) : i \in 1 .. Len(q) \/ i = Len(q) + 1
  BY AppendProperties, LenProperties
<1> HIDE DEF r
<1>2. Unique(r)
  BY <1>1 DEF Unique, Names
<1>3. First(r, p.ID) = p
  <2>1. Len(q) + 1 \in 1 .. Len(r)
    BY <1>1
  <2> QED BY <1>1, <1>2, <2>1, FirstUnique
<1>4. \A w : Names(r, w) <=> Names(q, w) \/ w = p.ID
  <2>1. Len(q) + 1 \in 1 .. Len(r)
    BY <1>1
  <2> QED BY <1>1, <2>1 DEF Names
<1>5. ASSUME NEW w, Names(q, w) PROVE First(r, w) = First(q, w)
  <2>1. PICK i \in 1 .. Len(q) : q[i].ID = w
    BY <1>5 DEF Names
  <2>2. First(q, w) = q[i]
    BY <2>1, FirstUnique
  <2>3. First(r, w) = r[i]
    BY <1>1, <1>2, <2>1, FirstUnique
  <2> QED BY <1>1, <2>1, <2>2, <2>3
<1> QED BY <1>2, <1>3, <1>4, <1>5 DEF r

\* The state the poller works on is the one Get finds.
LEMMA CurrentState ==
  ASSUME TypeOK, StatesInv, PollingInv, pc \notin {"idle", "stopped"}, todo # << >>
  PROVE  /\ Current \in Pointer /\ Current.ID \in Workflows
         /\ Has(Current.ID) /\ Get(Current.ID) = Current
<1>1. Current \in Pointer /\ Current.ID \in Workflows
  BY CurrentType DEF TypeOK
<1>2. Current = todo[1] /\ 1 \in 1 .. Len(todo)
  BY EmptySeq, LenProperties, HeadTailProperties DEF Current, TypeOK, PollTypeOK
<1>3. PICK i \in 1 .. Len(workflowStates) : workflowStates[i] = Current
  BY <1>2 DEF PollingInv, In
<1>4. workflowStates \in Seq(Pointer) /\ Unique(workflowStates)
  BY DEF TypeOK, SyncTypeOK, StatesInv
<1>5. First(workflowStates, Current.ID) = Current
  BY <1>3, <1>4, FirstUnique
<1>6. Names(workflowStates, Current.ID)
  BY <1>3 DEF Names
<1> QED BY <1>1, <1>5, <1>6, HasGet

\* The part of a page that a listener behind it is sent.
LEMMA SliceNext ==
  ASSUME NEW p \in Page, NEW c \in Nat, p.lo \in Nat, p.lo < p.hi, c < p.hi
  PROVE  /\ Slice(p, c) \in Batch /\ Slice(p, c).hi = p.hi
         /\ Slice(p, c).lo = IF p.lo < c THEN c ELSE p.lo
BY DEF Slice, Page, Batch

\* A cursor that is not lowered to c is not after it.
LEMMA NotLowered ==
  ASSUME OrdersAgree, NEW c \in Requested, NEW n \in Cursor,
         n \in Nat => n \in (0 .. MaxLinks) \cup Requested, ~ Lowers(c, n)
  PROVE  Follows(n, c)
<1> SUFFICES ASSUME n \in Nat, c \in Nat, c < n PROVE FALSE
  BY DEF Follows
<1>1. CompareCursors(c, n) < 0
  BY DEF CompareCursors, Index
<1>2. n \in (1 .. MaxLinks) \cup (Requested \cap Nat)
  OBVIOUS
<1>3. StringLess(c, n)
  BY <1>2 DEF OrdersAgree
<1> QED BY <1>1, <1>3 DEF Lowers

\* One that is lowered was not a readable cursor before the new one.
LEMMA Lowered ==
  ASSUME NEW c \in Cursor, NEW n \in Cursor, Lowers(c, n)
  PROVE  c \in Nat /\ (n \in Nat => c < n) /\ (n \notin Nat => c = 0)
BY DEF Lowers, CompareCursors, Index, Cursor

\* A list is its head and its tail.
LEMMA HeadOrTail ==
  ASSUME NEW S, NEW q \in Seq(S), q # << >>
  PROVE  /\ Head(q) \in S /\ Tail(q) \in Seq(S) /\ In(q, Head(q))
         /\ \A x : In(q, x) <=> x = Head(q) \/ In(Tail(q), x)
         /\ \A i \in 1 .. Len(Tail(q)) : \E j \in 1 .. Len(q) : Tail(q)[i] = q[j]
<1>1. /\ Len(q) \in Nat /\ Len(q) >= 1 /\ Head(q) = q[1] /\ Head(q) \in S
      /\ Tail(q) \in Seq(S) /\ Len(Tail(q)) = Len(q) - 1
      /\ \A i \in 1 .. Len(Tail(q)) : Tail(q)[i] = q[i + 1]
  BY EmptySeq, LenProperties, HeadTailProperties
<1>2. \A i \in 1 .. Len(Tail(q)) : Tail(q)[i] = q[i + 1] /\ i + 1 \in 1 .. Len(q)
  BY <1>1
<1>3. ASSUME NEW i \in 1 .. Len(q), i # 1
      PROVE  i - 1 \in 1 .. Len(Tail(q)) /\ Tail(q)[i - 1] = q[i]
  <2>1. i - 1 \in 1 .. Len(Tail(q)) /\ (i - 1) + 1 = i
    BY <1>1, <1>3
  <2> QED BY <1>1, <2>1
<1>4. 1 \in 1 .. Len(q)
  BY <1>1
<1>5. \A x : In(q, x) => x = Head(q) \/ In(Tail(q), x)
  BY <1>1, <1>3 DEF In
<1>6. \A x : x = Head(q) \/ In(Tail(q), x) => In(q, x)
  BY <1>1, <1>2, <1>4 DEF In
<1> QED BY <1>1, <1>2, <1>4, <1>5, <1>6 DEF In

LEMMA AppendIn ==
  ASSUME NEW S, NEW q \in Seq(S), NEW y \in S
  PROVE  \A x : In(Append(q, y), x) <=> In(q, x) \/ x = y
<1>1. /\ Len(q) \in Nat /\ Len(Append(q, y)) = Len(q) + 1
      /\ \A i \in 1 .. Len(q) : Append(q, y)[i] = q[i]
      /\ Append(q, y)[Len(q) + 1] = y
  BY AppendProperties, LenProperties
<1>2. /\ \A i \in 1 .. Len(q) : i \in 1 .. Len(Append(q, y))
      /\ Len(q) + 1 \in 1 .. Len(Append(q, y))
      /\ \A i \in 1 .. Len(Append(q, y)) : i \in 1 .. Len(q) \/ i = Len(q) + 1
  BY <1>1
<1> QED BY <1>1, <1>2 DEF In

-----------------------------------------------------------------------------
(* The start, and the steps that leave most of it alone.                   *)

LEMMA InitFeed == Init => FeedInv
<1> SUFFICES ASSUME Init PROVE FeedInv
  OBVIOUS
<1>1. StatesInv
  <2>1. Unique(workflowStates)
    <3>1. workflowStates = [i \in 1 .. Len(Watched) |-> [owner |-> Config, ID |-> Watched[i]]]
      BY DEF Init
    <3>2. Len(workflowStates) = Len(Watched)
      BY <3>1, LenProperties, IsASeq
    <3>3. \A i \in 1 .. Len(Watched) : workflowStates[i].ID = Watched[i]
      BY <3>1
    <3> QED BY <3>2, <3>3 DEF Unique
  <2>2. \A p \in Pointer : cursor[p] = 0
    BY DEF Init
  <2> QED BY <2>1, <2>2 DEF Init, StatesInv
<1>2. RegisterInv
  BY DEF Init, RegisterInv, RegisterOK, NilRequest
<1>3. PollingInv
  BY DEF Init, PollingInv, Distributing
<1>4. ListedInv /\ PromiseInv /\ OfferInv
  BY DEF Init, ListedInv, Listed, In, PromiseInv, OfferInv, Registered
<1> QED BY <1>1, <1>2, <1>3, <1>4 DEF FeedInv

\* Links are created, and listeners handle what they received.
LEMMA OtherFeed ==
  ASSUME TypeOK, TypeOK', FeedInv,
         UNCHANGED <<syncVars, states, request, left, header, pollVars, historyVars>>,
         \A w \in Workflows : links[w] <= links'[w] /\ links'[w] <= MaxLinks,
         \A s \in Services : svc'[s] = svc[s] \/ (Registered(s) /\ Registered(s)')
  PROVE  FeedInv'
<1> USE DEF FeedInv
<1>0. UNCHANGED <<workflowStates, cursor, registeredServices, states, request, left, header,
                  pc, todo, after, page, toNotify, batch, received, promised>>
  BY DEF syncVars, pollVars, historyVars
<1>1. \A w : Has(w)' = Has(w) /\ Get(w)' = Get(w)
  BY <1>0 DEF Has, Get
<1>2. \A s \in Services : svc'[s] = svc[s] \/ svc'[s] \in {"ready", "busy", "gone"}
  BY DEF Registered
<1>9. \A s \in Services : Registered(s)' = Registered(s)
  BY DEF Registered
<1>3. StatesInv'
  BY <1>0 DEF StatesInv
<1>4. RegisterInv'
  <2>1. \A e : Reached(e)' = Reached(e)
    BY <1>0, <1>1 DEF Reached
  <2> QED BY <1>0, <1>1, <1>2, <2>1 DEF RegisterInv, RegisterOK
<1>5. PollingInv'
  <2>1. Distributing' = Distributing /\ Current' = Current /\ Listener' = Listener
    BY <1>0 DEF Distributing, Current, Listener
  <2>2. Distributing => page.hi <= links'[Current.ID]
    <3> SUFFICES ASSUME Distributing PROVE page.hi <= links'[Current.ID]
      OBVIOUS
    <3>1. Current.ID \in Workflows
      BY CurrentType DEF TypeOK, PollTypeOK, Distributing
    <3>2. page.hi \in Int /\ links[Current.ID] \in Int /\ links'[Current.ID] \in Int
      BY <3>1 DEF TypeOK, PollTypeOK, SyncTypeOK, Page
    <3> QED BY <3>1, <3>2 DEF PollingInv
  <2> QED BY <1>0, <2>1, <2>2 DEF PollingInv
<1>6. ListedInv'
  <2>1. \A s : Listed(s)' = Listed(s)
    BY <1>0 DEF Listed, In
  <2> QED BY <1>9, <2>1 DEF ListedInv
<1>7. PromiseInv'
  BY <1>0, <1>9 DEF PromiseInv
<1>8. OfferInv'
  <2>1. \A s, w : Pending(s, w)' = Pending(s, w) /\ Listener' = Listener
    BY <1>0 DEF Pending, Distributing, Current, Listener, In
  <2>2. \A s, w, n : MayComeNext(s, w, n)' = MayComeNext(s, w, n')
    BY <1>0 DEF MayComeNext
  <2>3. \A s : In(registeredServices, s)' = In(registeredServices, s)
    BY <1>0 DEF In
  <2> QED BY <1>0, <1>1, <1>9, <2>1, <2>2, <2>3 DEF OfferInv
<1> QED BY <1>3, <1>4, <1>5, <1>6, <1>7, <1>8

\* A step of the poller alone, for which no listener has a page to come that it had not,
\* and who had one and has it no more needs none of its links.
LEMMA PollerFeed ==
  ASSUME FeedInv, UNCHANGED <<apiVars, syncVars, listenerVars, historyVars>>, PollingInv',
         pc' # "sent",
         \A s \in Services : Listed(s)' => Listed(s),
         \A s \in Services, w \in Workflows :
           Pending(s, w)' => Pending(s, w) /\ page' = page /\ pc # "sent",
         \A s \in Services, w \in Workflows :
           /\ Pending(s, w) /\ ~ Pending(s, w)'
           /\ Registered(s) /\ states[s][w] \in Nat /\ In(registeredServices, s)
           /\ cursor[Get(w)] \in Nat
           => MayComeNext(s, w, cursor[Get(w)])
  PROVE  FeedInv'
<1> USE DEF FeedInv
<1>0. UNCHANGED <<links, workflowStates, cursor, registeredServices, states, svc, request, left,
                  header, received, promised>>
  BY DEF apiVars, syncVars, listenerVars, historyVars
<1>1. \A w : Has(w)' = Has(w) /\ Get(w)' = Get(w)
  BY <1>0 DEF Has, Get
<1>2. \A s : Registered(s)' = Registered(s)
  BY <1>0 DEF Registered
<1>3. StatesInv'
  BY <1>0 DEF StatesInv
<1>4. RegisterInv'
  <2>1. \A e : Reached(e)' = Reached(e)
    BY <1>0, <1>1 DEF Reached
  <2> QED BY <1>0, <1>1, <2>1 DEF RegisterInv, RegisterOK
<1>5. ListedInv'
  BY <1>2 DEF ListedInv
<1>6. PromiseInv'
  BY <1>0, <1>2 DEF PromiseInv
<1>7. OfferInv'
  <2>1. \A s, w, n : MayComeNext(s, w, n)' = MayComeNext(s, w, n')
    BY <1>0 DEF MayComeNext
  <2> SUFFICES ASSUME NEW s \in Services, NEW w \in Workflows, Registered(s), states[s][w] \in Nat
               PROVE  /\ Pending(s, w)' => MayComeNext(s, w, page'.lo)
                      /\ In(registeredServices, s) =>
                           /\ Has(w)
                           /\ ~ Pending(s, w)' /\ cursor[Get(w)] \in Nat =>
                                MayComeNext(s, w, cursor[Get(w)])
    BY <1>0, <1>1, <1>2 DEF OfferInv, MayComeNext
  <2>2. Pending(s, w)' => MayComeNext(s, w, page'.lo)
    BY DEF OfferInv
  <2>3. In(registeredServices, s) => Has(w)
    BY DEF OfferInv
  <2>4. In(registeredServices, s) /\ ~ Pending(s, w)' /\ cursor[Get(w)] \in Nat =>
          MayComeNext(s, w, cursor[Get(w)])
    BY DEF OfferInv
  <2> QED BY <2>2, <2>3, <2>4
<1> QED BY <1>3, <1>4, <1>5, <1>6, <1>7

\* A step of Register that concerns its own service only.
LEMMA RegisterFeed ==
  ASSUME FeedInv, TypeOK, NEW s \in Services, ~ Registered(s), ~ Registered(s)',
         UNCHANGED <<apiVars, syncVars, pollVars, historyVars>>,
         \A t \in Services \ {s} :
           /\ svc'[t] = svc[t] /\ request'[t] = request[t] /\ left'[t] = left[t]
           /\ header'[t] = header[t] /\ states'[t] = states[t],
         RegisterOK(s)'
  PROVE  FeedInv'
<1> USE DEF FeedInv
<1>0. UNCHANGED <<links, workflowStates, cursor, registeredServices, pc, todo, after, page,
                  toNotify, batch, received, promised>>
  BY DEF apiVars, syncVars, pollVars, historyVars
<1>1. \A w : Has(w)' = Has(w) /\ Get(w)' = Get(w)
  BY <1>0 DEF Has, Get
<1>2. \A t \in Services : Registered(t)' = Registered(t)
  BY DEF Registered
<1>3. StatesInv'
  BY <1>0 DEF StatesInv
<1>4. RegisterInv'
  <2>1. \A e : Reached(e)' = Reached(e)
    BY <1>0, <1>1 DEF Reached
  <2>2. ASSUME NEW t \in Services \ {s} PROVE RegisterOK(t)'
    <3>1. RegisterOK(t)
      BY DEF RegisterInv
    <3>2. /\ svc'[t] = svc[t] /\ request'[t] = request[t] /\ left'[t] = left[t]
          /\ header'[t] = header[t] /\ states'[t] = states[t]
      OBVIOUS
    <3> QED BY <1>0, <1>1, <2>1, <3>1, <3>2 DEF RegisterOK
  <2> QED BY <2>2 DEF RegisterInv
<1>5. PollingInv'
  <2>1. Distributing' = Distributing /\ Current' = Current /\ Listener' = Listener
    BY <1>0 DEF Distributing, Current, Listener
  <2>2. pc \in {"send", "sent"} => states'[Listener] = states[Listener]
    <3> SUFFICES ASSUME pc \in {"send", "sent"} PROVE states'[Listener] = states[Listener]
      OBVIOUS
    <3>1. toNotify \in Seq(Services) /\ toNotify # << >>
      BY DEF TypeOK, PollTypeOK
    <3>2. Listener \in Services /\ In(toNotify, Listener)
      BY <3>1, HeadOrTail DEF Listener
    <3>3. Registered(Listener)
      BY <3>2 DEF ListedInv, Listed
    <3> QED BY <3>2, <3>3
  <2> QED BY <1>0, <2>1, <2>2 DEF PollingInv
<1>6. ListedInv'
  BY <1>0, <1>2 DEF ListedInv, Listed
<1>7. PromiseInv'
  BY <1>0, <1>2 DEF PromiseInv
<1>8. OfferInv'
  <2>1. \A t, w : Pending(t, w)' = Pending(t, w) /\ Listener' = Listener
    BY <1>0 DEF Pending, Distributing, Current, Listener
  <2>2. \A t \in Services \ {s} : \A w, n : MayComeNext(t, w, n)' = MayComeNext(t, w, n')
    BY <1>0 DEF MayComeNext
  <2> QED BY <1>0, <1>1, <1>2, <2>1, <2>2 DEF OfferInv, MayComeNext
<1> QED BY <1>3, <1>4, <1>5, <1>6, <1>7, <1>8

-----------------------------------------------------------------------------
(* The steps of Register.                                                  *)

LEMMA StartFeed ==
  ASSUME TypeOK, FeedInv, NEW s \in Services, StartRegister(s)
  PROVE  FeedInv'
<1>1. PICK r \in Requests : /\ request' = [request EXCEPT ![s] = r]
                            /\ left' = [left EXCEPT ![s] = r.states]
  BY DEF StartRegister
<1>2. /\ svc[s] = "new" /\ svc' = [svc EXCEPT ![s] = "loop"]
      /\ UNCHANGED <<apiVars, syncVars, states, header, pollVars, historyVars>>
  BY DEF StartRegister
<1>3. svc'[s] = "loop" /\ request'[s] = r /\ left'[s] = r.states
  BY <1>1, <1>2 DEF TypeOK, ListenerTypeOK
<1>4. RegisterOK(s)'
  <2>1. \A i \in 1 .. Len(r.states) : r.states[i].Cursor \in Requested
    BY DEF Requested
  <2>2. r.states # << >> => ~ r.isNil
    BY RequestsAssumption
  <2> QED BY <1>3, <2>1, <2>2 DEF RegisterOK, In
<1>5. ~ Registered(s) /\ ~ Registered(s)'
  BY <1>2, <1>3 DEF Registered
<1> QED BY <1>1, <1>2, <1>4, <1>5, RegisterFeed DEF TypeOK, ListenerTypeOK

LEMMA SyncedFeed ==
  ASSUME TypeOK, FeedInv, OrdersAgree, NEW s \in Services, RegisterSynced(s)
  PROVE  FeedInv'
<1>1. /\ svc[s] = "loop" /\ left[s] # << >> /\ Has(Head(left[s]).ID)
      /\ UNCHANGED <<apiVars, syncVars, states, request, pollVars, historyVars>>
  BY DEF RegisterSynced
<1>2. PICK e \in Entry, p \in Pointer : e = Head(left[s]) /\ p = Get(e.ID)
  <2>1. Head(left[s]) \in Entry
    BY <1>1, HeadOrTail DEF TypeOK, ListenerTypeOK
  <2>2. Get(Head(left[s]).ID) \in Pointer
    BY <1>1, GetType DEF TypeOK, SyncTypeOK
  <2> QED BY <2>1, <2>2
<1>3. RegisterOK(s)
  BY DEF FeedInv, RegisterInv
<1>4. /\ workflowStates' = workflowStates /\ cursor' = cursor
      /\ states' = states /\ request' = request
      /\ \A w : Has(w)' = Has(w) /\ Get(w)' = Get(w)
  BY <1>1 DEF syncVars, Has, Get
<1>5. \A x : Reached(x)' = Reached(x)
  BY <1>4 DEF Reached
<1>6. ~ Registered(s)
  BY <1>1 DEF Registered
<1>7. CASE svc' = [svc EXCEPT ![s] = "failed"] /\ UNCHANGED <<left, header>>
  <2>1. svc'[s] = "failed"
    BY <1>7 DEF TypeOK, ListenerTypeOK
  <2>2. RegisterOK(s)' /\ ~ Registered(s)'
    BY <1>3, <1>4, <1>7, <2>1 DEF RegisterOK, Registered
  <2> QED BY <1>1, <1>6, <1>7, <2>2, RegisterFeed DEF TypeOK, ListenerTypeOK
<1>8. CASE /\ svc' = [svc EXCEPT ![s] = "lower"] /\ header' = [header EXCEPT ![s] = <<p>>]
           /\ Lowers(e.Cursor, cursor[p]) /\ UNCHANGED left
  <2>1. svc'[s] = "lower" /\ header'[s] = <<p>>
    BY <1>8 DEF TypeOK, ListenerTypeOK
  <2>2. RegisterOK(s)' /\ ~ Registered(s)'
    BY <1>1, <1>2, <1>3, <1>4, <1>5, <1>8, <2>1 DEF RegisterOK, Registered
  <2> QED BY <1>1, <1>6, <1>8, <2>2, RegisterFeed DEF TypeOK, ListenerTypeOK
<1>9. CASE /\ left' = [left EXCEPT ![s] = Tail(@)] /\ ~ Lowers(e.Cursor, cursor[p])
           /\ UNCHANGED <<svc, header>>
  <2>1. left'[s] = Tail(left[s])
    BY <1>9 DEF TypeOK, ListenerTypeOK
  <2>2. /\ \A x : In(left[s], x) => x = e \/ In(left'[s], x)
        /\ \A i \in 1 .. Len(left'[s]) : \E j \in 1 .. Len(left[s]) : left'[s][i] = left[s][j]
        /\ In(left[s], e)
    BY <1>1, <1>2, <2>1, HeadOrTail DEF TypeOK, ListenerTypeOK
  <2>3. e.Cursor \in Requested
    BY <1>3, <2>2 DEF RegisterOK, In
  <2>4. Follows(cursor[p], e.Cursor)
    <3>1. cursor[p] \in Cursor /\ (cursor[p] \in Nat => cursor[p] \in (0 .. MaxLinks) \cup Requested)
      BY DEF TypeOK, SyncTypeOK, FeedInv, StatesInv
    <3> QED BY <1>9, <2>3, <3>1, NotLowered
  <2>5. Reached(e)
    BY <1>1, <1>2, <2>4 DEF Reached
  <2>6. RegisterOK(s)' /\ ~ Registered(s)'
    BY <1>1, <1>3, <1>4, <1>5, <1>9, <2>2, <2>5 DEF RegisterOK, Registered
  <2> QED BY <1>1, <1>6, <1>9, <2>6, RegisterFeed DEF TypeOK, ListenerTypeOK
<1> QED BY <1>2, <1>7, <1>8, <1>9 DEF RegisterSynced

LEMMA NewFeed ==
  ASSUME TypeOK, FeedInv, NEW s \in Services, RegisterNew(s)
  PROVE  FeedInv'
<1>1. /\ svc[s] = "loop" /\ left[s] # << >> /\ ~ Has(Head(left[s]).ID)
      /\ header' = [header EXCEPT ![s] = workflowStates]
      /\ svc' = [svc EXCEPT ![s] = "append"]
      /\ UNCHANGED <<apiVars, syncVars, states, request, left, pollVars, historyVars>>
  BY DEF RegisterNew
<1>2. svc'[s] = "append" /\ header'[s] = workflowStates
  BY <1>1 DEF TypeOK, ListenerTypeOK
<1>3. /\ workflowStates' = workflowStates /\ cursor' = cursor
      /\ \A w : Has(w)' = Has(w) /\ Get(w)' = Get(w)
  BY <1>1 DEF syncVars, Has, Get
<1>4. \A x : Reached(x)' = Reached(x)
  BY <1>3 DEF Reached
<1>5. RegisterOK(s)
  BY DEF FeedInv, RegisterInv
<1>6. RegisterOK(s)' /\ ~ Registered(s) /\ ~ Registered(s)'
  BY <1>1, <1>2, <1>3, <1>4, <1>5 DEF RegisterOK, Registered
<1> QED BY <1>1, <1>6, RegisterFeed DEF TypeOK, ListenerTypeOK

LEMMA BuildFeed ==
  ASSUME TypeOK, FeedInv, NEW s \in Services, BuildListener(s)
  PROVE  FeedInv'
<1>1. /\ svc[s] = "loop" /\ left[s] = << >>
      /\ states' = [states EXCEPT ![s] = IF request[s].isNil THEN AllStates
                                         ELSE StatesOf(request[s].states)]
      /\ header' = [header EXCEPT ![s] = registeredServices]
      /\ svc' = [svc EXCEPT ![s] = "add"]
      /\ UNCHANGED <<apiVars, syncVars, request, left, pollVars, historyVars>>
  BY DEF BuildListener
<1>2. /\ svc'[s] = "add" /\ header'[s] = registeredServices
      /\ states'[s] = IF request[s].isNil THEN AllStates ELSE StatesOf(request[s].states)
  BY <1>1 DEF TypeOK, ListenerTypeOK
<1>3. /\ workflowStates' = workflowStates /\ cursor' = cursor
      /\ registeredServices' = registeredServices
      /\ \A w : Has(w)' = Has(w) /\ Get(w)' = Get(w)
  BY <1>1 DEF syncVars, Has, Get
<1>4. RegisterOK(s)
  BY DEF FeedInv, RegisterInv
<1>5. ASSUME NEW w \in Workflows, states'[s][w] \in Nat
      PROVE  /\ Has(w)
             /\ IF request[s].isNil THEN states'[s][w] = 0
                                    ELSE Follows(cursor[Get(w)], states'[s][w])
  <2>1. CASE request[s].isNil
    BY <1>2, <1>5, <2>1 DEF AllStates, None
  <2>2. CASE ~ request[s].isNil
    <3>1. request[s].states \in Seq(Entry)
      BY DEF TypeOK, ListenerTypeOK, Request
    <3>2. StatesOf(request[s].states)[w] # None
      BY <1>2, <1>5, <2>2 DEF None
    <3>3. PICK i \in 1 .. Len(request[s].states) :
            /\ request[s].states[i].ID = w
            /\ states'[s][w] = request[s].states[i].Cursor
      BY <1>2, <2>2, <3>1, <3>2, StatesOfEntry
    <3>4. ~ In(left[s], request[s].states[i])
      BY <1>1 DEF In
    <3>5. Reached(request[s].states[i])
      BY <1>1, <1>4, <3>4 DEF RegisterOK
    <3> QED BY <2>2, <3>3, <3>5 DEF Reached
  <2> QED BY <2>1, <2>2
<1>6. RegisterOK(s)' /\ ~ Registered(s) /\ ~ Registered(s)'
  BY <1>1, <1>2, <1>3, <1>4, <1>5 DEF RegisterOK, Registered
<1> QED BY <1>1, <1>6, RegisterFeed DEF TypeOK, ListenerTypeOK

\* Register moves a livesync cursor back, or adds a workflow: the poller waits, and no
\* listener's next link is moved beyond what he received or asked for.
LEMMA WriteFeed ==
  ASSUME TypeOK, FeedInv, Calm, NEW s \in Services, NEW h \in Entry, h = Head(left[s]),
         svc[s] \in {"lower", "append"}, svc' = [svc EXCEPT ![s] = "loop"],
         left' = [left EXCEPT ![s] = Tail(@)], header' = [header EXCEPT ![s] = << >>],
         UNCHANGED <<apiVars, registeredServices, states, request, pollVars, historyVars>>,
         StatesInv', Reached(h)', \A e \in Entry : Reached(e) => Reached(e)',
         \A w \in Workflows : Has(w) =>
           /\ Has(w)'
           /\ cursor'[Get(w)'] \in Nat =>
                \/ cursor'[Get(w)'] = 0
                \/ cursor[Get(w)] \in Nat /\ cursor'[Get(w)'] <= cursor[Get(w)]
  PROVE  FeedInv'
<1> USE DEF FeedInv
<1>0. /\ UNCHANGED <<links, registeredServices, states, request, pc, todo, after, page,
                     toNotify, batch, received, promised>>
      /\ svc'[s] = "loop" /\ left'[s] = Tail(left[s])
      /\ \A t \in Services \ {s} : svc'[t] = svc[t] /\ left'[t] = left[t]
  BY DEF apiVars, pollVars, historyVars, TypeOK, ListenerTypeOK
<1>1. left[s] # << >> /\ left[s] \in Seq(Entry) /\ request[s].states \in Seq(Entry)
  BY DEF TypeOK, ListenerTypeOK, Request
<1>2. /\ pc \in {"idle", "stopped"}
      /\ \A t \in Services \ {s} : svc[t] \notin {"loop", "lower", "append", "add"}
  <2>1. ~ request[s].isNil
    BY <1>1 DEF RegisterInv, RegisterOK
  <2> QED BY <2>1 DEF Calm, AloneUnlessNil, Registering
<1>3. \A t \in Services : Registered(t)' = Registered(t)
  BY <1>0 DEF Registered
<1>4. RegisterInv'
  <2>1. RegisterOK(s)'
    <3>1. RegisterOK(s)
      BY DEF RegisterInv
    <3>0. left'[s] = Tail(left[s])
      BY <1>0
    <3>2. /\ \A x : In(left[s], x) => x = h \/ In(left'[s], x)
          /\ \A i \in 1 .. Len(left'[s]) : \E j \in 1 .. Len(left[s]) : left'[s][i] = left[s][j]
      BY <1>1, <3>0, HeadOrTail
    <3>3. ASSUME NEW i \in 1 .. Len(request[s].states)
          PROVE  In(left'[s], request[s].states[i]) \/ Reached(request[s].states[i])'
      <4>1. PICK x \in Entry : x = request[s].states[i]
        BY <1>1, ElementOfSeq
      <4>2. In(left[s], x) \/ Reached(x)
        BY <3>1, <4>1 DEF RegisterOK
      <4>3. In(left'[s], x) \/ Reached(x)'
        BY <3>2, <4>2
      <4>4. Reached(request[s].states[i])' = Reached(x)'
        BY <1>0, <4>1 DEF Reached
      <4> QED BY <4>1, <4>3, <4>4
    <3> QED BY <1>0, <1>1, <3>1, <3>2, <3>3 DEF RegisterOK
  <2>2. ASSUME NEW t \in Services \ {s} PROVE RegisterOK(t)'
    <3>1. RegisterOK(t)
      BY DEF RegisterInv
    <3> QED BY <1>0, <1>2, <3>1 DEF RegisterOK
  <2> QED BY <2>1, <2>2 DEF RegisterInv
<1>5. PollingInv'
  BY <1>0, <1>2 DEF PollingInv, Distributing
<1>6. ListedInv'
  <2>1. \A t : Listed(t)' = Listed(t)
    BY <1>0 DEF Listed, In
  <2> QED BY <1>3, <2>1 DEF ListedInv
<1>7. PromiseInv'
  BY <1>0, <1>3 DEF PromiseInv
<1>8. OfferInv'
  <2>1. \A t, w : ~ Pending(t, w) /\ ~ Pending(t, w)'
    BY <1>0, <1>2 DEF Pending, Distributing
  <2> SUFFICES ASSUME NEW t \in Services, NEW w \in Workflows,
                      Registered(t), states[t][w] \in Nat, In(registeredServices, t)
               PROVE  /\ Has(w)'
                      /\ cursor'[Get(w)'] \in Nat => MayComeNext(t, w, cursor'[Get(w)'])
    BY <1>0, <1>3, <2>1 DEF OfferInv, MayComeNext
  <2>2. Has(w) /\ (cursor[Get(w)] \in Nat => MayComeNext(t, w, cursor[Get(w)]))
    BY <2>1 DEF OfferInv
  <2>3. promised[t][w].upTo \in Int
    BY DEF TypeOK, HistoryTypeOK, Promise, Cursor, None
  <2> DEFINE n == cursor[Get(w)]
             m == cursor'[Get(w)']
  <2>4. Has(w)' /\ (m \in Nat => m = 0 \/ (n \in Nat /\ m <= n))
    BY <2>2
  <2>5. n \in Nat => MayComeNext(t, w, n)
    BY <2>2
  <2> HIDE DEF n, m
  <2>6. m \in Nat => MayComeNext(t, w, m)
    BY <2>3, <2>4, <2>5 DEF MayComeNext
  <2> QED BY <2>4, <2>6 DEF m
<1> QED BY <1>4, <1>5, <1>6, <1>7, <1>8

LEMMA LowerFeed ==
  ASSUME TypeOK, FeedInv, Calm, NEW s \in Services, LowerCursor(s)
  PROVE  FeedInv'
<1>1. /\ svc[s] = "lower" /\ svc' = [svc EXCEPT ![s] = "loop"]
      /\ left' = [left EXCEPT ![s] = Tail(@)] /\ header' = [header EXCEPT ![s] = << >>]
      /\ cursor' = [cursor EXCEPT ![Head(header[s])] = Head(left[s]).Cursor]
      /\ UNCHANGED <<apiVars, workflowStates, registeredServices, states, request, pollVars,
                     historyVars>>
  BY DEF LowerCursor
<1>2. RegisterOK(s) /\ left[s] # << >>
  BY <1>1 DEF FeedInv, RegisterInv, TypeOK, ListenerTypeOK
<1>3. PICK e \in Entry : e = Head(left[s]) /\ e.Cursor \in Requested /\ e.Cursor \in Cursor
  <2>1. Head(left[s]) \in Entry /\ In(left[s], Head(left[s]))
    BY <1>2, HeadOrTail DEF TypeOK, ListenerTypeOK
  <2> QED BY <1>2, <2>1 DEF RegisterOK, In, Entry
<1>4. Has(e.ID) /\ header[s] = <<Get(e.ID)>> /\ Lowers(e.Cursor, cursor[Get(e.ID)])
  BY <1>1, <1>2, <1>3 DEF RegisterOK
<1>5. PICK p \in Pointer : p = Get(e.ID) /\ p = Head(header[s]) /\ p.ID = e.ID
  <2>1. Get(e.ID) \in Pointer /\ Get(e.ID).ID = e.ID
    BY <1>4, GetType DEF TypeOK, SyncTypeOK
  <2> QED BY <1>4, <2>1
<1>6. PICK c \in Nat : /\ c = e.Cursor /\ (cursor[p] \in Nat => c < cursor[p])
                       /\ (cursor[p] \notin Nat => c = 0)
  <2>1. cursor[p] \in Cursor
    BY DEF TypeOK, SyncTypeOK
  <2> QED BY <1>3, <1>4, <1>5, <2>1, Lowered
<1>7. /\ cursor'[p] = c
      /\ \A q \in Pointer : q # p => cursor'[q] = cursor[q]
  BY <1>1, <1>3, <1>5, <1>6 DEF TypeOK, SyncTypeOK
<1>8. \A w : Has(w)' = Has(w) /\ Get(w)' = Get(w)
  BY <1>1 DEF Has, Get
<1>9. \A w : Has(w) => Get(w) \in Pointer
  BY GetType DEF TypeOK, SyncTypeOK
<1>10. StatesInv'
  BY <1>1, <1>3, <1>6, <1>7 DEF FeedInv, StatesInv, apiVars
<1>11. Reached(e)'
  <2>1. Has(e.ID)' /\ Follows(cursor'[Get(e.ID)'], e.Cursor)
    BY <1>4, <1>5, <1>6, <1>7, <1>8 DEF Follows
  <2> QED BY <2>1 DEF Reached
<1>12. \A x \in Entry : Reached(x) => Reached(x)'
  <2> SUFFICES ASSUME NEW x \in Entry, Reached(x) PROVE Reached(x)'
    OBVIOUS
  <2>1. CASE Get(x.ID) = p
    <3>1. Has(x.ID) /\ Follows(cursor[p], x.Cursor) /\ x.Cursor \in Cursor
      BY <2>1 DEF Reached, Entry
    <3>2. Follows(cursor'[p], x.Cursor)
      BY <1>6, <1>7, <3>1 DEF Follows
    <3> QED BY <1>8, <2>1, <3>1, <3>2 DEF Reached
  <2>2. CASE Get(x.ID) # p
    BY <1>7, <1>8, <1>9, <2>2 DEF Reached
  <2> QED BY <2>1, <2>2
<1>13. ASSUME NEW w \in Workflows, Has(w)
       PROVE  /\ Has(w)'
              /\ cursor'[Get(w)'] \in Nat =>
                   \/ cursor'[Get(w)'] = 0
                   \/ cursor[Get(w)] \in Nat /\ cursor'[Get(w)'] <= cursor[Get(w)]
  <2>1. PICK q \in Pointer : q = Get(w)
    BY <1>9, <1>13
  <2>2. cursor'[q] \in Nat => cursor'[q] = 0 \/ (cursor[q] \in Nat /\ cursor'[q] <= cursor[q])
    BY <1>6, <1>7
  <2> QED BY <1>8, <1>13, <2>1, <2>2
<1> QED BY <1>1, <1>3, <1>10, <1>11, <1>12, <1>13, WriteFeed

LEMMA AppendFeed ==
  ASSUME TypeOK, FeedInv, Calm, NEW s \in Services, AppendWorkflow(s)
  PROVE  FeedInv'
<1>1. /\ svc[s] = "append" /\ svc' = [svc EXCEPT ![s] = "loop"]
      /\ left' = [left EXCEPT ![s] = Tail(@)] /\ header' = [header EXCEPT ![s] = << >>]
      /\ UNCHANGED <<apiVars, registeredServices, states, request, pollVars, historyVars>>
  BY DEF AppendWorkflow
<1>2. RegisterOK(s) /\ left[s] # << >>
  BY <1>1 DEF FeedInv, RegisterInv, TypeOK, ListenerTypeOK
<1>3. PICK e \in Entry : e = Head(left[s]) /\ e.Cursor \in Requested
  <2>1. Head(left[s]) \in Entry /\ In(left[s], Head(left[s]))
    BY <1>2, HeadOrTail DEF TypeOK, ListenerTypeOK
  <2> QED BY <1>2, <2>1 DEF RegisterOK, In
<1>4. header[s] = workflowStates /\ ~ Has(e.ID)
  BY <1>1, <1>2, <1>3 DEF RegisterOK
<1>5. PICK p \in Pointer : p = [owner |-> s, ID |-> e.ID] /\ p.ID = e.ID
  <2>1. [owner |-> s, ID |-> e.ID] \in Pointer
    BY DEF Entry, Pointer
  <2> QED BY <2>1
<1>6. workflowStates' = Append(workflowStates, p) /\ cursor' = [cursor EXCEPT ![p] = e.Cursor]
  BY <1>3, <1>4, <1>5 DEF AppendWorkflow
<1>7. /\ cursor'[p] = e.Cursor
      /\ \A q \in Pointer : q # p => cursor'[q] = cursor[q]
  BY <1>6 DEF TypeOK, SyncTypeOK
<1>8. /\ Unique(workflowStates') /\ Has(e.ID)' /\ Get(e.ID)' = p
      /\ \A w : Has(w) => Has(w)' /\ Get(w)' = Get(w)
  <2>1. workflowStates \in Seq(Pointer) /\ Unique(workflowStates)
    BY DEF TypeOK, SyncTypeOK, FeedInv, StatesInv
  <2>2. ~ Names(workflowStates, p.ID)
    BY <1>4, <1>5, HasGet
  <2>3. /\ Unique(workflowStates')
        /\ First(workflowStates', p.ID) = p
        /\ \A w : Names(workflowStates', w) <=> Names(workflowStates, w) \/ w = p.ID
        /\ \A w : Names(workflowStates, w) => First(workflowStates', w) = First(workflowStates, w)
    BY <1>6, <2>1, <2>2, AppendFirst
  <2> QED BY <1>5, <2>3, HasGet
<1>9. \A w : Has(w) => Get(w) \in Pointer /\ Get(w) # p
  BY <1>4, <1>5, GetType DEF TypeOK, SyncTypeOK
<1>10. StatesInv'
  BY <1>1, <1>3, <1>7, <1>8 DEF FeedInv, StatesInv, apiVars
<1>11. Reached(e)'
  <2>1. Has(e.ID)' /\ Follows(cursor'[Get(e.ID)'], e.Cursor)
    BY <1>7, <1>8 DEF Follows
  <2> QED BY <2>1 DEF Reached
<1>12. \A x \in Entry : Reached(x) => Reached(x)'
  BY <1>7, <1>8, <1>9 DEF Reached
<1>13. \A w \in Workflows : Has(w) => Has(w)' /\ cursor'[Get(w)'] = cursor[Get(w)]
  BY <1>7, <1>8, <1>9
<1>14. \A p1 \in Pointer : cursor[p1] \in Int
  BY DEF TypeOK, SyncTypeOK, Cursor
<1>15. \A w \in Workflows : Has(w) =>
           /\ Has(w)'
           /\ cursor'[Get(w)'] \in Nat =>
                \/ cursor'[Get(w)'] = 0
                \/ cursor[Get(w)] \in Nat /\ cursor'[Get(w)'] <= cursor[Get(w)]
  BY <1>9, <1>13, <1>14
<1> QED BY <1>1, <1>3, <1>10, <1>11, <1>12, <1>15, WriteFeed

LEMMA AddFeed ==
  ASSUME TypeOK, FeedInv, DeliveryInv, Calm, NEW s \in Services, AddListener(s)
  PROVE  FeedInv'
<1> USE DEF FeedInv
<1>1. /\ svc[s] = "add" /\ svc' = [svc EXCEPT ![s] = "ready"]
      /\ header' = [header EXCEPT ![s] = << >>]
      /\ promised' = [promised EXCEPT ![s] = [w \in Workflows |-> PromiseOf(s, w)]]
      /\ UNCHANGED <<links, workflowStates, cursor, states, request, left, pc, todo, after,
                     page, toNotify, batch, received>>
  BY DEF AddListener, apiVars, pollVars
<1>2. PICK base \in {header[s], registeredServices} : registeredServices' = Append(base, s)
  BY DEF AddListener
<1>3. /\ svc'[s] = "ready" /\ \A w \in Workflows : promised'[s][w] = PromiseOf(s, w)
      /\ \A t \in Services \ {s} : /\ svc'[t] = svc[t] /\ header'[t] = header[t]
                                   /\ promised'[t] = promised[t]
  BY <1>1 DEF TypeOK, ListenerTypeOK, HistoryTypeOK
<1>4. RegisterOK(s)
  BY DEF RegisterInv
<1>5. \A t \in Services : In(registeredServices', t) => t = s \/ In(registeredServices, t)
  <2>1. base \in Seq(Services)
    BY <1>1 DEF TypeOK, SyncTypeOK, ListenerTypeOK
  <2>2. \A t : In(registeredServices', t) <=> In(base, t) \/ t = s
    BY <1>2, <2>1, AppendIn
  <2>3. \A t \in Services : In(header[s], t) => In(registeredServices, t)
    BY <1>1, <1>4 DEF RegisterOK
  <2> QED BY <2>2, <2>3
<1>6. ~ Registered(s) /\ Registered(s)'
      /\ \A t \in Services \ {s} : Registered(t)' = Registered(t)
  BY <1>1, <1>3 DEF Registered
<1>7. \A w : Has(w)' = Has(w) /\ Get(w)' = Get(w)
  BY <1>1 DEF Has, Get
<1>8. ASSUME NEW w \in Workflows, states[s][w] \in Nat
      PROVE  /\ received[s][w] = << >> /\ Has(w)
             /\ promised'[s][w].from \in Nat /\ promised'[s][w].upTo \in Nat
             /\ promised'[s][w].from <= states[s][w]
             /\ states[s][w] <= promised'[s][w].upTo
             /\ cursor[Get(w)] \in Nat => cursor[Get(w)] <= promised'[s][w].upTo
  <2>1. received[s][w] = << >>
    BY <1>1 DEF DeliveryInv, UnregisteredReceivedNothing
  <2>2. /\ Has(w)
        /\ IF request[s].isNil THEN states[s][w] = 0 ELSE Follows(cursor[Get(w)], states[s][w])
    BY <1>1, <1>4, <1>8 DEF RegisterOK
  <2>3. promised'[s][w] = PromiseOf(s, w)
    BY <1>3
  <2> QED BY <1>8, <2>1, <2>2, <2>3 DEF PromiseOf, Follows
<1>9. StatesInv'
  BY <1>1 DEF StatesInv
<1>10. RegisterInv'
  <2>1. \A e : Reached(e)' = Reached(e)
    BY <1>1, <1>7 DEF Reached
  <2>2. RegisterOK(s)'
    BY <1>1, <1>3, <1>4 DEF RegisterOK
  <2>3. ASSUME NEW t \in Services \ {s} PROVE RegisterOK(t)'
    <3>1. RegisterOK(t)
      BY DEF RegisterInv
    <3>2. /\ svc'[t] = svc[t] /\ header'[t] = header[t]
          /\ svc[t] = "add" => \A u \in Services : ~ In(header[t], u)
      <4>1. svc[t] = "add" => registeredServices = << >>
        BY <1>1 DEF Calm, NoListenerRace
      <4>2. \A u : ~ In(<< >>, u)
        BY DEF In
      <4>3. svc[t] = "add" => \A u \in Services : In(header[t], u) => In(registeredServices, u)
        BY <3>1 DEF RegisterOK
      <4> QED BY <1>3, <4>1, <4>2, <4>3
    <3> QED BY <1>1, <1>7, <2>1, <3>1, <3>2 DEF RegisterOK
  <2> QED BY <2>2, <2>3 DEF RegisterInv
<1>11. PollingInv'
  <2>1. Distributing' = Distributing /\ Current' = Current /\ Listener' = Listener
    BY <1>1 DEF Distributing, Current, Listener
  <2> QED BY <1>1, <2>1 DEF PollingInv
<1>12. ListedInv'
  <2>1. \A t \in Services : Listed(t)' => t = s \/ Listed(t)
    BY <1>1, <1>5 DEF Listed, In
  <2> QED BY <1>6, <2>1 DEF ListedInv
<1>13. PromiseInv'
  <2> SUFFICES ASSUME NEW t \in Services, NEW w \in Workflows
               PROVE  /\ ~ Registered(t)' => promised'[t][w] = NoPromise
                      /\ Registered(t)' /\ states[t][w] \in Nat =>
                           /\ promised'[t][w] # NoPromise
                           /\ received[t][w] = << >> =>
                                /\ 0 <= promised'[t][w].from
                                /\ promised'[t][w].from <= states[t][w]
                                /\ states[t][w] <= promised'[t][w].upTo
    BY <1>1 DEF PromiseInv
  <2>1. CASE t # s
    BY <1>3, <1>6, <2>1 DEF PromiseInv
  <2>2. CASE t = s
    <3>1. states[s][w] \in Nat => promised'[s][w] # NoPromise
      BY <1>8 DEF NoPromise, None
    <3> QED BY <1>6, <1>8, <2>2, <3>1
  <2> QED BY <2>1, <2>2
<1>14. OfferInv'
  <2>1. Distributing' = Distributing /\ Current' = Current /\ Listener' = Listener
    BY <1>1 DEF Distributing, Current, Listener
  <2>2. \A t \in Services \ {s} : \A w, n : MayComeNext(t, w, n)' = MayComeNext(t, w, n')
    BY <1>1, <1>3 DEF MayComeNext
  <2>3. ASSUME NEW t \in Services \ {s}, NEW w \in Workflows,
               Registered(t)', states[t][w] \in Nat
        PROVE  /\ Pending(t, w)' /\ ~ (pc = "sent" /\ t = Listener) => MayComeNext(t, w, page.lo)
               /\ In(registeredServices', t) =>
                    /\ Has(w)
                    /\ ~ Pending(t, w)' /\ cursor[Get(w)] \in Nat =>
                         MayComeNext(t, w, cursor[Get(w)])
    <3>1. Registered(t) /\ (In(registeredServices', t) => In(registeredServices, t))
      BY <1>5, <1>6, <2>3
    <3>2. Pending(t, w)' => Pending(t, w)
      BY <1>1, <2>1, <3>1 DEF Pending, In
    <3>3. In(registeredServices', t) /\ ~ Pending(t, w)' => ~ Pending(t, w)
      BY <1>1, <2>1 DEF Pending, In
    <3> QED BY <2>3, <3>1, <3>2, <3>3 DEF OfferInv
  <2>4. ASSUME NEW w \in Workflows, states[s][w] \in Nat
        PROVE  /\ Pending(s, w)' => page.lo <= promised'[s][w].upTo
               /\ Has(w)
               /\ cursor[Get(w)] \in Nat => cursor[Get(w)] <= promised'[s][w].upTo
    <3>1. Pending(s, w)' => page.lo <= promised'[s][w].upTo
      <4> SUFFICES ASSUME Pending(s, w)' PROVE page.lo <= promised'[s][w].upTo
        OBVIOUS
      <4>1. Distributing /\ w = Current.ID
        BY <2>1 DEF Pending
      <4>2. pc \notin {"idle", "stopped"} /\ todo # << >>
        BY <4>1 DEF Distributing, TypeOK, PollTypeOK
      <4>3. Get(w) = Current
        BY <4>1, <4>2, CurrentState
      <4>4. page.lo \in Nat /\ page.lo < page.hi /\ cursor[Current] = page.hi
        BY <4>1 DEF DeliveryInv, PageIsCurrent
      <4>5. page.hi \in Int
        BY DEF TypeOK, PollTypeOK, Page
      <4>6. cursor[Get(w)] \in Nat
        BY <4>3, <4>4, <4>5
      <4>7. cursor[Get(w)] <= promised'[s][w].upTo /\ promised'[s][w].upTo \in Nat
        BY <1>8, <2>4, <4>6
      <4> QED BY <4>3, <4>4, <4>5, <4>7
    <3> QED BY <1>8, <2>4, <3>1
  <2>5. ASSUME NEW t \in Services, NEW w \in Workflows, Registered(t)', states'[t][w] \in Nat
        PROVE  /\ Pending(t, w)' /\ ~ (pc' = "sent" /\ t = Listener') =>
                    MayComeNext(t, w, page.lo)'
               /\ In(registeredServices', t) =>
                    /\ Has(w)'
                    /\ ~ Pending(t, w)' /\ cursor'[Get(w)'] \in Nat =>
                         MayComeNext(t, w, cursor[Get(w)])'
    <3>1. states[t][w] \in Nat
      BY <1>1, <2>5
    <3>2. CASE t # s
      <4>1. t \in Services \ {s}
        BY <3>2
      <4>2. \A n : MayComeNext(t, w, n)' = MayComeNext(t, w, n')
        BY <2>2, <4>1
      <4> QED BY <1>1, <1>7, <2>1, <2>3, <2>5, <3>1, <4>1, <4>2
    <3>3. CASE t = s
      <4>1. received'[s][w] = << >>
        BY <1>1, <1>8, <3>1, <3>3
      <4> QED BY <1>1, <1>7, <2>4, <3>1, <3>3, <4>1 DEF MayComeNext
    <3> QED BY <3>2, <3>3
  <2> QED BY <2>5 DEF OfferInv
<1> QED BY <1>9, <1>10, <1>11, <1>12, <1>13, <1>14

-----------------------------------------------------------------------------
(* The steps of the poller.                                                *)

\* Its steps between pages.
LEMMA LoopFeed ==
  ASSUME TypeOK, FeedInv, DeliveryInv,
         \/ Tick \/ NextWorkflow \/ PollDone \/ CallAPI \/ PagesDone \/ APIFails \/ APINull
         \/ APIBadHash \/ Stop \/ NotifyDone \/ (APIPage /\ UNCHANGED cursor)
  PROVE  FeedInv'
<1> DEFINE Work == \A i \in 1 .. Len(todo) : In(workflowStates, todo[i])
<1>1. UNCHANGED <<apiVars, syncVars, listenerVars, historyVars, toNotify>>
  BY DEF Tick, NextWorkflow, PollDone, CallAPI, PagesDone, APIFails, APINull, APIBadHash,
         Stop, NotifyDone, APIPage, syncVars
<1>2. /\ pc \in {"idle", "next", "page", "call"} \/ (pc = "notify" /\ toNotify = << >>)
      /\ pc' \in {"idle", "next", "page", "call", "stopped"}
  <2>1. CASE APIPage /\ UNCHANGED cursor
    <3>1. Current \in Pointer /\ Current.ID \in Workflows
      BY <2>1, CurrentType DEF APIPage, PollTypeOK, TypeOK
    <3>2. after = cursor[Current]
      BY <2>1 DEF APIPage, FeedInv, PollingInv
    <3>3. pc' # "page" => cursor'[Current] > after /\ cursor'[Current] \in Int
      <4>1. cursor[Current] \in Int /\ after \in Int /\ links[Current.ID] \in Int
        BY <3>1 DEF TypeOK, SyncTypeOK, PollTypeOK, Cursor
      <4> QED BY <2>1, <3>1, <4>1 DEF APIPage, TypeOK, SyncTypeOK, LesserOf
    <3>4. after \in Int
      BY DEF TypeOK, PollTypeOK, Cursor
    <3>5. pc' = "page"
      BY <2>1, <3>2, <3>3, <3>4
    <3> QED BY <2>1, <3>5 DEF APIPage
  <2>2. CASE \/ Tick \/ NextWorkflow \/ PollDone \/ CallAPI \/ PagesDone \/ APIFails \/ APINull
             \/ APIBadHash \/ Stop \/ NotifyDone
    BY <2>2 DEF Tick, NextWorkflow, PollDone, CallAPI, PagesDone, APIFails, APINull, APIBadHash,
                Stop, NotifyDone
  <2> QED BY <2>1, <2>2
<1>3. pc \notin {"idle", "stopped"} => Work
  BY DEF FeedInv, PollingInv
<1>4. pc' \notin {"idle", "stopped"} => Work'
  <2> SUFFICES ASSUME pc' \notin {"idle", "stopped"} PROVE Work'
    OBVIOUS
  <2>1. workflowStates' = workflowStates
    BY <1>1 DEF syncVars
  <2>2. CASE Tick
    BY <2>1, <2>2 DEF Tick, In
  <2>3. CASE PagesDone \/ APIFails
    <3>1. todo' = Tail(todo) /\ Work /\ todo \in Seq(Pointer) /\ todo # << >>
      BY <1>3, <2>3 DEF PagesDone, APIFails, TypeOK, PollTypeOK
    <3>2. \A i \in 1 .. Len(todo') : \E j \in 1 .. Len(todo) : todo'[i] = todo[j]
      BY <3>1, HeadOrTail
    <3> QED BY <2>1, <3>1, <3>2 DEF In
  <2>4. CASE ~ Tick /\ ~ PagesDone /\ ~ APIFails
    <3>1. pc \notin {"idle", "stopped"} /\ todo' = todo
      BY <2>4 DEF NextWorkflow, PollDone, CallAPI, APINull, APIBadHash, Stop, NotifyDone, APIPage
    <3> QED BY <1>3, <2>1, <3>1 DEF In
  <2> QED BY <2>2, <2>3, <2>4
<1> HIDE DEF Work
<1>5. pc' = "page" /\ cursor'[Current'] = 0 => after' = 0
  <2>1. CASE NextWorkflow
    BY <2>1 DEF NextWorkflow
  <2>2. CASE NotifyDone
    <3>1. cursor[Current] = page.hi /\ page.lo \in Nat /\ page.lo < page.hi
      BY <2>2 DEF NotifyDone, DeliveryInv, PageIsCurrent, Distributing
    <3>2. page.hi \in Int
      BY DEF TypeOK, PollTypeOK, Page
    <3> QED BY <2>2, <3>1, <3>2 DEF NotifyDone, syncVars, Current
  <2>3. CASE APINull \/ (APIPage /\ UNCHANGED cursor)
    BY <2>3 DEF APINull, APIPage, FeedInv, PollingInv, syncVars, Current
  <2>4. CASE Tick \/ PollDone \/ CallAPI \/ PagesDone \/ APIFails \/ APIBadHash \/ Stop
    BY <2>4 DEF Tick, PollDone, CallAPI, PagesDone, APIFails, APIBadHash, Stop
  <2> QED BY <2>1, <2>2, <2>3, <2>4
<1>6. pc' = "call" => after' = cursor'[Current']
  <2>1. pc' = "call" => CallAPI
    BY <1>2 DEF Tick, NextWorkflow, PollDone, CallAPI, PagesDone, APIFails, APINull, APIBadHash,
                Stop, NotifyDone, APIPage
  <2> QED BY <2>1 DEF CallAPI, FeedInv, PollingInv, syncVars, Current
<1>7. ~ Distributing'
  BY <1>2 DEF Distributing
<1>8. PollingInv'
  BY <1>2, <1>4, <1>5, <1>6, <1>7 DEF PollingInv, Work
<1>9. \A s \in Services : Listed(s)' => Listed(s)
  BY <1>1, <1>2 DEF Listed, In, syncVars
<1>10. \A s, w : ~ Pending(s, w) /\ ~ Pending(s, w)'
  BY <1>2, <1>7 DEF Pending, Distributing, In
<1> QED BY <1>1, <1>2, <1>8, <1>9, <1>10, PollerFeed

\* A page has been fetched, and each listener is looked at.
LEMMA NotifyFeed ==
  ASSUME TypeOK, FeedInv, DeliveryInv, StartNotify \/ SkipListener \/ SliceForListener
  PROVE  FeedInv'
<1>1. /\ UNCHANGED <<apiVars, syncVars, listenerVars, historyVars, todo, after, page>>
      /\ pc \in {"fetched", "notify"} /\ pc' \in {"notify", "send"}
  BY DEF StartNotify, SkipListener, SliceForListener
<1>2. /\ UNCHANGED <<links, workflowStates, cursor, registeredServices, states>>
      /\ Current' = Current
  BY <1>1 DEF apiVars, syncVars, listenerVars, Current
<1>3. /\ Current \in Pointer /\ Current.ID \in Workflows
      /\ Has(Current.ID) /\ Get(Current.ID) = Current
  BY <1>1, CurrentState DEF TypeOK, PollTypeOK, FeedInv
<1>4. /\ page.lo \in Nat /\ page.lo < page.hi /\ page.hi \in Nat
      /\ cursor[Current] = page.hi
  <2>1. page.lo \in Nat /\ page.lo < page.hi /\ cursor[Current] = page.hi
    BY <1>1 DEF DeliveryInv, PageIsCurrent, Distributing
  <2>2. page.hi \in Int
    BY DEF TypeOK, PollTypeOK, Page
  <2> QED BY <2>1, <2>2
<1>5. ASSUME NEW s \in Services, NEW c, c = states[s][Current.ID]
      PROVE  /\ IsBehind(s) => c \in Nat /\ c < page.hi
             /\ ~ IsBehind(s) /\ c \in Nat => page.hi <= c
  <2>1. c \in Cursor \cup {None}
    BY <1>3, <1>5 DEF TypeOK, ListenerTypeOK
  <2>2. IsBehind(s) <=> c # None /\ CompareCursors(page.hi, c) > 0
    BY <1>4, <1>5 DEF IsBehind
  <2> QED BY <1>4, <2>1, <2>2 DEF CompareCursors, Index, Cursor, None
<1>6. CASE StartNotify
  <2>1. pc = "fetched" /\ pc' = "notify" /\ toNotify' = registeredServices
    BY <1>6 DEF StartNotify
  <2>2. PollingInv'
    BY <1>1, <1>2, <2>1 DEF FeedInv, PollingInv, Distributing
  <2>3. \A s \in Services : Listed(s)' => Listed(s)
    BY <1>2, <2>1 DEF Listed, In
  <2>4. \A s, w : Pending(s, w)' = Pending(s, w)
    BY <1>2, <2>1 DEF Pending, Distributing, In
  <2> QED BY <1>1, <2>1, <2>2, <2>3, <2>4, PollerFeed
<1>7. CASE SkipListener
  <2>1. /\ pc = "notify" /\ pc' = "notify" /\ toNotify # << >> /\ toNotify' = Tail(toNotify)
        /\ ~ IsBehind(Listener)
    BY <1>7 DEF SkipListener
  <2>2. Listener \in Services /\ \A s : In(toNotify, s) <=> s = Listener \/ In(toNotify', s)
    BY <2>1, HeadOrTail DEF TypeOK, PollTypeOK, Listener
  <2>3. PollingInv'
    BY <1>1, <1>2, <2>1 DEF FeedInv, PollingInv, Distributing
  <2>4. \A s \in Services : Listed(s)' => Listed(s)
    <3>1. \A s : In(registeredServices, s)' = In(registeredServices, s)
      BY <1>2 DEF In
    <3>2. \A s : In(toNotify, s)' => In(toNotify, s)
      BY <2>2 DEF In
    <3> QED BY <2>1, <3>1, <3>2 DEF Listed
  <2>5. \A s, w : Pending(s, w)' => Pending(s, w)
    <3>1. \A s : In(toNotify, s)' => In(toNotify, s)
      BY <2>2 DEF In
    <3> QED BY <1>2, <2>1, <3>1 DEF Pending, Distributing
  <2>6. ASSUME NEW s \in Services, NEW w \in Workflows, Pending(s, w), ~ Pending(s, w)',
               states[s][w] \in Nat
        PROVE  MayComeNext(s, w, cursor[Get(w)])
    <3>1. \A t : In(toNotify, t)' <=> In(toNotify', t)
      BY DEF In
    <3>2. s = Listener /\ w = Current.ID
      BY <1>2, <2>1, <2>2, <2>6, <3>1 DEF Pending, Distributing
    <3>3. page.hi <= states[s][w]
      BY <1>5, <2>1, <2>2, <2>6, <3>2
    <3> QED BY <1>3, <1>4, <3>2, <3>3 DEF MayComeNext
  <2> QED BY <1>1, <2>1, <2>3, <2>4, <2>5, <2>6, PollerFeed
<1>8. CASE SliceForListener
  <2>1. /\ pc = "notify" /\ pc' = "send" /\ toNotify # << >> /\ toNotify' = toNotify
        /\ IsBehind(Listener) /\ batch' = Slice(page, states[Listener][Current.ID])
    BY <1>8 DEF SliceForListener
  <2>2. Listener \in Services /\ Listener' = Listener
    BY <2>1, CurrentListenerType DEF TypeOK, Listener
  <2>3. states[Listener][Current.ID] \in Nat /\ states[Listener][Current.ID] < page.hi
    BY <1>5, <2>1, <2>2
  <2>4. PollingInv'
    <3>1. /\ \A i \in 1 .. Len(todo) : In(workflowStates, todo[i])
          /\ page.hi <= links[Current.ID]
      BY <1>1 DEF FeedInv, PollingInv, Distributing
    <3>2. Slice(page, states[Listener][Current.ID])' = Slice(page, states[Listener][Current.ID])
      BY <1>1, <1>2, <2>2 DEF Slice
    <3> QED BY <1>1, <1>2, <2>1, <2>2, <2>3, <3>1, <3>2 DEF PollingInv, Distributing, In
  <2>5. \A s \in Services : Listed(s)' => Listed(s)
    BY <1>2, <2>1 DEF Listed, In
  <2>6. \A s, w : Pending(s, w)' = Pending(s, w)
    BY <1>2, <2>1 DEF Pending, Distributing, In
  <2> QED BY <1>1, <2>1, <2>4, <2>5, <2>6, PollerFeed
<1> QED BY <1>6, <1>7, <1>8

\* The API answers with new links: livesync's cursor moves to the last one, and the page is
\* on its way to all listeners that are registered.
LEMMA PageFeed ==
  ASSUME TypeOK, FeedInv, Calm, APIPage, ~ UNCHANGED cursor
  PROVE  FeedInv'
<1> USE DEF FeedInv
<1>1. /\ pc = "call" /\ todo # << >>
      /\ UNCHANGED <<links, workflowStates, registeredServices, listenerVars, todo, historyVars>>
  BY DEF APIPage, apiVars, TypeOK, PollTypeOK
<1>2. /\ UNCHANGED <<states, svc, request, left, header, received, promised>>
      /\ Current' = Current
  BY <1>1 DEF listenerVars, historyVars, Current
<1>3. /\ Current \in Pointer /\ Current.ID \in Workflows
      /\ Has(Current.ID) /\ Get(Current.ID) = Current
  BY <1>1, CurrentState
<1>4. after = cursor[Current] /\ after \in Nat
  BY <1>1 DEF PollingInv, APIPage, TypeOK, PollTypeOK, Cursor
<1>5. PICK hi \in Nat : /\ after < hi /\ hi <= links[Current.ID]
                        /\ page'.lo = after /\ page'.hi = hi
                        /\ cursor' = [cursor EXCEPT ![Current] = hi]
                        /\ pc' = "fetched"
  <2> DEFINE n == links[Current.ID]
             h == IF after < n THEN LesserOf(after + Pagination, n) ELSE after
  <2>1. n \in Nat
    BY <1>3 DEF TypeOK, SyncTypeOK
  <2>2. /\ page' = [lo |-> after, hi |-> h, more |-> h < n]
        /\ h > after /\ cursor' = [cursor EXCEPT ![Current] = h] /\ pc' = "fetched"
    BY DEF APIPage
  <2>3. h \in Nat /\ h <= n
    BY <1>4, <2>1, <2>2 DEF LesserOf
  <2> HIDE DEF h
  <2> QED BY <1>4, <2>2, <2>3
<1>6. /\ cursor'[Current] = hi
      /\ \A p \in Pointer : p # Current => cursor'[p] = cursor[p]
  BY <1>3, <1>5 DEF TypeOK, SyncTypeOK
<1>7. /\ \A w : Has(w)' = Has(w) /\ Get(w)' = Get(w)
      /\ \A w : Has(w) => Get(w) \in Pointer /\ Get(w).ID = w
  BY <1>1, GetType DEF Has, Get, TypeOK, SyncTypeOK
<1>8. StatesInv'
  <2>1. links[Current.ID] <= MaxLinks /\ links[Current.ID] \in Nat
    BY <1>3 DEF StatesInv, TypeOK, SyncTypeOK
  <2>2. hi \in 0 .. MaxLinks
    BY <1>5, <2>1
  <2> QED BY <1>1, <1>6, <2>2 DEF StatesInv
<1>9. RegisterInv'
  <2> SUFFICES ASSUME NEW s \in Services PROVE RegisterOK(s)'
    BY DEF RegisterInv
  <2>1. RegisterOK(s)
    BY DEF RegisterInv
  <2>2. svc[s] \in {"loop", "lower", "append", "add"} => request[s].isNil
    BY <1>1 DEF Calm, AloneUnlessNil, Registering
  <2>3. request[s].isNil => request[s].states = << >>
    BY <2>1, RequestsAssumption DEF RegisterOK, NilRequest
  <2>4. svc[s] \notin {"lower", "append"}
    BY <2>1, <2>2 DEF TypeOK, ListenerTypeOK, RegisterOK
  <2> QED BY <1>1, <1>2, <1>7, <2>1, <2>2, <2>3, <2>4 DEF RegisterOK
<1>10. PollingInv'
  BY <1>1, <1>2, <1>5 DEF PollingInv, In
<1>11. ListedInv'
  <2>1. \A s : (Listed(s)' => Listed(s)) /\ Registered(s)' = Registered(s)
    BY <1>1, <1>2, <1>5 DEF Listed, In, Registered
  <2> QED BY <2>1 DEF ListedInv
<1>12. PromiseInv'
  BY <1>2 DEF PromiseInv, Registered
<1>13. OfferInv'
  <2>1. \A s, w, n : MayComeNext(s, w, n)' = MayComeNext(s, w, n')
    BY <1>2 DEF MayComeNext
  <2>2. \A s, w : Pending(s, w)' <=> w = Current.ID /\ In(registeredServices, s)
    BY <1>1, <1>2, <1>5 DEF Pending, Distributing, In
  <2>3. \A s, w : ~ Pending(s, w)
    BY <1>1 DEF Pending, Distributing
  <2> SUFFICES ASSUME NEW s \in Services, NEW w \in Workflows, Registered(s),
                      states[s][w] \in Nat, In(registeredServices, s)
               PROVE  /\ w = Current.ID => MayComeNext(s, w, page'.lo)
                      /\ Has(w)
                      /\ w # Current.ID /\ cursor'[Get(w)] \in Nat =>
                           MayComeNext(s, w, cursor'[Get(w)])
    BY <1>1, <1>2, <1>5, <1>7, <2>1, <2>2 DEF OfferInv, Registered, In
  <2>4. Has(w) /\ (cursor[Get(w)] \in Nat => MayComeNext(s, w, cursor[Get(w)]))
    BY <2>3 DEF OfferInv
  <2>5. w = Current.ID => MayComeNext(s, w, page'.lo)
    BY <1>3, <1>4, <1>5, <2>4
  <2>6. w # Current.ID => cursor'[Get(w)] = cursor[Get(w)]
    BY <1>6, <1>7, <2>4
  <2> QED BY <2>4, <2>5, <2>6
<1> QED BY <1>8, <1>9, <1>10, <1>11, <1>12, <1>13

\* A listener receives his part of the page.
LEMMA DeliverFeed ==
  ASSUME TypeOK, FeedInv, DeliveryInv, Deliver
  PROVE  FeedInv'
<1> USE DEF FeedInv
<1>1. /\ pc = "send" /\ pc' = "sent" /\ svc[Listener] = "ready"
      /\ svc' = [svc EXCEPT ![Listener] = "busy"]
      /\ UNCHANGED <<links, workflowStates, cursor, registeredServices, states, request, left,
                     header, todo, after, page, toNotify, promised>>
      /\ Current' = Current /\ Listener' = Listener
  BY DEF Deliver, apiVars, syncVars, Current, Listener
<1>2. Listener \in Services /\ Current.ID \in Workflows /\ In(toNotify, Listener)
  BY <1>1, CurrentType, HeadOrTail DEF TypeOK, PollTypeOK, Listener
<1>3. /\ received'[Listener][Current.ID] # << >>
      /\ \A s \in Services, w \in Workflows :
           <<s, w>> # <<Listener, Current.ID>> => received'[s][w] = received[s][w]
  <2> DEFINE q == received[Listener][Current.ID]
  <2>1. q \in Seq(Int) /\ batch \in Batch
    BY <1>2 DEF TypeOK, HistoryTypeOK, PollTypeOK
  <2>2. batch.lo < batch.hi /\ (q # << >> => q[Len(q)] <= batch.lo) /\ Increasing(q)
    BY <1>1, <1>2 DEF DeliveryInv, BatchContinues, LastReceived, InOrder
  <2>3. PICK r : r = q \o LinksOf(batch) /\ r # << >>
    <3> HIDE DEF q
    <3> QED BY <2>1, <2>2, IncreasingConcat
  <2>4. received' = [received EXCEPT ![Listener][Current.ID] = r]
    BY <2>3 DEF Deliver
  <2> QED BY <1>2, <2>3, <2>4 DEF TypeOK, HistoryTypeOK
<1>4. \A w : Has(w)' = Has(w) /\ Get(w)' = Get(w)
  BY <1>1 DEF Has, Get
<1>5. \A s \in Services : svc'[s] = svc[s] \/ svc'[s] = "busy"
  BY <1>1, <1>2 DEF TypeOK, ListenerTypeOK
<1>6. \A s \in Services : Registered(s)' = Registered(s)
  BY <1>1, <1>2 DEF Registered, TypeOK, ListenerTypeOK
<1>7. StatesInv'
  BY <1>1 DEF StatesInv
<1>8. RegisterInv'
  <2>1. \A e : Reached(e)' = Reached(e)
    BY <1>1, <1>4 DEF Reached
  <2> QED BY <1>1, <1>4, <1>5, <2>1 DEF RegisterInv, RegisterOK
<1>9. PollingInv'
  BY <1>1 DEF PollingInv, Distributing, In
<1>10. ListedInv'
  <2>1. \A s : Listed(s)' = Listed(s)
    BY <1>1 DEF Listed, In
  <2> QED BY <1>6, <2>1 DEF ListedInv
<1>11. PromiseInv'
  <2> SUFFICES ASSUME NEW s \in Services, NEW w \in Workflows
               PROVE  /\ ~ Registered(s)' => promised[s][w] = NoPromise
                      /\ Registered(s)' /\ states[s][w] \in Nat =>
                           /\ promised[s][w] # NoPromise
                           /\ received'[s][w] = << >> =>
                                /\ 0 <= promised[s][w].from
                                /\ promised[s][w].from <= states[s][w]
                                /\ states[s][w] <= promised[s][w].upTo
    BY <1>1 DEF PromiseInv
  <2>1. received'[s][w] = << >> => received[s][w] = << >>
    BY <1>2, <1>3
  <2> QED BY <1>6, <2>1 DEF PromiseInv
<1>12. OfferInv'
  <2>1. \A s, w : /\ Pending(s, w)' = Pending(s, w)
                  /\ In(registeredServices, s)' = In(registeredServices, s)
    BY <1>1 DEF Pending, Distributing, In
  <2>2. \A s \in Services, w \in Workflows : \A n :
          <<s, w>> # <<Listener, Current.ID>> => MayComeNext(s, w, n)' = MayComeNext(s, w, n')
    BY <1>1, <1>3 DEF MayComeNext
  <2>3. Pending(Listener, Current.ID)
    BY <1>1, <1>2 DEF Pending, Distributing
  <2>4. ASSUME NEW s \in Services, NEW w \in Workflows, Registered(s)', states'[s][w] \in Nat
        PROVE  /\ Pending(s, w)' /\ ~ (pc' = "sent" /\ s = Listener') =>
                    MayComeNext(s, w, page.lo)'
               /\ In(registeredServices, s)' =>
                    /\ Has(w)'
                    /\ ~ Pending(s, w)' /\ cursor'[Get(w)'] \in Nat =>
                         MayComeNext(s, w, cursor[Get(w)])'
    <3>1. /\ Pending(s, w) => w = Current.ID
          /\ Registered(s) /\ states[s][w] \in Nat
      BY <1>1, <1>6, <2>4 DEF Pending
    <3>2. CASE <<s, w>> # <<Listener, Current.ID>>
      <4>1. \A n : MayComeNext(s, w, n)' = MayComeNext(s, w, n')
        BY <2>2, <3>2
      <4> QED BY <1>1, <1>4, <2>1, <3>1, <4>1 DEF OfferInv
    <3>3. CASE s = Listener /\ w = Current.ID
      BY <1>1, <1>4, <2>1, <2>3, <3>1, <3>3 DEF OfferInv
    <3> QED BY <3>2, <3>3
  <2> QED BY <2>4 DEF OfferInv
<1> QED BY <1>7, <1>8, <1>9, <1>10, <1>11, <1>12

\* The cursor of that listener becomes the last link of the page.
LEMMA SentFeed ==
  ASSUME TypeOK, FeedInv, DeliveryInv, Sent
  PROVE  FeedInv'
<1> USE DEF FeedInv
<1>1. /\ pc = "sent" /\ pc' = "notify" /\ toNotify # << >> /\ toNotify' = Tail(toNotify)
      /\ states' = [states EXCEPT ![Listener][Current.ID] = cursor[Current]]
      /\ UNCHANGED <<links, workflowStates, cursor, registeredServices, svc, request, left,
                     header, todo, after, page, received, promised>>
      /\ Current' = Current
  BY DEF Sent, apiVars, syncVars, historyVars, Current, TypeOK, PollTypeOK
<1>2. /\ Listener \in Services
      /\ \A s : In(toNotify, s) <=> s = Listener \/ In(toNotify', s)
  BY <1>1, HeadOrTail DEF TypeOK, PollTypeOK, Listener
<1>3. /\ Current \in Pointer /\ Current.ID \in Workflows
      /\ Has(Current.ID) /\ Get(Current.ID) = Current
  BY <1>1, CurrentState DEF TypeOK, PollTypeOK
<1>4. /\ page.lo \in Nat /\ page.lo < page.hi /\ page.hi \in Nat /\ cursor[Current] = page.hi
      /\ received[Listener][Current.ID] # << >>
  <2>1. /\ page.lo \in Nat /\ page.lo < page.hi /\ cursor[Current] = page.hi
        /\ received[Listener][Current.ID] # << >>
    BY <1>1 DEF DeliveryInv, PageIsCurrent, BatchContinues, Distributing
  <2>2. page.hi \in Int
    BY DEF TypeOK, PollTypeOK, Page
  <2> QED BY <2>1, <2>2
<1>5. /\ states'[Listener][Current.ID] = page.hi
      /\ \A s \in Services, w \in Workflows :
           <<s, w>> # <<Listener, Current.ID>> => states'[s][w] = states[s][w]
  BY <1>1, <1>2, <1>3, <1>4 DEF TypeOK, ListenerTypeOK
<1>6. states[Listener][Current.ID] \in Nat
  BY <1>1 DEF PollingInv
<1>7. /\ \A w : Has(w)' = Has(w) /\ Get(w)' = Get(w)
      /\ \A s : Registered(s)' = Registered(s)
  BY <1>1 DEF Has, Get, Registered
<1>8. StatesInv'
  BY <1>1 DEF StatesInv
<1>9. RegisterInv'
  <2>1. \A e : Reached(e)' = Reached(e)
    BY <1>1, <1>7 DEF Reached
  <2>2. Registered(Listener)
    BY <1>1, <1>2 DEF ListedInv, Listed
  <2>3. ASSUME NEW s \in Services PROVE RegisterOK(s)'
    <3>1. RegisterOK(s)
      BY DEF RegisterInv
    <3>2. svc[s] = "add" => \A w \in Workflows : states'[s][w] = states[s][w]
      BY <1>5, <2>2 DEF Registered
    <3> QED BY <1>1, <1>7, <2>1, <3>1, <3>2 DEF RegisterOK
  <2> QED BY <2>3 DEF RegisterInv
<1>10. PollingInv'
  BY <1>1 DEF PollingInv, Distributing, In
<1>11. ListedInv'
  <2>1. \A s : In(toNotify', s) => In(toNotify, s)
    BY <1>2
  <2>2. \A s : Listed(s)' => Listed(s)
    BY <1>1, <2>1 DEF Listed, In
  <2> QED BY <1>7, <2>2 DEF ListedInv
<1>12. PromiseInv'
  <2> SUFFICES ASSUME NEW s \in Services, NEW w \in Workflows
               PROVE  /\ ~ Registered(s) => promised[s][w] = NoPromise
                      /\ Registered(s) /\ states'[s][w] \in Nat =>
                           /\ promised[s][w] # NoPromise
                           /\ received[s][w] = << >> =>
                                /\ 0 <= promised[s][w].from
                                /\ promised[s][w].from <= states'[s][w]
                                /\ states'[s][w] <= promised[s][w].upTo
    BY <1>1, <1>7 DEF PromiseInv
  <2>1. CASE <<s, w>> # <<Listener, Current.ID>>
    BY <1>5, <2>1 DEF PromiseInv
  <2>2. CASE s = Listener /\ w = Current.ID
    BY <1>4, <1>6, <2>2 DEF PromiseInv
  <2> QED BY <2>1, <2>2
<1>13. OfferInv'
  <2>1. \A s, w : /\ Pending(s, w)' <=> w = Current.ID /\ In(toNotify', s)
                  /\ Pending(s, w) <=> w = Current.ID /\ In(toNotify, s)
                  /\ In(registeredServices, s)' = In(registeredServices, s)
    BY <1>1 DEF Pending, Distributing, In
  <2>2. \A s \in Services, w \in Workflows : \A n :
          <<s, w>> # <<Listener, Current.ID>> => MayComeNext(s, w, n)' = MayComeNext(s, w, n')
    BY <1>1, <1>5 DEF MayComeNext
  <2>3. ASSUME NEW s \in Services, NEW w \in Workflows, Registered(s)', states'[s][w] \in Nat
        PROVE  /\ Pending(s, w)' => MayComeNext(s, w, page.lo)'
               /\ In(registeredServices, s)' =>
                    /\ Has(w)'
                    /\ ~ Pending(s, w)' /\ cursor'[Get(w)'] \in Nat =>
                         MayComeNext(s, w, cursor[Get(w)])'
    <3>1. CASE <<s, w>> # <<Listener, Current.ID>>
      <4>1. \A n : MayComeNext(s, w, n)' = MayComeNext(s, w, n')
        BY <2>2, <3>1
      <4>2. Registered(s) /\ states[s][w] \in Nat
        BY <1>5, <1>7, <2>3, <3>1
      <4>3. (Pending(s, w)' <=> Pending(s, w)) /\ (Pending(s, w) => s # Listener)
        BY <1>2, <2>1, <3>1
      <4> QED BY <1>1, <1>7, <2>1, <4>1, <4>2, <4>3 DEF OfferInv
    <3>2. CASE s = Listener /\ w = Current.ID
      <4>1. MayComeNext(s, w, page.lo)' /\ MayComeNext(s, w, cursor[Get(w)])'
        BY <1>1, <1>3, <1>4, <1>5, <1>7, <3>2 DEF MayComeNext
      <4> QED BY <1>3, <1>7, <3>2, <4>1
    <3> QED BY <3>1, <3>2
  <2> QED BY <1>1, <2>3 DEF OfferInv
<1> QED BY <1>8, <1>9, <1>10, <1>11, <1>12, <1>13

-----------------------------------------------------------------------------
(* The invariant holds, and each step is one of the feed or none.          *)

\* Registrations that name workflows do not write livesync's cursors under the poller.
LEMMA CalmNoRace ==
  ASSUME TypeOK, FeedInv, Calm
  PROVE  NoCursorRace
<1> SUFFICES ASSUME Distributing, NEW s \in Services, svc[s] \in {"lower", "append"}
             PROVE  FALSE
  BY DEF NoCursorRace
<1>1. left[s] # << >>
  BY DEF TypeOK, ListenerTypeOK
<1>2. ~ request[s].isNil
  BY <1>1 DEF FeedInv, RegisterInv, RegisterOK
<1> QED BY <1>2 DEF Calm, AloneUnlessNil, Registering, Distributing

LEMMA NextFeed ==
  ASSUME OrdersAgree, TypeOK, TypeOK', FeedInv, DeliveryInv, Calm, [Next]_vars
  PROVE  FeedInv'
<1>1. ASSUME UNCHANGED <<syncVars, states, request, left, header, pollVars, historyVars>>,
             \A w \in Workflows : links[w] <= links'[w] /\ links'[w] <= MaxLinks,
             \A s \in Services : svc'[s] = svc[s] \/ (Registered(s) /\ Registered(s)')
      PROVE  FeedInv'
  BY <1>1, OtherFeed
<1>2. \A w \in Workflows : links[w] \in Nat /\ links[w] <= links[w] /\ links[w] <= MaxLinks
  BY DEF TypeOK, SyncTypeOK, FeedInv, StatesInv
<1>3. CASE Cancel \/ UNCHANGED vars
  <2>1. UNCHANGED <<apiVars, syncVars, listenerVars, pollVars, historyVars>>
    BY <1>3 DEF Cancel, vars
  <2> QED BY <1>1, <1>2, <2>1 DEF apiVars, listenerVars
<1>4. ASSUME NEW w \in Workflows, Publish(w) PROVE FeedInv'
  <2>1. UNCHANGED <<syncVars, listenerVars, pollVars, historyVars>>
    BY <1>4 DEF Publish
  <2>2. \A v \in Workflows : links[v] <= links'[v] /\ links'[v] <= MaxLinks
    BY <1>2, <1>4 DEF Publish, TypeOK, SyncTypeOK
  <2> QED BY <1>1, <2>1, <2>2 DEF listenerVars
<1>5. ASSUME NEW s \in Services, Register(s) PROVE FeedInv'
  BY <1>5, StartFeed, SyncedFeed, LowerFeed, NewFeed, AppendFeed, BuildFeed, AddFeed
  DEF Register, RegisterStep
<1>6. ASSUME NEW s \in Services, Listen(s) PROVE FeedInv'
  <2>1. /\ UNCHANGED <<apiVars, syncVars, states, request, left, header, pollVars, historyVars>>
        /\ svc[s] \in {"ready", "busy"}
        /\ svc' = [svc EXCEPT ![s] = "ready"] \/ svc' = [svc EXCEPT ![s] = "gone"]
    BY <1>6 DEF Listen, Saved, SaveFails, Leave, ChannelClosed
  <2>2. \A t \in Services : svc'[t] = svc[t] \/ (Registered(t) /\ Registered(t)')
    BY <2>1 DEF Registered, TypeOK, ListenerTypeOK
  <2> QED BY <1>1, <1>2, <2>1, <2>2 DEF apiVars
<1>7. CASE pollAndNotify \/ Stop
  BY <1>7, LoopFeed, NotifyFeed, PageFeed, DeliverFeed, SentFeed
  DEF pollAndNotify, pollWorkflows
<1> QED BY <1>3, <1>4, <1>5, <1>6, <1>7 DEF Next, Environment

\* Register promises a start that lies between positions.
LEMMA AddIsSubscribe ==
  ASSUME TypeOK, FeedInv, NEW s \in Services, AddListener(s)
  PROVE  Feed!Subscribe(s)
<1>1. /\ promised' = [promised EXCEPT ![s] = [w \in Workflows |-> PromiseOf(s, w)]]
      /\ UNCHANGED <<links, received>> /\ svc[s] = "add"
  BY DEF AddListener, apiVars
<1>2. ASSUME NEW w \in Workflows
      PROVE  /\ promised[s][w] = NoPromise
             /\ promised'[s][w] = PromiseOf(s, w)
             /\ \/ PromiseOf(s, w) = NoPromise
                \/ 0 <= PromiseOf(s, w).from /\ PromiseOf(s, w).from <= PromiseOf(s, w).upTo
  <2>1. promised[s][w] = NoPromise
    BY <1>1 DEF FeedInv, PromiseInv, Registered
  <2>2. promised'[s][w] = PromiseOf(s, w)
    BY <1>1 DEF TypeOK, HistoryTypeOK
  <2>3. \/ PromiseOf(s, w) = NoPromise
        \/ 0 <= PromiseOf(s, w).from /\ PromiseOf(s, w).from <= PromiseOf(s, w).upTo
    BY DEF PromiseOf
  <2> QED BY <2>1, <2>2, <2>3
<1>3. \A t \in Services \ {s} : promised'[t] = promised[t]
  BY <1>1 DEF TypeOK, HistoryTypeOK
<1> QED BY <1>1, <1>2, <1>3 DEF Feed!Subscribe

\* A batch is the next links of the feed, or those it may start with.
LEMMA DeliverIsDeliver ==
  ASSUME TypeOK, FeedInv, DeliveryInv, Deliver
  PROVE  Feed!Deliver(Listener, Current.ID)
<1>1. pc = "send" /\ toNotify # << >> /\ todo # << >> /\ UNCHANGED <<links, promised>>
  BY DEF Deliver, apiVars, TypeOK, PollTypeOK
<1>2. PICK s \in Services, w \in Workflows : s = Listener /\ w = Current.ID
  BY <1>1, CurrentType, CurrentListenerType DEF TypeOK
<1>3. In(toNotify, s)
  BY <1>1, <1>2, HeadOrTail DEF TypeOK, PollTypeOK, Listener
<1>4. PICK c \in Nat : c = states[s][w]
  BY <1>1, <1>2 DEF FeedInv, PollingInv
<1>5. Registered(s)
  BY <1>1, <1>3 DEF FeedInv, ListedInv, Listed
<1>6. /\ promised[s][w] # NoPromise
      /\ received[s][w] = << >> =>
           /\ 0 <= promised[s][w].from /\ promised[s][w].from <= c
           /\ c <= promised[s][w].upTo
  BY <1>4, <1>5 DEF FeedInv, PromiseInv
<1>7. MayComeNext(s, w, page.lo)
  BY <1>1, <1>2, <1>3, <1>4, <1>5 DEF FeedInv, OfferInv, Pending, Distributing
<1>8. /\ page \in Page /\ page.lo \in Nat /\ page.lo < page.hi /\ c < page.hi
      /\ batch = Slice(page, c) /\ page.hi <= links[w]
  BY <1>1, <1>2, <1>4
  DEF FeedInv, PollingInv, DeliveryInv, PageIsCurrent, Distributing, TypeOK, PollTypeOK
<1>9. PICK lo \in Nat, hi \in Nat :
        /\ lo = batch.lo /\ hi = batch.hi /\ lo < hi /\ hi = page.hi
        /\ lo = IF page.lo < c THEN c ELSE page.lo
  <2>1. batch.hi = page.hi /\ batch.lo = IF page.lo < c THEN c ELSE page.lo
    BY <1>8, SliceNext
  <2>2. page.hi \in Nat
    BY <1>8 DEF Page
  <2>3. batch.lo \in Nat /\ batch.lo < page.hi
    BY <1>8, <2>1
  <2> QED BY <2>1, <2>2, <2>3
<1>10. lo + 1 \in Feed!MayFollow(s, w)
  <2>1. CASE received[s][w] = << >>
    <3>1. promised[s][w].from \in Int /\ promised[s][w].upTo \in Int
      BY DEF TypeOK, HistoryTypeOK, Promise, Cursor, None
    <3>2. promised[s][w].from <= lo /\ lo <= promised[s][w].upTo
      BY <1>4, <1>6, <1>7, <1>8, <1>9, <2>1, <3>1 DEF MayComeNext
    <3> QED BY <2>1, <3>1, <3>2 DEF Feed!MayFollow
  <2>2. CASE received[s][w] # << >>
    <3>1. received[s][w][Len(received[s][w])] = c
      BY <1>1, <1>4, <2>2 DEF DeliveryInv, ListenerCursorIsLastReceived, LastReceived
    <3>2. lo = c
      BY <1>4, <1>7, <1>8, <1>9, <2>2 DEF MayComeNext
    <3> QED BY <2>2, <3>1, <3>2 DEF Feed!MayFollow
  <2> QED BY <2>1, <2>2
<1>11. hi \in lo + 1 .. links[w]
  BY <1>8, <1>9 DEF TypeOK, SyncTypeOK
<1>12. LinksOf(batch) = [i \in 1 .. hi + 1 - (lo + 1) |-> (lo + 1) + i - 1]
  <2>1. hi + 1 - (lo + 1) = hi - lo
    BY <1>9
  <2>2. \A i \in 1 .. hi - lo : (lo + 1) + i - 1 = lo + i
    OBVIOUS
  <2> QED BY <1>9, <2>1, <2>2 DEF LinksOf
<1>13. received' = [received EXCEPT ![s][w] =
                      @ \o [i \in 1 .. hi + 1 - (lo + 1) |-> (lo + 1) + i - 1]]
  BY <1>2, <1>12 DEF Deliver
<1>14. received'[s][w] # received[s][w]
  <2>1. PICK q \in Seq(Int), b \in Batch : q = received[s][w] /\ b = batch
    BY DEF TypeOK, HistoryTypeOK, PollTypeOK
  <2>2. received'[s][w] = q \o LinksOf(b)
    BY <1>2, <2>1 DEF Deliver, TypeOK, HistoryTypeOK
  <2>3. b.lo = lo /\ b.hi = hi
    BY <1>9, <2>1
  <2>4. LinksOf(b) \in Seq(Int) /\ Len(LinksOf(b)) = hi - lo
    <3>1. lo <= hi
      BY <1>9
    <3>2. b.lo <= b.hi
      BY <2>3, <3>1
    <3> QED BY <2>3, <3>2, LinksOfType
  <2>5. PICK t \in Seq(Int) : t = LinksOf(b) /\ Len(t) = hi - lo
    BY <2>4
  <2>6. Len(q \o t) = Len(q) + Len(t) /\ Len(q) \in Nat
    BY ConcatProperties, LenProperties
  <2>7. Len(q \o t) # Len(q)
    BY <1>9, <2>5, <2>6
  <2> QED BY <2>1, <2>2, <2>5, <2>7
<1>15. Feed!Deliver(s, w)
  BY <1>1, <1>6, <1>10, <1>11, <1>13, <1>14 DEF Feed!Deliver
<1> QED BY <1>2, <1>15

LEMMA InitIsInit == Init => Feed!Init
BY DEF Init, Feed!Init

LEMMA StepIsStep ==
  ASSUME TypeOK, FeedInv, DeliveryInv, [Next]_vars
  PROVE  [Feed!Next]_(Feed!vars)
<1> SUFFICES ASSUME ~ UNCHANGED <<links, received, promised>> PROVE Feed!Next
  BY DEF Feed!vars
<1>1. ASSUME NEW w \in Workflows, Publish(w) PROVE Feed!Next
  BY <1>1 DEF Publish, historyVars, Feed!Next, Feed!Publish
<1>2. ASSUME NEW s \in Services, AddListener(s) PROVE Feed!Next
  BY <1>2, AddIsSubscribe DEF Feed!Next
<1>3. CASE Deliver
  <2>1. Listener \in Services /\ Current.ID \in Workflows
    BY <1>3, CurrentType, CurrentListenerType DEF Deliver, TypeOK, PollTypeOK
  <2> QED BY <1>3, <2>1, DeliverIsDeliver DEF Feed!Next
<1>4. ASSUME NEW s \in Services, Register(s), ~ AddListener(s) PROVE FALSE
  BY <1>4
  DEF Register, RegisterStep, StartRegister, RegisterSynced, LowerCursor, RegisterNew,
      AppendWorkflow, BuildListener, apiVars, historyVars
<1>5. ASSUME NEW s \in Services, Listen(s) PROVE FALSE
  BY <1>5 DEF Listen, Saved, SaveFails, Leave, ChannelClosed, apiVars, historyVars
<1>6. CASE (pollAndNotify /\ ~ Deliver) \/ Stop \/ Cancel \/ UNCHANGED vars
  BY <1>6
  DEF pollAndNotify, pollWorkflows, Tick, NextWorkflow, PollDone, CallAPI, PagesDone, APIPage,
      APIFails, APINull, APIBadHash, StartNotify, SkipListener, SliceForListener, Sent,
      NotifyDone, Stop, Cancel, vars, apiVars, historyVars
<1> QED BY <1>1, <1>2, <1>3, <1>4, <1>5, <1>6 DEF Next, Environment

LEMMA NextInv ==
  ASSUME OrdersAgree
  PROVE  TypeOK /\ FeedInv /\ DeliveryInv /\ Calm /\ [Next]_vars => FeedInv' /\ DeliveryInv'
BY NextType, NextFeed, CalmNoRace, NextDelivery

\* Livesync implements the feed when a registration that names workflows runs alone, two
\* listeners are not appended at once to a list that has some, and the two orders of cursors
\* agree on what is asked for.
THEOREM CalmImplementsFeed ==
  ASSUME OrdersAgree
  PROVE  Spec /\ []Calm => FeedSpec
<1>1. Init => FeedInv /\ DeliveryInv
  BY InitFeed, InitDelivery
<1>2. TypeOK /\ FeedInv /\ DeliveryInv /\ Calm /\ [Next]_vars => FeedInv' /\ DeliveryInv'
  BY NextInv
<1>3. TypeOK /\ FeedInv /\ DeliveryInv /\ [Next]_vars => [Feed!Next]_(Feed!vars)
  BY StepIsStep
<1> QED BY <1>1, <1>2, <1>3, InitIsInit, TypeCorrect, PTL DEF Spec, FeedSpec, Feed!Spec

\* So it does when registrations wait for the poller and for each other, whatever they ask
\* for.
THEOREM QuietImplementsFeed ==
  ASSUME OrdersAgree
  PROVE  QuietSpec => FeedSpec
<1>1. Quiet => Calm
  BY DEF Quiet, Calm, AloneUnlessNil, NoListenerRace, Registering
<1> QED BY <1>1, QuietAlone, CalmImplementsFeed, PTL

\* And so it does in this repository, where two services register and both pass nil,
\* however their registrations interleave with each other and with the poller.
THEOREM NilImplementsFeed ==
  ASSUME Requests = {NilRequest},
         \A s, t, u \in Services : s = t \/ t = u \/ s = u
  PROVE  Spec => FeedSpec
<1>1. OrdersAgree
  BY DEF OrdersAgree, Requested, NilRequest
<1>2. TypeOK /\ FeedInv => Calm
  <2> SUFFICES ASSUME TypeOK, FeedInv PROVE Calm
    OBVIOUS
  <2>1. AloneUnlessNil
    BY DEF AloneUnlessNil, FeedInv, RegisterInv, RegisterOK, NilRequest
  <2>2. NoListenerRace
    <3> SUFFICES ASSUME NEW s \in Services, NEW t \in Services, svc[s] = "add",
                        svc[t] = "add", s # t, registeredServices # << >>
                 PROVE  FALSE
      BY DEF NoListenerRace
    <3>1. registeredServices \in Seq(Services)
      BY DEF TypeOK, SyncTypeOK
    <3>2. PICK u \in Services : In(registeredServices, u)
      BY <3>1, HeadOrTail
    <3>3. Registered(u)
      BY <3>2 DEF FeedInv, ListedInv, Listed
    <3>4. u # s /\ u # t
      BY <3>3 DEF Registered
    <3> QED BY <3>4
  <2> QED BY <2>1, <2>2 DEF Calm
<1>3. Init => FeedInv /\ DeliveryInv
  BY InitFeed, InitDelivery
<1>4. TypeOK /\ FeedInv /\ DeliveryInv /\ [Next]_vars => FeedInv' /\ DeliveryInv'
  BY <1>1, <1>2, NextInv
<1> QED BY <1>1, <1>2, <1>3, <1>4, TypeCorrect, CalmImplementsFeed, PTL DEF Spec

-----------------------------------------------------------------------------
(* What the feed says of its first link.                                   *)

StartInv ==
  \A s \in Services, w \in Workflows : received[s][w] # << >> =>
    /\ promised[s][w] # NoPromise
    /\ received[s][w][1] <= promised[s][w].upTo + 1

LEMMA FeedStart ==
  ASSUME TypeOK, TypeOK', StartInv, [Feed!Next]_(Feed!vars)
  PROVE  StartInv'
<1>1. ASSUME UNCHANGED <<received, promised>> PROVE StartInv'
  BY <1>1 DEF StartInv
<1>2. ASSUME NEW w \in Workflows, Feed!Publish(w) PROVE StartInv'
  BY <1>1, <1>2 DEF Feed!Publish
<1>3. ASSUME NEW s \in Services, Feed!Subscribe(s) PROVE StartInv'
  <2>1. /\ \A w \in Workflows : promised[s][w] = NoPromise
        /\ \A t \in Services \ {s} : promised'[t] = promised[t]
        /\ received' = received
    BY <1>3 DEF Feed!Subscribe
  <2>2. \A w \in Workflows : received[s][w] = << >>
    BY <2>1 DEF StartInv
  <2> QED BY <2>1, <2>2 DEF StartInv
<1>4. ASSUME NEW s \in Services, NEW w \in Workflows, Feed!Deliver(s, w) PROVE StartInv'
  <2>1. PICK q \in Seq(Int) : q = received[s][w]
    BY DEF TypeOK, HistoryTypeOK
  <2>2. PICK first \in Feed!MayFollow(s, w) : \E last \in first .. links[w] :
          received' = [received EXCEPT ![s][w] =
                         @ \o [i \in 1 .. last + 1 - first |-> first + i - 1]]
    BY <1>4 DEF Feed!Deliver
  <2>3. PICK last \in first .. links[w] :
           received' = [received EXCEPT ![s][w] =
                          @ \o [i \in 1 .. last + 1 - first |-> first + i - 1]]
    BY <2>2
  <2>4. promised[s][w] # NoPromise /\ promised' = promised /\ received'[s][w] # q
    BY <1>4, <2>1 DEF Feed!Deliver
  <2>5. first \in Int /\ last \in Int /\ first <= last /\ promised[s][w].upTo \in Int
    <3>1. promised[s][w].from \in Int /\ promised[s][w].upTo \in Int
      BY DEF TypeOK, HistoryTypeOK, Promise, Cursor, None
    <3>2. q # << >> => q[Len(q)] \in Int
      BY <2>1, EmptySeq, LenProperties, ElementOfSeq
    <3>3. first \in Int
      BY <2>1, <3>1, <3>2 DEF Feed!MayFollow
    <3>4. links[w] \in Int
      BY DEF TypeOK, SyncTypeOK
    <3> QED BY <3>1, <3>3, <3>4
  <2>6. PICK n \in Nat : n = last + 1 - first /\ n >= 1
    BY <2>5
  <2>7. PICK t : t = [i \in 1 .. n |-> first + i - 1]
    OBVIOUS
  <2>8. t \in Seq(Int) /\ Len(t) = n /\ t[1] = first
    <3>1. PICK d \in Int : d = first - 1
      BY <2>5
    <3>2. t = [i \in 1 .. n |-> d + i]
      BY <2>5, <2>6, <2>7, <3>1
    <3>3. t \in Seq(Int) /\ Len(t) = n
      BY <3>2, IsASeq
    <3>4. t[1] = first
      BY <2>5, <2>6, <2>7
    <3> QED BY <3>3, <3>4
  <2>9. PICK r : r = q \o t
    OBVIOUS
  <2>10. r[1] = IF q = << >> THEN first ELSE q[1]
    <3>1. PICK k \in Nat : k = Len(q)
      BY <2>1, LenProperties
    <3>2. \A i \in 1 .. k + n : r[i] = IF i <= k THEN q[i] ELSE t[i - k]
      BY <2>8, <2>9, <3>1, ConcatProperties
    <3>3. 1 \in 1 .. k + n
      BY <2>6
    <3>4. q = << >> <=> k = 0
      BY <2>1, <3>1, EmptySeq
    <3>5. CASE k = 0
      <4>1. r[1] = t[1 - k] /\ 1 - k = 1
        BY <3>2, <3>3, <3>5
      <4> QED BY <2>8, <3>4, <3>5, <4>1
    <3>6. CASE k # 0
      BY <3>2, <3>3, <3>4, <3>6
    <3> QED BY <3>5, <3>6
  <2>11. /\ received'[s][w] = r
         /\ \A u \in Services, v \in Workflows :
              <<u, v>> # <<s, w>> => received'[u][v] = received[u][v]
    BY <2>1, <2>3, <2>6, <2>7, <2>9 DEF TypeOK, HistoryTypeOK
  <2>12. r[1] <= promised[s][w].upTo + 1
    <3>1. CASE q = << >>
      <4>1. first \in promised[s][w].from + 1 .. promised[s][w].upTo + 1
        BY <2>1, <3>1 DEF Feed!MayFollow
      <4> QED BY <2>5, <2>10, <3>1, <4>1
    <3>2. CASE q # << >>
      BY <2>1, <2>10, <3>2 DEF StartInv
    <3> QED BY <3>1, <3>2
  <2> QED BY <2>4, <2>11, <2>12 DEF StartInv
<1> QED BY <1>1, <1>2, <1>3, <1>4 DEF Feed!Next, Feed!vars

\* The disagreement of the two orders is all that stands between Register and its comment
\* (livesync.go:70): where they agree on what is asked for, a feed starts at the cursor its
\* registration named.
THEOREM QuietStartsAtRequest ==
  ASSUME OrdersAgree
  PROVE  QuietSpec => []StartsAtRequest
<1>1. Init => StartInv
  BY DEF Init, StartInv
<1>2. TypeOK /\ TypeOK' /\ StartInv /\ [Feed!Next]_(Feed!vars) => StartInv'
  BY FeedStart
<1>3. StartInv => StartsAtRequest
  BY DEF StartInv, StartsAtRequest
<1> QED BY <1>1, <1>2, <1>3, QuietImplementsFeed, QuietAlone, TypeCorrect, PTL
        DEF Spec, FeedSpec, Feed!Spec
=============================================================================
