--------------------------- MODULE LivesyncProofs ---------------------------
(* Theorems about Livesync for all values of its constants.                *)
EXTENDS Livesync, SequenceTheorems, WellFoundedInduction, TLAPS

USE WatchedAssumption, UnknownAssumption, ConfigAssumption, BoundsAssumption,
    RequestsAssumption

-----------------------------------------------------------------------------
(* The helpers.                                                            *)

\* A nonempty set of naturals has a least element.
LEMMA LeastNat ==
  ASSUME NEW S \in SUBSET Nat, S # {}
  PROVE  \E i \in S : \A j \in S : i <= j
<1> DEFINE R == OpToRel(<, Nat)
<1>1. IsWellFoundedOn(R, Nat)
  BY NatLessThanWellFounded
<1>2. \A x, y \in Nat : <<y, x>> \in R <=> y < x
  BY DEF OpToRel
<1> HIDE DEF R
<1>3. PICK x \in S : \A y \in S : ~ (<<y, x>> \in R)
  BY <1>1, WFMin
<1>4. \A y \in S : x <= y
  <2> TAKE y \in S
  <2>1. x \in Nat /\ y \in Nat
    OBVIOUS
  <2>2. ~ (y < x)
    BY <1>2, <1>3, <2>1
  <2> QED BY <2>1, <2>2
<1> QED BY <1>4

\* WorkflowStates.Get, on the synchronizer's slice: a state with that ID.
LEMMA GetType ==
  ASSUME workflowStates \in Seq(Pointer), NEW w, Has(w)
  PROVE  Get(w) \in Pointer /\ Get(w).ID = w
<1> DEFINE S == {i \in 1 .. Len(workflowStates) : workflowStates[i].ID = w}
           Is(i) == /\ workflowStates[i].ID = w
                    /\ \A j \in 1 .. i - 1 : workflowStates[j].ID # w
<1>1. Len(workflowStates) \in Nat
  BY LenProperties
<1>2. PICK i \in S : \A j \in S : i <= j
  <2>1. S \in SUBSET Nat /\ S # {}
    BY <1>1 DEF Has
  <2> HIDE DEF S
  <2> QED BY <2>1, LeastNat
<1>3. i \in 1 .. Len(workflowStates) /\ Is(i)
  <2> SUFFICES ASSUME NEW j \in 1 .. i - 1, workflowStates[j].ID = w PROVE FALSE
    OBVIOUS
  <2>1. j \in S /\ j < i
    BY <1>1
  <2> QED BY <1>1, <1>2, <2>1
<1> DEFINE k == CHOOSE n \in 1 .. Len(workflowStates) : Is(n)
<1>4. k \in 1 .. Len(workflowStates) /\ Is(k)
  <2> HIDE DEF Is
  <2> QED BY <1>3
<1>5. Get(w) = workflowStates[k]
  BY DEF Get
<1> HIDE DEF k
<1> QED BY <1>4, <1>5, ElementOfSeq

\* WorkflowStates.Get, on the list passed to Register: a cursor of the list.
LEMMA StatesOfEntry ==
  ASSUME NEW list \in Seq(Entry), NEW w \in Workflows, StatesOf(list)[w] # None
  PROVE  \E i \in 1 .. Len(list) : list[i].ID = w /\ StatesOf(list)[w] = list[i].Cursor
<1> DEFINE S == {i \in 1 .. Len(list) : list[i].ID = w}
           Is(i) == list[i].ID = w /\ \A j \in 1 .. i - 1 : list[j].ID # w
<1>1. Len(list) \in Nat
  BY LenProperties
<1>2. \E i \in 1 .. Len(list) : list[i].ID = w
  BY DEF StatesOf
<1>3. PICK i \in S : \A j \in S : i <= j
  <2>1. S \in SUBSET Nat /\ S # {}
    BY <1>1, <1>2
  <2> HIDE DEF S
  <2> QED BY <2>1, LeastNat
<1>4. i \in 1 .. Len(list) /\ Is(i)
  <2> SUFFICES ASSUME NEW j \in 1 .. i - 1, list[j].ID = w PROVE FALSE
    OBVIOUS
  <2>1. j \in S /\ j < i
    BY <1>1
  <2> QED BY <1>1, <1>3, <2>1
<1> DEFINE k == CHOOSE n \in 1 .. Len(list) : Is(n)
<1>5. k \in 1 .. Len(list) /\ Is(k)
  <2> HIDE DEF Is
  <2> QED BY <1>4
<1>6. StatesOf(list)[w] = list[k].Cursor
  BY <1>2 DEF StatesOf
<1> HIDE DEF k
<1> QED BY <1>5, <1>6

LEMMA StatesOfType ==
  ASSUME NEW list \in Seq(Entry)
  PROVE  StatesOf(list) \in [Workflows -> Cursor \cup {None}]
<1>1. ASSUME NEW w \in Workflows PROVE StatesOf(list)[w] \in Cursor \cup {None}
  <2> SUFFICES ASSUME StatesOf(list)[w] # None PROVE StatesOf(list)[w] \in Cursor
    OBVIOUS
  <2>1. PICK i \in 1 .. Len(list) : StatesOf(list)[w] = list[i].Cursor
    BY StatesOfEntry
  <2>2. list[i] \in Entry
    BY ElementOfSeq
  <2> QED BY <2>1, <2>2 DEF Entry
<1> QED BY <1>1 DEF StatesOf

LEMMA AllStatesType == AllStates \in [Workflows -> Cursor \cup {None}]
BY DEF AllStates, Cursor

\* linkEdges.Slice returns a part of the page that ends where the page ends.
LEMMA SliceType ==
  ASSUME NEW p \in Page, NEW c \in Int
  PROVE  Slice(p, c) \in Batch /\ Slice(p, c).hi = p.hi
BY DEF Slice, Page, Batch

\* The links of a batch, each after the one before.
LEMMA LinksOfType ==
  ASSUME NEW b \in Batch
  PROVE  /\ LinksOf(b) \in Seq(Int)
         /\ b.lo <= b.hi => /\ Len(LinksOf(b)) = b.hi - b.lo
                            /\ \A i \in 1 .. b.hi - b.lo : LinksOf(b)[i] = b.lo + i
<1>1. PICK lo \in Int, n \in Int : lo = b.lo /\ n = b.hi - b.lo /\ (b.lo <= b.hi => n >= 0)
  BY DEF Batch
<1>2. PICK m \in Nat : 1 .. n = 1 .. m /\ (n >= 0 => m = n)
  <2>1. CASE n >= 0
    BY <2>1
  <2>2. CASE n < 0
    <3>1. 1 .. n = 1 .. 0
      BY <2>2
    <3> QED BY <2>2, <3>1
  <2> QED BY <2>1, <2>2
<1>3. LinksOf(b) = [i \in 1 .. m |-> lo + i]
  BY <1>1, <1>2 DEF LinksOf
<1>4. LinksOf(b) \in Seq(Int) /\ Len(LinksOf(b)) = m
  BY <1>3, IsASeq
<1> QED BY <1>1, <1>2, <1>3, <1>4

-----------------------------------------------------------------------------
(* Type correctness.                                                       *)

LEMMA InitType == Init => TypeOK
<1> SUFFICES ASSUME Init PROVE TypeOK
  OBVIOUS
<1>1. SyncTypeOK
  <2>1. workflowStates \in Seq(Pointer)
    <3> DEFINE e(i) == [owner |-> Config, ID |-> Watched[i]]
    <3>1. Len(Watched) \in Nat /\ \A i \in 1 .. Len(Watched) : Watched[i] \in Workflows
      BY LenProperties, ElementOfSeq
    <3>2. \A i \in 1 .. Len(Watched) : e(i) \in Pointer
      BY <3>1 DEF Pointer
    <3>3. workflowStates = [i \in 1 .. Len(Watched) |-> e(i)]
      BY DEF Init
    <3> HIDE DEF e
    <3> QED BY <3>1, <3>2, <3>3, IsASeq
  <2>2. cursor \in [Pointer -> Cursor]
    BY DEF Init, Cursor
  <2>3. links \in [Workflows -> Nat] /\ registeredServices \in Seq(Services)
    BY DEF Init
  <2>4. closed = {} /\ ctxDone = FALSE
    BY DEF Init
  <2>5. closed \subseteq Services /\ ctxDone \in BOOLEAN
    BY <2>4
  <2> QED BY <2>1, <2>2, <2>3, <2>5 DEF SyncTypeOK
<1>2. ListenerTypeOK
  BY DEF Init, ListenerTypeOK, ServiceStep, None, NilRequest, Request
<1>3. PollTypeOK
  BY DEF Init, PollTypeOK, PollStep, Cursor, Page, Batch
<1>4. HistoryTypeOK
  BY DEF Init, HistoryTypeOK, NoPromise, Promise
<1> QED BY <1>1, <1>2, <1>3, <1>4 DEF TypeOK

\* A group of variables that a step leaves alone keeps its types.
LEMMA SyncFrame ==
  ASSUME SyncTypeOK, UNCHANGED <<apiVars, syncVars, endVars>> PROVE SyncTypeOK'
BY DEF SyncTypeOK, apiVars, syncVars, endVars

LEMMA ListenerFrame ==
  ASSUME ListenerTypeOK, UNCHANGED listenerVars PROVE ListenerTypeOK'
BY DEF ListenerTypeOK, listenerVars

LEMMA PollFrame ==
  ASSUME PollTypeOK, UNCHANGED pollVars PROVE PollTypeOK'
BY DEF PollTypeOK, pollVars

LEMMA HistoryFrame ==
  ASSUME HistoryTypeOK, UNCHANGED historyVars PROVE HistoryTypeOK'
BY DEF HistoryTypeOK, historyVars

\* The current workflow state and the current listener, while there is one.
LEMMA CurrentType ==
  ASSUME PollTypeOK, todo # << >>
  PROVE  Current \in Pointer /\ Current.ID \in Workflows /\ Tail(todo) \in Seq(Pointer)
<1>1. todo \in Seq(Pointer)
  BY DEF PollTypeOK
<1>2. Current \in Pointer /\ Tail(todo) \in Seq(Pointer)
  BY <1>1, HeadTailProperties DEF Current
<1>3. Current.ID \in Workflows
  BY <1>2 DEF Pointer
<1> QED BY <1>2, <1>3

LEMMA CurrentListenerType ==
  ASSUME PollTypeOK, toNotify # << >>
  PROVE  Listener \in Services /\ Tail(toNotify) \in Seq(Services)
<1>1. toNotify \in Seq(Services)
  BY DEF PollTypeOK
<1> QED BY <1>1, HeadTailProperties DEF Listener

\* The steps of Register keep the types.
LEMMA RegisterType ==
  ASSUME TypeOK, NEW s \in Services, Register(s)
  PROVE  TypeOK'
<1> USE DEF TypeOK
<1>1. CASE StartRegister(s)
  <2>1. SyncTypeOK' /\ PollTypeOK' /\ HistoryTypeOK'
    BY <1>1, SyncFrame, PollFrame, HistoryFrame DEF StartRegister
  <2>2. ListenerTypeOK'
    BY <1>1 DEF StartRegister, ListenerTypeOK, ServiceStep, Request
  <2> QED BY <2>1, <2>2
<1>2. CASE RegisterSynced(s)
  <2>1. SyncTypeOK' /\ PollTypeOK' /\ HistoryTypeOK'
    BY <1>2, SyncFrame, PollFrame, HistoryFrame DEF RegisterSynced
  <2>2. Tail(left[s]) \in Seq(Entry)
    BY <1>2, HeadTailProperties DEF RegisterSynced, ListenerTypeOK
  <2> DEFINE p == Get(Head(left[s]).ID)
  <2>3. p \in Pointer
    BY <1>2, GetType DEF RegisterSynced, SyncTypeOK
  <2>4. <<p>> \in Seq(Pointer) /\ <<p>> # << >>
    <3> HIDE DEF p
    <3> QED BY <2>3
  <2>5. /\ UNCHANGED <<states, request>>
        /\ \/ svc' = [svc EXCEPT ![s] = "failed"] /\ UNCHANGED <<left, header>>
           \/ /\ svc' = [svc EXCEPT ![s] = "lower"] /\ UNCHANGED left
              /\ header' = [header EXCEPT ![s] = <<p>>]
           \/ left' = [left EXCEPT ![s] = Tail(@)] /\ UNCHANGED <<svc, header>>
        /\ svc[s] = "loop" /\ left[s] # << >>
    BY <1>2 DEF RegisterSynced
  <2> HIDE DEF p
  <2>6. CASE svc' = [svc EXCEPT ![s] = "failed"] /\ UNCHANGED <<left, header>>
    <3>1. ListenerTypeOK'
      BY <2>5, <2>6 DEF ListenerTypeOK, ServiceStep
    <3> QED BY <2>1, <3>1
  <2>7. CASE /\ svc' = [svc EXCEPT ![s] = "lower"] /\ UNCHANGED left
             /\ header' = [header EXCEPT ![s] = <<p>>]
    <3>1. ListenerTypeOK'
      BY <2>4, <2>5, <2>7 DEF ListenerTypeOK, ServiceStep
    <3> QED BY <2>1, <3>1
  <2>8. CASE left' = [left EXCEPT ![s] = Tail(@)] /\ UNCHANGED <<svc, header>>
    <3>1. ListenerTypeOK'
      BY <2>2, <2>5, <2>8 DEF ListenerTypeOK, ServiceStep
    <3> QED BY <2>1, <3>1
  <2> QED BY <2>5, <2>6, <2>7, <2>8
<1>3. CASE LowerCursor(s)
  <2>1. PollTypeOK' /\ HistoryTypeOK'
    BY <1>3, PollFrame, HistoryFrame DEF LowerCursor
  <2>2. Head(left[s]) \in Entry /\ Tail(left[s]) \in Seq(Entry)
    BY <1>3, HeadTailProperties DEF LowerCursor, ListenerTypeOK
  <2>3. SyncTypeOK'
    BY <1>3, <2>2 DEF LowerCursor, SyncTypeOK, Entry, apiVars, endVars
  <2>4. ListenerTypeOK'
    BY <1>3, <2>2 DEF LowerCursor, ListenerTypeOK, ServiceStep
  <2> QED BY <2>1, <2>3, <2>4
<1>4. CASE RegisterNew(s)
  <2>1. SyncTypeOK' /\ PollTypeOK' /\ HistoryTypeOK'
    BY <1>4, SyncFrame, PollFrame, HistoryFrame DEF RegisterNew
  <2>2. ListenerTypeOK'
    BY <1>4 DEF RegisterNew, ListenerTypeOK, SyncTypeOK, ServiceStep
  <2> QED BY <2>1, <2>2
<1>5. CASE AppendWorkflow(s)
  <2>1. PollTypeOK' /\ HistoryTypeOK'
    BY <1>5, PollFrame, HistoryFrame DEF AppendWorkflow
  <2>2. Head(left[s]) \in Entry /\ Tail(left[s]) \in Seq(Entry)
    BY <1>5, HeadTailProperties DEF AppendWorkflow, ListenerTypeOK
  <2>3. [owner |-> s, ID |-> Head(left[s]).ID] \in Pointer
    BY <2>2 DEF Entry, Pointer
  <2>4. header[s] \in Seq(Pointer) /\ workflowStates \in Seq(Pointer)
    BY <1>5 DEF AppendWorkflow, ListenerTypeOK, SyncTypeOK
  <2>5. workflowStates' \in Seq(Pointer)
    BY <1>5, <2>3, <2>4, AppendProperties DEF AppendWorkflow
  <2>6. cursor' \in [Pointer -> Cursor]
    BY <1>5, <2>2, <2>3 DEF AppendWorkflow, Entry, SyncTypeOK
  <2>7. SyncTypeOK'
    BY <1>5, <2>5, <2>6 DEF AppendWorkflow, SyncTypeOK, apiVars, endVars
  <2>8. ListenerTypeOK'
    BY <1>5, <2>2 DEF AppendWorkflow, ListenerTypeOK, ServiceStep
  <2> QED BY <2>1, <2>7, <2>8
<1>6. CASE BuildListener(s)
  <2>1. SyncTypeOK' /\ PollTypeOK' /\ HistoryTypeOK'
    BY <1>6, SyncFrame, PollFrame, HistoryFrame DEF BuildListener
  <2>2. request[s].states \in Seq(Entry)
    BY DEF Request, ListenerTypeOK
  <2>3. states' \in [Services -> [Workflows -> Cursor \cup {None}]]
    BY <1>6, <2>2, AllStatesType, StatesOfType DEF BuildListener, ListenerTypeOK
  <2>4. ListenerTypeOK'
    BY <1>6, <2>3 DEF BuildListener, ListenerTypeOK, SyncTypeOK, ServiceStep
  <2> QED BY <2>1, <2>4
<1>7. CASE AddListener(s)
  <2>1. PollTypeOK'
    BY <1>7, PollFrame DEF AddListener
  <2>2. header[s] \in Seq(Services) /\ registeredServices \in Seq(Services)
    BY <1>7 DEF AddListener, ListenerTypeOK, SyncTypeOK
  <2>3. registeredServices' \in Seq(Services)
    BY <1>7, <2>2, AppendProperties DEF AddListener
  <2>4. SyncTypeOK'
    BY <1>7, <2>3 DEF AddListener, SyncTypeOK, apiVars, endVars
  <2>5. ListenerTypeOK'
    BY <1>7 DEF AddListener, ListenerTypeOK, ServiceStep
  <2>6. \A w \in Workflows : PromiseOf(s, w) \in Promise
    BY DEF PromiseOf, Promise, NoPromise, None, Cursor
  <2>7. HistoryTypeOK'
    BY <1>7, <2>6 DEF AddListener, HistoryTypeOK
  <2> QED BY <2>1, <2>4, <2>5, <2>7
<1> QED BY <1>1, <1>2, <1>3, <1>4, <1>5, <1>6, <1>7 DEF Register, RegisterStep

\* The steps of the poller keep the types.
LEMMA PollType ==
  ASSUME TypeOK, pollAndNotify
  PROVE  TypeOK'
<1> USE DEF TypeOK
<1>1. CASE Tick
  BY <1>1, SyncFrame, ListenerFrame, HistoryFrame DEF Tick, PollTypeOK, SyncTypeOK, PollStep
<1>2. CASE NextWorkflow
  BY <1>2, SyncFrame, ListenerFrame, HistoryFrame
  DEF NextWorkflow, PollTypeOK, PollStep, Cursor, Page
<1>3. CASE PollDone
  BY <1>3, SyncFrame, ListenerFrame, HistoryFrame DEF PollDone, PollTypeOK, PollStep
<1>4. CASE CallAPI
  <2>1. Current \in Pointer
    BY <1>4, CurrentType DEF CallAPI, PollTypeOK
  <2>2. PollTypeOK'
    BY <1>4, <2>1 DEF CallAPI, PollTypeOK, SyncTypeOK, PollStep
  <2> QED BY <1>4, <2>2, SyncFrame, ListenerFrame, HistoryFrame DEF CallAPI
<1>5. CASE PagesDone
  <2>1. Tail(todo) \in Seq(Pointer)
    BY <1>5, CurrentType DEF PagesDone, PollTypeOK
  <2> QED BY <1>5, <2>1, SyncFrame, ListenerFrame, HistoryFrame
          DEF PagesDone, PollTypeOK, PollStep
<1>6. CASE APIPage
  <2>1. Current \in Pointer /\ Current.ID \in Workflows
    BY <1>6, CurrentType DEF APIPage, PollTypeOK
  <2>2. links[Current.ID] \in Nat
    BY <2>1 DEF SyncTypeOK
  <2>3. after \in Nat /\ Pagination \in Nat
    BY <1>6 DEF APIPage, PollTypeOK, Cursor
  <2> DEFINE n  == links[Current.ID]
             hi == IF after < n THEN LesserOf(after + Pagination, n) ELSE after
  <2>4. hi \in Nat
    BY <2>2, <2>3 DEF LesserOf
  <2>5. /\ page' = [lo |-> after, hi |-> hi, more |-> hi < n]
        /\ \/ cursor' = [cursor EXCEPT ![Current] = hi] /\ pc' = "fetched"
           \/ pc' = "page" /\ UNCHANGED cursor
        /\ pc = "call"
    BY <1>6 DEF APIPage
  <2> HIDE DEF hi, n
  <2>6. PollTypeOK'
    BY <1>6, <2>3, <2>4, <2>5 DEF APIPage, PollTypeOK, PollStep, Page
  <2>7. hi \in Cursor
    BY <2>4 DEF Cursor
  <2>8. cursor' \in [Pointer -> Cursor]
    BY <2>1, <2>5, <2>7 DEF SyncTypeOK
  <2>9. SyncTypeOK'
    BY <1>6, <2>8 DEF APIPage, SyncTypeOK, apiVars, endVars
  <2> QED BY <1>6, <2>6, <2>9, ListenerFrame, HistoryFrame DEF APIPage
<1>7. CASE APIFails
  <2>1. Tail(todo) \in Seq(Pointer)
    BY <1>7, CurrentType DEF APIFails, PollTypeOK
  <2> QED BY <1>7, <2>1, SyncFrame, ListenerFrame, HistoryFrame
          DEF APIFails, PollTypeOK, PollStep
<1>8. CASE APINull
  BY <1>8, SyncFrame, ListenerFrame, HistoryFrame DEF APINull, PollTypeOK, PollStep
<1>9. CASE APIBadHash
  <2>1. closed' \subseteq Services
    BY <1>9, ElementOfSeq DEF APIBadHash, CloseListeners, SyncTypeOK
  <2>2. SyncTypeOK'
    BY <1>9, <2>1 DEF APIBadHash, SyncTypeOK, apiVars, syncVars
  <2>3. PollTypeOK'
    BY <1>9 DEF APIBadHash, PollTypeOK, PollStep
  <2> QED BY <1>9, <2>2, <2>3, ListenerFrame, HistoryFrame DEF APIBadHash
<1>10. CASE StartNotify
  BY <1>10, SyncFrame, ListenerFrame, HistoryFrame
  DEF StartNotify, PollTypeOK, SyncTypeOK, PollStep
<1>11. CASE SkipListener
  <2>1. Tail(toNotify) \in Seq(Services)
    BY <1>11, CurrentListenerType DEF SkipListener
  <2> QED BY <1>11, <2>1, SyncFrame, ListenerFrame, HistoryFrame
          DEF SkipListener, PollTypeOK, PollStep
<1>12. CASE SliceForListener
  <2>1. Listener \in Services /\ Current.ID \in Workflows
    BY <1>12, CurrentType, CurrentListenerType DEF SliceForListener, PollTypeOK
  <2>2. states[Listener][Current.ID] \in Int
    BY <2>1 DEF ListenerTypeOK, Cursor, None
  <2>3. batch' \in Batch
    BY <1>12, <2>2, SliceType DEF SliceForListener, PollTypeOK
  <2>4. PollTypeOK'
    BY <1>12, <2>3 DEF SliceForListener, PollTypeOK, PollStep
  <2> QED BY <1>12, <2>4, SyncFrame, ListenerFrame, HistoryFrame DEF SliceForListener
<1>13. CASE Deliver
  <2>1. Listener \in Services /\ Current.ID \in Workflows
    BY <1>13, CurrentType, CurrentListenerType DEF Deliver, PollTypeOK
  <2>2. received[Listener][Current.ID] \o LinksOf(batch) \in Seq(Int)
    <3>1. LinksOf(batch) \in Seq(Int)
      BY LinksOfType DEF PollTypeOK
    <3> QED BY <2>1, <3>1 DEF HistoryTypeOK
  <2>3. HistoryTypeOK'
    BY <1>13, <2>1, <2>2 DEF Deliver, HistoryTypeOK
  <2>4. ListenerTypeOK'
    BY <1>13, <2>1 DEF Deliver, ListenerTypeOK, ServiceStep
  <2>5. PollTypeOK'
    BY <1>13 DEF Deliver, PollTypeOK, PollStep
  <2> QED BY <1>13, <2>3, <2>4, <2>5, SyncFrame DEF Deliver
<1>14. CASE Sent
  <2>1. /\ Listener \in Services /\ Tail(toNotify) \in Seq(Services)
        /\ Current \in Pointer /\ Current.ID \in Workflows
    BY <1>14, CurrentType, CurrentListenerType DEF Sent, PollTypeOK
  <2>2. cursor[Current] \in Cursor
    BY <2>1 DEF SyncTypeOK
  <2>3. ListenerTypeOK'
    BY <1>14, <2>1, <2>2 DEF Sent, ListenerTypeOK
  <2>4. PollTypeOK'
    BY <1>14, <2>1 DEF Sent, PollTypeOK, PollStep
  <2> QED BY <1>14, <2>3, <2>4, SyncFrame, HistoryFrame DEF Sent
<1>15. CASE NotifyDone
  BY <1>15, SyncFrame, ListenerFrame, HistoryFrame DEF NotifyDone, PollTypeOK, PollStep
<1> QED BY <1>1, <1>2, <1>3, <1>4, <1>5, <1>6, <1>7, <1>8, <1>9, <1>10, <1>11, <1>12,
           <1>13, <1>14, <1>15 DEF pollAndNotify, pollWorkflows

LEMMA NextType ==
  ASSUME TypeOK, [Next]_vars
  PROVE  TypeOK'
<1> USE DEF TypeOK
<1>1. CASE Cancel
  BY <1>1, ListenerFrame, PollFrame, HistoryFrame
  DEF Cancel, SyncTypeOK, apiVars, syncVars
<1>2. ASSUME NEW w \in Workflows, Publish(w) PROVE TypeOK'
  BY <1>2, ListenerFrame, PollFrame, HistoryFrame
  DEF Publish, SyncTypeOK, syncVars, endVars
<1>3. ASSUME NEW s \in Services, Register(s) PROVE TypeOK'
  BY <1>3, RegisterType
<1>4. ASSUME NEW s \in Services, Listen(s) PROVE TypeOK'
  <2>1. /\ \/ svc' = [svc EXCEPT ![s] = "ready"]
           \/ svc' = [svc EXCEPT ![s] = "gone"]
        /\ UNCHANGED <<apiVars, syncVars, states, request, left, header, pollVars,
                       endVars, historyVars>>
    BY <1>4 DEF Listen, Saved, SaveFails, Leave, ChannelClosed
  <2>2. ListenerTypeOK'
    BY <2>1 DEF ListenerTypeOK, ServiceStep
  <2> QED BY <2>1, <2>2, SyncFrame, PollFrame, HistoryFrame
<1>5. CASE pollAndNotify
  BY <1>5, PollType
<1>6. CASE Stop
  <2>1. closed' \subseteq Services
    BY <1>6, ElementOfSeq DEF Stop, CloseListeners, SyncTypeOK
  <2>2. SyncTypeOK'
    BY <1>6, <2>1 DEF Stop, SyncTypeOK, apiVars, syncVars
  <2>3. PollTypeOK'
    BY <1>6 DEF Stop, PollTypeOK, PollStep
  <2> QED BY <1>6, <2>2, <2>3, ListenerFrame, HistoryFrame DEF Stop
<1>7. CASE UNCHANGED vars
  BY <1>7, SyncFrame, ListenerFrame, PollFrame, HistoryFrame DEF vars
<1> QED BY <1>1, <1>2, <1>3, <1>4, <1>5, <1>6, <1>7 DEF Next, Environment

\* Type correctness, whatever registers and however registrations interleave with
\* the poller.
THEOREM TypeCorrect == Spec => []TypeOK
<1>1. Init => TypeOK
  BY InitType
<1>2. TypeOK /\ [Next]_vars => TypeOK'
  BY NextType
<1> QED BY <1>1, <1>2, PTL DEF Spec

-----------------------------------------------------------------------------
(* Deliveries in order.                                                    *)

LEMMA IncreasingConcat ==
  ASSUME NEW q \in Seq(Int), NEW b \in Batch, Increasing(q), b.lo < b.hi,
         q # << >> => q[Len(q)] <= b.lo
  PROVE  /\ Increasing(q \o LinksOf(b))
         /\ q \o LinksOf(b) # << >>
         /\ (q \o LinksOf(b))[Len(q \o LinksOf(b))] = b.hi
<1>1. PICK lo \in Int, n \in Nat : lo = b.lo /\ n = b.hi - b.lo /\ n > 0 /\ lo + n = b.hi
  BY DEF Batch
<1>2. PICK t : t = LinksOf(b)
  OBVIOUS
<1>3. t \in Seq(Int) /\ Len(t) = n /\ \A i \in 1 .. n : t[i] = lo + i
  BY <1>1, <1>2, LinksOfType
<1>4. PICK r : r = q \o t
  OBVIOUS
<1>5. PICK k \in Nat : k = Len(q)
  BY LenProperties
<1>6. /\ r \in Seq(Int) /\ Len(r) = k + n
      /\ \A i \in 1 .. k + n : r[i] = IF i <= k THEN q[i] ELSE t[i - k]
  BY <1>3, <1>4, <1>5, ConcatProperties
<1>7. ASSUME NEW j \in 1 .. n PROVE r[k + j] = lo + j
  <2>1. k + j \in 1 .. k + n /\ ~ (k + j <= k) /\ (k + j) - k = j
    OBVIOUS
  <2> QED BY <1>3, <1>6, <2>1
<1>8. \A i \in 1 .. k : r[i] = q[i] /\ q[i] \in Int
  BY <1>5, <1>6, ElementOfSeq
<1>9. ASSUME NEW i \in 2 .. k + n
      PROVE  r[i - 1] < r[i]
  <2>1. CASE i <= k
    <3>1. q[i - 1] < q[i]
      BY <1>5, <2>1 DEF Increasing
    <3>2. i \in 1 .. k /\ i - 1 \in 1 .. k
      BY <2>1
    <3>3. r[i] = q[i] /\ r[i - 1] = q[i - 1]
      BY <1>8, <3>2
    <3> QED BY <3>1, <3>3
  <2>2. CASE i = k + 1
    <3>1. r[i] = lo + 1
      BY <1>1, <1>7, <2>2
    <3>2. k \in 1 .. k /\ q # << >>
      BY <1>5, <2>2, EmptySeq
    <3>3. r[i - 1] = q[k] /\ q[k] <= lo /\ q[k] \in Int
      BY <1>1, <1>5, <1>8, <2>2, <3>2
    <3> QED BY <3>1, <3>3
  <2>3. CASE i > k + 1
    <3>1. PICK j \in 1 .. n : i = k + j /\ j - 1 \in 1 .. n
      <4>1. i - k \in 1 .. n /\ i = k + (i - k) /\ (i - k) - 1 \in 1 .. n
        BY <2>3
      <4> QED BY <4>1
    <3>2. r[i] = lo + j
      BY <1>7, <3>1
    <3>3. r[i - 1] = lo + (j - 1)
      <4>1. i - 1 = k + (j - 1)
        BY <3>1
      <4> QED BY <1>7, <3>1, <4>1
    <3>4. j \in Int /\ lo + (j - 1) < lo + j
      BY <3>1
    <3> QED BY <3>2, <3>3, <3>4
  <2> QED BY <2>1, <2>2, <2>3
<1>10. r # << >> /\ r[Len(r)] = b.hi
  <2>1. r[k + n] = lo + n
    BY <1>1, <1>7
  <2> QED BY <1>1, <1>6, <2>1, EmptySeq
<1>11. Increasing(r)
  BY <1>6, <1>9 DEF Increasing
<1> QED BY <1>2, <1>4, <1>10, <1>11

LEMMA InitDelivery == Init => DeliveryInv
<1> SUFFICES ASSUME Init PROVE DeliveryInv
  OBVIOUS
<1>1. pc = "idle" /\ \A s \in Services, w \in Workflows : received[s][w] = << >>
  BY DEF Init
<1>2. PageIsCurrent /\ BatchContinues
  BY <1>1 DEF PageIsCurrent, Distributing, BatchContinues
<1>3. ListenerCursorIsLastReceived /\ UnregisteredReceivedNothing
  BY <1>1 DEF ListenerCursorIsLastReceived, UnregisteredReceivedNothing
<1>4. InOrder
  BY <1>1 DEF InOrder, Increasing
<1> QED BY <1>2, <1>3, <1>4 DEF DeliveryInv

\* A step that leaves alone the poller, the cursors and what was received, and lets
\* no service return from Register that has received something.
LEMMA ServiceFrame ==
  ASSUME DeliveryInv, UNCHANGED <<cursor, states, pollVars, received>>,
         \A s \in Services :
           svc'[s] \notin {"ready", "busy", "gone"} => svc[s] \notin {"ready", "busy", "gone"}
  PROVE  DeliveryInv'
<1>1. PageIsCurrent' /\ BatchContinues' /\ ListenerCursorIsLastReceived' /\ InOrder'
  BY DEF DeliveryInv, PageIsCurrent, Distributing, BatchContinues, LastReceived, Current,
         Listener, ListenerCursorIsLastReceived, InOrder, pollVars
<1>2. UnregisteredReceivedNothing'
  BY DEF DeliveryInv, UnregisteredReceivedNothing
<1> QED BY <1>1, <1>2 DEF DeliveryInv

\* A step of the poller that starts and ends outside of a send.
LEMMA PollerFrame ==
  ASSUME DeliveryInv, pc \notin {"send", "sent"}, pc' \notin {"send", "sent"},
         UNCHANGED <<states, svc, received>>, PageIsCurrent'
  PROVE  DeliveryInv'
<1>1. BatchContinues'
  BY DEF BatchContinues
<1>2. ListenerCursorIsLastReceived' /\ UnregisteredReceivedNothing' /\ InOrder'
  BY DEF DeliveryInv, ListenerCursorIsLastReceived, LastReceived,
         UnregisteredReceivedNothing, InOrder
<1> QED BY <1>1, <1>2 DEF DeliveryInv

LEMMA RegisterDelivery ==
  ASSUME TypeOK, NoCursorRace, DeliveryInv, NEW s \in Services, Register(s)
  PROVE  DeliveryInv'
<1>0. svc \in [Services -> ServiceStep]
  BY DEF TypeOK, ListenerTypeOK
<1>1. CASE StartRegister(s)
  BY <1>0, <1>1, ServiceFrame DEF StartRegister, syncVars, historyVars
<1>2. CASE RegisterSynced(s)
  BY <1>0, <1>2, ServiceFrame DEF RegisterSynced, syncVars, historyVars
<1>3. CASE LowerCursor(s) \/ AppendWorkflow(s)
  <2>1. svc[s] \in {"lower", "append"} /\ svc' = [svc EXCEPT ![s] = "loop"]
        /\ UNCHANGED <<states, pollVars, received>>
    BY <1>3 DEF LowerCursor, AppendWorkflow, historyVars
  <2>2. ~ Distributing
    BY <2>1 DEF NoCursorRace
  <2>3. ~ Distributing' /\ PageIsCurrent'
    BY <2>1, <2>2 DEF Distributing, pollVars, PageIsCurrent
  <2>4. BatchContinues'
    BY <2>3 DEF BatchContinues, Distributing
  <2>5. ListenerCursorIsLastReceived' /\ InOrder'
    BY <2>1 DEF DeliveryInv, ListenerCursorIsLastReceived, LastReceived, InOrder, Current,
                Listener, pollVars
  <2>6. UnregisteredReceivedNothing'
    BY <1>0, <2>1 DEF DeliveryInv, UnregisteredReceivedNothing
  <2> QED BY <2>3, <2>4, <2>5, <2>6 DEF DeliveryInv
<1>4. CASE RegisterNew(s)
  BY <1>0, <1>4, ServiceFrame DEF RegisterNew, syncVars, historyVars
<1>5. CASE BuildListener(s)
  <2>1. /\ svc[s] = "loop" /\ svc' = [svc EXCEPT ![s] = "add"]
        /\ \A t \in Services \ {s} : states'[t] = states[t]
        /\ UNCHANGED <<cursor, pollVars, received>>
    BY <1>5 DEF BuildListener, ListenerTypeOK, TypeOK, syncVars, historyVars
  <2>2. PageIsCurrent' /\ BatchContinues' /\ InOrder'
    BY <2>1 DEF DeliveryInv, PageIsCurrent, Distributing, BatchContinues, LastReceived,
                Current, Listener, InOrder, pollVars
  <2>3. \A w \in Workflows : received[s][w] = << >>
    BY <2>1 DEF DeliveryInv, UnregisteredReceivedNothing
  <2>4. ListenerCursorIsLastReceived'
    BY <2>1, <2>3 DEF DeliveryInv, ListenerCursorIsLastReceived, LastReceived, Current,
                      Listener, pollVars
  <2>5. UnregisteredReceivedNothing'
    BY <1>0, <2>1 DEF DeliveryInv, UnregisteredReceivedNothing
  <2> QED BY <2>2, <2>4, <2>5 DEF DeliveryInv
<1>6. CASE AddListener(s)
  BY <1>0, <1>6, ServiceFrame DEF AddListener, syncVars, historyVars
<1> QED BY <1>1, <1>2, <1>3, <1>4, <1>5, <1>6 DEF Register, RegisterStep

LEMMA PollDelivery ==
  ASSUME TypeOK, DeliveryInv, pollAndNotify \/ Stop
  PROVE  DeliveryInv'
<1>1. CASE Tick \/ NextWorkflow \/ PollDone \/ CallAPI \/ PagesDone
           \/ APIFails \/ APINull \/ APIBadHash \/ Stop \/ NotifyDone
  <2>1. /\ pc \in {"idle", "next", "page", "call", "notify"}
        /\ pc' \in {"idle", "next", "page", "call", "stopped"}
        /\ UNCHANGED <<states, svc, received>>
    BY <1>1 DEF Tick, NextWorkflow, PollDone, CallAPI, PagesDone, APIFails, APINull,
                APIBadHash, Stop, NotifyDone, listenerVars, historyVars
  <2>2. PageIsCurrent'
    BY <2>1 DEF PageIsCurrent, Distributing
  <2> QED BY <2>1, <2>2, PollerFrame
<1>2. CASE APIPage
  <2>1. Current \in Pointer /\ Current.ID \in Workflows
    BY <1>2, CurrentType DEF APIPage, PollTypeOK, TypeOK
  <2>2. links[Current.ID] \in Nat
    BY <2>1 DEF SyncTypeOK, TypeOK
  <2>3. after \in Nat
    BY <1>2 DEF APIPage, PollTypeOK, Cursor, TypeOK
  <2>4. PageIsCurrent'
    <3> SUFFICES ASSUME Distributing' PROVE PageIsCurrent'
      BY DEF PageIsCurrent
    <3> DEFINE n  == links[Current.ID]
               hi == IF after < n THEN LesserOf(after + Pagination, n) ELSE after
    <3>1. /\ page' = [lo |-> after, hi |-> hi, more |-> hi < n]
          /\ hi > after
          /\ cursor' = [cursor EXCEPT ![Current] = hi]
          /\ todo' = todo
      BY <1>2 DEF APIPage, Distributing
    <3> HIDE DEF hi
    <3>2. cursor'[Current'] = hi
      BY <2>1, <3>1 DEF SyncTypeOK, TypeOK, Current
    <3>3. page'.lo = after /\ page'.hi = hi
      BY <3>1
    <3>4. hi \in Nat
      BY <2>2, <2>3 DEF LesserOf, hi
    <3> QED BY <2>3, <3>1, <3>2, <3>3, <3>4 DEF PageIsCurrent
  <2>5. pc = "call" /\ pc' \in {"fetched", "page"} /\ UNCHANGED <<states, svc, received>>
    BY <1>2 DEF APIPage, listenerVars, historyVars
  <2> QED BY <2>4, <2>5, PollerFrame
<1>3. CASE StartNotify \/ SkipListener
  <2>1. /\ pc \in {"fetched", "notify"} /\ pc' = "notify"
        /\ UNCHANGED <<states, svc, received, page, cursor, todo>>
    BY <1>3 DEF StartNotify, SkipListener, listenerVars, historyVars, syncVars
  <2>2. PageIsCurrent'
    BY <2>1 DEF DeliveryInv, PageIsCurrent, Distributing, Current
  <2> QED BY <2>1, <2>2, PollerFrame
<1>4. CASE SliceForListener
  <2>1. Listener \in Services /\ Current.ID \in Workflows
    BY <1>4, CurrentType, CurrentListenerType DEF SliceForListener, PollTypeOK, TypeOK
  <2> DEFINE c == states[Listener][Current.ID]
  <2>2. c \in Int /\ page \in Page
    BY <2>1 DEF TypeOK, ListenerTypeOK, PollTypeOK, Cursor, None
  <2>3. page.lo \in Nat /\ page.lo < page.hi /\ cursor[Current] = page.hi /\ page.hi \in Int
    BY <1>4, <2>2 DEF SliceForListener, DeliveryInv, PageIsCurrent, Distributing, Page
  <2>4. c < page.hi
    <3>1. c # None /\ CompareCursors(page.hi, c) > 0
      BY <1>4, <2>3 DEF SliceForListener, IsBehind
    <3> HIDE DEF c
    <3> QED BY <2>2, <2>3, <3>1 DEF CompareCursors, Index
  <2>5. batch' = Slice(page, c) /\ pc' = "send" /\ pc = "notify"
        /\ UNCHANGED <<states, svc, received, page, cursor, todo, toNotify>>
    BY <1>4 DEF SliceForListener, listenerVars, historyVars, syncVars
  <2>6. batch'.hi = page.hi /\ batch'.lo < page.hi /\ c <= batch'.lo
    <3> HIDE DEF c
    <3> QED BY <2>2, <2>3, <2>4, <2>5 DEF Slice
  <2>7. received[Listener][Current.ID] # << >> => LastReceived(Listener, Current.ID) = c
    BY <2>1, <2>5 DEF DeliveryInv, ListenerCursorIsLastReceived
  <2>8. BatchContinues'
    BY <2>5, <2>6, <2>7 DEF BatchContinues, LastReceived, Listener, Current
  <2>9. PageIsCurrent'
    BY <2>5 DEF DeliveryInv, PageIsCurrent, Distributing, Current
  <2>10. ListenerCursorIsLastReceived' /\ UnregisteredReceivedNothing' /\ InOrder'
    BY <2>5 DEF DeliveryInv, ListenerCursorIsLastReceived, LastReceived,
                UnregisteredReceivedNothing, InOrder
  <2> QED BY <2>8, <2>9, <2>10 DEF DeliveryInv
<1>5. CASE Deliver
  <2>1. Listener \in Services /\ Current.ID \in Workflows
    BY <1>5, CurrentType, CurrentListenerType DEF Deliver, PollTypeOK, TypeOK
  <2> DEFINE q == received[Listener][Current.ID]
  <2>2. q \in Seq(Int) /\ batch \in Batch
    BY <2>1 DEF TypeOK, HistoryTypeOK, PollTypeOK
  <2>3. /\ pc = "send" /\ pc' = "sent"
        /\ received' = [received EXCEPT ![Listener][Current.ID] = q \o LinksOf(batch)]
        /\ svc' = [svc EXCEPT ![Listener] = "busy"]
        /\ UNCHANGED <<states, page, cursor, todo, toNotify>>
    BY <1>5 DEF Deliver, syncVars
  <2>4. batch.lo < batch.hi /\ batch.hi = page.hi
        /\ (q # << >> => q[Len(q)] <= batch.lo)
    BY <2>3 DEF DeliveryInv, BatchContinues, LastReceived
  <2>5. Increasing(q)
    BY <2>1 DEF DeliveryInv, InOrder
  <2>6. PICK r : /\ r = q \o LinksOf(batch)
                 /\ Increasing(r) /\ r # << >> /\ r[Len(r)] = batch.hi
    <3> HIDE DEF q
    <3> QED BY <2>2, <2>4, <2>5, IncreasingConcat
  <2>7. /\ received'[Listener][Current.ID] = r
        /\ \A s \in Services, w \in Workflows :
             <<s, w>> # <<Listener, Current.ID>> => received'[s][w] = received[s][w]
    <3> HIDE DEF q
    <3> QED BY <2>1, <2>3, <2>6 DEF TypeOK, HistoryTypeOK
  <2>8. InOrder'
    BY <2>6, <2>7 DEF DeliveryInv, InOrder
  <2>9. PageIsCurrent'
    BY <2>3 DEF DeliveryInv, PageIsCurrent, Distributing, Current
  <2>10. BatchContinues'
    <3> HIDE DEF q
    <3> QED BY <2>3, <2>4, <2>6, <2>7 DEF BatchContinues, LastReceived, Listener, Current
  <2>11. ListenerCursorIsLastReceived'
    <3> SUFFICES ASSUME NEW s \in Services, NEW w \in Workflows,
                        received'[s][w] # << >>, <<s, w>> # <<Listener, Current.ID>>
                 PROVE  states'[s][w] = LastReceived(s, w)'
      BY <2>3 DEF ListenerCursorIsLastReceived, Listener, Current
    <3>1. received'[s][w] = received[s][w]
      BY <2>7
    <3>2. states[s][w] = LastReceived(s, w)
      BY <2>3, <3>1 DEF DeliveryInv, ListenerCursorIsLastReceived
    <3> QED BY <2>3, <3>1, <3>2 DEF LastReceived
  <2>12. UnregisteredReceivedNothing'
    <3>1. svc \in [Services -> ServiceStep]
      BY DEF TypeOK, ListenerTypeOK
    <3> QED BY <2>1, <2>3, <2>7, <3>1 DEF DeliveryInv, UnregisteredReceivedNothing
  <2> QED BY <2>8, <2>9, <2>10, <2>11, <2>12 DEF DeliveryInv
<1>6. CASE Sent
  <2>1. Listener \in Services /\ Current.ID \in Workflows
    BY <1>6, CurrentType, CurrentListenerType DEF Sent, PollTypeOK, TypeOK
  <2>2. /\ pc = "sent" /\ pc' = "notify"
        /\ states' = [states EXCEPT ![Listener][Current.ID] = cursor[Current]]
        /\ UNCHANGED <<svc, received, page, cursor, todo>>
    BY <1>6 DEF Sent, syncVars, historyVars
  <2>3. cursor[Current] = LastReceived(Listener, Current.ID)
    BY <2>2 DEF DeliveryInv, BatchContinues, PageIsCurrent, Distributing
  <2>4. /\ states'[Listener][Current.ID] = LastReceived(Listener, Current.ID)
        /\ \A s \in Services, w \in Workflows :
             <<s, w>> # <<Listener, Current.ID>> => states'[s][w] = states[s][w]
    BY <2>1, <2>2, <2>3 DEF TypeOK, ListenerTypeOK
  <2>5. ListenerCursorIsLastReceived'
    BY <2>2, <2>4 DEF DeliveryInv, ListenerCursorIsLastReceived, LastReceived
  <2>6. PageIsCurrent' /\ BatchContinues'
    BY <2>2 DEF DeliveryInv, PageIsCurrent, Distributing, BatchContinues, Current
  <2>7. UnregisteredReceivedNothing' /\ InOrder'
    BY <2>2 DEF DeliveryInv, UnregisteredReceivedNothing, InOrder
  <2> QED BY <2>5, <2>6, <2>7 DEF DeliveryInv
<1> QED BY <1>1, <1>2, <1>3, <1>4, <1>5, <1>6 DEF pollAndNotify, pollWorkflows

LEMMA NextDelivery ==
  ASSUME TypeOK, NoCursorRace, DeliveryInv, [Next]_vars
  PROVE  DeliveryInv'
<1>1. CASE Environment
  BY <1>1, ServiceFrame
  DEF Environment, Cancel, Publish, syncVars, listenerVars, historyVars
<1>2. ASSUME NEW s \in Services, Register(s) PROVE DeliveryInv'
  BY <1>2, RegisterDelivery
<1>3. ASSUME NEW s \in Services, Listen(s) PROVE DeliveryInv'
  <2>1. svc \in [Services -> ServiceStep]
    BY DEF TypeOK, ListenerTypeOK
  <2> QED BY <1>3, <2>1, ServiceFrame
          DEF Listen, Saved, SaveFails, Leave, ChannelClosed, syncVars, historyVars
<1>4. CASE pollAndNotify \/ Stop
  BY <1>4, PollDelivery
<1>5. CASE UNCHANGED vars
  BY <1>5, ServiceFrame DEF vars, syncVars, listenerVars, historyVars
<1> QED BY <1>1, <1>2, <1>3, <1>4, <1>5 DEF Next

\* As long as no registration writes a livesync cursor while a page is distributed,
\* every listener receives the links of a workflow in order and each at most once.
THEOREM DeliveryInOrder == Spec /\ []NoCursorRace => []InOrder
<1>1. Init => DeliveryInv
  BY InitDelivery
<1>2. TypeOK /\ NoCursorRace /\ DeliveryInv /\ [Next]_vars => DeliveryInv'
  BY NextDelivery
<1>3. DeliveryInv => InOrder
  BY DEF DeliveryInv
<1> QED BY <1>1, <1>2, <1>3, TypeCorrect, PTL DEF Spec

\* What QuietSpec is about: registrations that wait for the poller and for each other.
Quiet ==
  /\ (\E s \in Services : Registering(s)) => pc \in {"idle", "stopped"}
  /\ \A s, t \in Services : Registering(s) /\ Registering(t) => s = t

LEMMA QuietAlone == QuietSpec => Spec /\ []Quiet
<1>1. Init => Quiet
  BY DEF Init, Quiet, Registering
<1>2. QuietSpec => Spec
  <2>1. [QuietNext]_vars => [Next]_vars
    BY DEF QuietNext, QuietStart, QuietTick, Next, Register, pollAndNotify
  <2> QED BY <2>1, PTL DEF QuietSpec, Spec
<1>3. TypeOK /\ Quiet /\ [QuietNext]_vars => Quiet'
  <2> SUFFICES ASSUME TypeOK, Quiet, [QuietNext]_vars PROVE Quiet'
    OBVIOUS
  <2> USE DEF Quiet
  <2>0. svc \in [Services -> ServiceStep]
    BY DEF TypeOK, ListenerTypeOK
  <2>1. ASSUME UNCHANGED <<svc, pc>> PROVE Quiet'
    BY <2>1 DEF Registering
  <2>2. CASE Environment \/ UNCHANGED vars
    BY <2>1, <2>2 DEF Environment, Cancel, Publish, vars, listenerVars, pollVars
  <2>3. ASSUME NEW s \in Services, QuietStart(s) PROVE Quiet'
    BY <2>0, <2>3 DEF QuietStart, StartRegister, Registering, pollVars
  <2>4. ASSUME NEW s \in Services, RegisterStep(s) \/ Listen(s) PROVE Quiet'
    <3>1. /\ pc' = pc
          /\ \E step \in ServiceStep : svc' = [svc EXCEPT ![s] = step]
          /\ Registering(s)' => Registering(s)
      BY <2>0, <2>4
      DEF RegisterStep, RegisterSynced, LowerCursor, RegisterNew, AppendWorkflow,
          BuildListener, AddListener, Listen, Saved, SaveFails, Leave, ChannelClosed,
          ServiceStep, Registering, pollVars
    <3> QED BY <2>0, <3>1 DEF Registering
  <2>5. CASE QuietTick
    BY <2>5 DEF QuietTick, Tick, listenerVars, Registering
  <2>6. CASE pollWorkflows /\ ~ Deliver
    <3>1. pc \notin {"idle", "stopped"} /\ svc' = svc
      BY <2>6
      DEF pollWorkflows, NextWorkflow, PollDone, CallAPI, PagesDone, APIPage, APIFails,
          APINull, APIBadHash, StartNotify, SkipListener, SliceForListener, Sent,
          NotifyDone, listenerVars
    <3> QED BY <3>1 DEF Registering
  <2>7. CASE Deliver
    BY <2>0, <2>7 DEF Deliver, Registering
  <2>8. CASE Stop
    BY <2>8 DEF Stop, listenerVars, Registering
  <2> QED BY <2>2, <2>3, <2>4, <2>5, <2>6, <2>7, <2>8 DEF QuietNext
<1> QED BY <1>1, <1>2, <1>3, TypeCorrect, PTL DEF QuietSpec

\* Registrations that wait for the poller to be idle, whatever they ask for.
THEOREM QuietDeliveryInOrder == QuietSpec => []InOrder
<1>1. Quiet => NoCursorRace
  BY DEF Quiet, NoCursorRace, Registering, Distributing
<1> QED BY <1>1, QuietAlone, DeliveryInOrder, PTL

\* The services of this repository pass nil: whatever the interleaving of their
\* registrations with each other and with the poller, a page on its way is current,
\* and a listener's cursor is the last link it received.
THEOREM NilDelivery ==
  ASSUME Requests = {NilRequest}
  PROVE  Spec => []DeliveryInv
<1> DEFINE NilInv == \A s \in Services : left[s] = << >> /\ svc[s] \notin {"lower", "append"}
<1>1. Init => NilInv
  BY DEF Init
<1>2. TypeOK /\ NilInv /\ [Next]_vars => NilInv'
  <2> SUFFICES ASSUME TypeOK, NilInv, [Next]_vars PROVE NilInv'
    OBVIOUS
  <2>0. svc \in [Services -> ServiceStep] /\ left \in [Services -> Seq(Entry)]
    BY DEF TypeOK, ListenerTypeOK
  <2>1. ASSUME UNCHANGED listenerVars PROVE NilInv'
    BY <2>1 DEF listenerVars
  <2>2. ASSUME NEW s \in Services, Register(s) PROVE NilInv'
    BY <2>0, <2>2 DEF Register, RegisterStep, StartRegister, RegisterSynced, LowerCursor, RegisterNew,
         AppendWorkflow, BuildListener, AddListener, NilRequest
  <2>3. ASSUME NEW s \in Services, Listen(s) PROVE NilInv'
    BY <2>0, <2>3 DEF Listen, Saved, SaveFails, Leave, ChannelClosed
  <2>4. CASE Deliver
    BY <2>0, <2>4 DEF Deliver
  <2>5. CASE Sent
    BY <2>5 DEF Sent
  <2>6. CASE pollAndNotify /\ ~ Deliver /\ ~ Sent
    BY <2>1, <2>6 DEF pollAndNotify, pollWorkflows, Tick, NextWorkflow, PollDone, CallAPI, PagesDone,
         APIPage, APIFails, APINull, APIBadHash, StartNotify, SkipListener,
         SliceForListener, NotifyDone
  <2>7. CASE Environment \/ Stop \/ UNCHANGED vars
    BY <2>1, <2>7 DEF Environment, Cancel, Publish, Stop, vars
  <2> QED BY <2>2, <2>3, <2>4, <2>5, <2>6, <2>7 DEF Next
<1>3. NilInv => NoCursorRace
  BY DEF NoCursorRace
<1>4. Init => DeliveryInv
  BY InitDelivery
<1>5. TypeOK /\ NoCursorRace /\ DeliveryInv /\ [Next]_vars => DeliveryInv'
  BY NextDelivery
<1> HIDE DEF NilInv
<1> QED BY <1>1, <1>2, <1>3, <1>4, <1>5, TypeCorrect, PTL DEF Spec

\* So they receive the links of a workflow in order and each at most once.
THEOREM NilDeliveryInOrder ==
  ASSUME Requests = {NilRequest}
  PROVE  Spec => []InOrder
<1>1. DeliveryInv => InOrder
  BY DEF DeliveryInv
<1> QED BY <1>1, NilDelivery, PTL
=============================================================================
