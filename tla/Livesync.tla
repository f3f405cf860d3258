------------------------------ MODULE Livesync ------------------------------
(***************************************************************************)
(* The livesync service: services/livesync/livesync.go, query.go and the   *)
(* run loop of service.go, with the goroutines of the services that        *)
(* register (parser.run, bleveparser.run) and the Trace API behind the     *)
(* Stratumn client.                                                        *)
(*                                                                         *)
(* Three kinds of processes run at once.  The poller owns the ticker and   *)
(* executes pollAndNotify; nothing protects the synchronizer's two slices  *)
(* from the registering goroutines, which call Register whenever they      *)
(* start.  Channels are unbuffered: a send waits until its listener is     *)
(* back in its select.  The API answers with the links it holds when it    *)
(* answers, not when it was asked.                                         *)
(*                                                                         *)
(* A link is its position in the history of its workflow, and the relay    *)
(* cursor of a position is that position (module Cursors).  A batch of     *)
(* segments is the interval lo+1 .. hi of positions.                       *)
(***************************************************************************)
EXTENDS Cursors

CONSTANTS
  Workflows,    \* workflow IDs
  Watched,      \* the sequence of IDs in the livesync configuration
  Unknown,      \* the workflows the API answers null for
  Services,     \* the goroutines that register as listeners
  Requests,     \* what they may pass to Register
  Config,       \* owner of the states built from the configuration
  Pagination,   \* DefaultPagination, the size of a page
  MaxLinks      \* bound: links created in a workflow

ASSUME WatchedAssumption ==
  /\ Watched \in Seq(Workflows)
  /\ \A i, j \in 1 .. Len(Watched) : i # j => Watched[i] # Watched[j]
ASSUME UnknownAssumption == Unknown \subseteq Workflows
ASSUME ConfigAssumption == Config \notin Services
ASSUME BoundsAssumption == Pagination \in Nat \ {0} /\ MaxLinks \in Nat

\* An argument of Register: nil, or a list of workflow states.
Entry   == [ID : Workflows, Cursor : Cursor]
Request == [isNil : BOOLEAN, states : Seq(Entry)]
ASSUME RequestsAssumption ==
  /\ Requests \subseteq Request
  /\ \A r \in Requests : r.isNil => r.states = << >>

NilRequest == [isNil |-> TRUE, states |-> << >>]

\* No entry for a workflow in a listener's states.
None == -3

\* A *WorkflowState of the synchronizer: one from the configuration, or one that
\* Register appended for a service.
Pointer == [owner : Services \cup {Config}, ID : Workflows]

Batch == [lo : Int, hi : Int]
Page  == [lo : Int, hi : Int, more : BOOLEAN]
\* What a registration asks for: the first link received follows a position
\* between from and upTo (None: no promise).
Promise   == [from : Cursor \cup {None}, upTo : Cursor \cup {None}]
NoPromise == [from |-> None, upTo |-> None]

VARIABLES
  links,               \* API: how many links each workflow has
  workflowStates,      \* synchronizer.workflowStates, a slice of pointers
  cursor,              \* WorkflowState.Cursor of each pointer
  registeredServices,  \* synchronizer.registeredServices
  states,              \* listener.states: the cursor of each workflow, or None
  svc,                 \* where the goroutine of each service is
  request,             \* the argument of its Register
  left,                \* the entries of it that Register has yet to visit
  header,              \* the slice (or pointer) it has read to write later
  pc,                  \* where the poller is
  todo,                \* the pointers its outer loop has yet to visit
  after,               \* variables["cursor"]
  page,                \* rsp: the last page and its HasNextPage
  toNotify,            \* the listeners its inner loop has yet to visit
  batch,               \* the value it is sending
  closed,              \* the listeners whose channel is closed
  ctxDone,             \* livesync's context is cancelled
  received,            \* history: the links each listener received
  promised             \* history: what each registration promised

apiVars      == <<links>>
syncVars     == <<workflowStates, cursor, registeredServices>>
listenerVars == <<states, svc, request, left, header>>
pollVars     == <<pc, todo, after, page, toNotify, batch>>
endVars      == <<closed, ctxDone>>
historyVars  == <<received, promised>>
vars == <<apiVars, syncVars, listenerVars, pollVars, endVars, historyVars>>

ServiceStep == {"new", "loop", "lower", "append", "add", "ready", "busy", "gone", "failed"}
PollStep    == {"idle", "next", "page", "call", "fetched", "notify", "send",
                "sent", "stopped"}

-----------------------------------------------------------------------------
(* Helpers.                                                                *)

LesserOf(m, n) == IF m < n THEN m ELSE n

\* WorkflowStates.Get on the synchronizer's slice: the first pointer with the ID.
Has(w) == \E i \in 1 .. Len(workflowStates) : workflowStates[i].ID = w
Get(w) ==
  workflowStates[CHOOSE i \in 1 .. Len(workflowStates) :
                   /\ workflowStates[i].ID = w
                   /\ \A j \in 1 .. i - 1 : workflowStates[j].ID # w]

\* WorkflowStates.Get on the list passed to Register.
StatesOf(list) ==
  [w \in Workflows |->
     IF \E i \in 1 .. Len(list) : list[i].ID = w
       THEN list[CHOOSE i \in 1 .. Len(list) :
                   /\ list[i].ID = w
                   /\ \A j \in 1 .. i - 1 : list[j].ID # w].Cursor
       ELSE None]

\* What Register(nil) subscribes to: the workflows known now, from the start.
AllStates == [w \in Workflows |-> IF Has(w) THEN 0 ELSE None]

\* Mutant: the whole page, whatever the listener's cursor.
Slice_WholePage(p, c) == [lo |-> p.lo, hi |-> p.hi]

\* linkEdges.Slice: the links of the page after the listener's cursor if that is
\* the cursor of one of them, the whole page otherwise.
Slice(p, c) == [lo |-> IF c \in p.lo + 1 .. p.hi THEN c ELSE p.lo, hi |-> p.hi]

Current  == Head(todo)       \* the workflow state w of the outer loop
Listener == Head(toNotify)   \* the service of the inner loop

\* The links of a batch.
LinksOf(b) == [i \in 1 .. b.hi - b.lo |-> b.lo + i]

\* The last link a listener received of a workflow.
LastReceived(s, w) ==
  IF received[s][w] = << >> THEN 0 ELSE received[s][w][Len(received[s][w])]

-----------------------------------------------------------------------------
Init ==
  /\ links = [w \in Workflows |-> 0]
  /\ workflowStates = [i \in 1 .. Len(Watched) |-> [owner |-> Config, ID |-> Watched[i]]]
  /\ cursor = [p \in Pointer |-> 0]
  /\ registeredServices = << >>
  /\ states = [s \in Services |-> [w \in Workflows |-> None]]
  /\ svc = [s \in Services |-> "new"]
  /\ request = [s \in Services |-> NilRequest]
  /\ left = [s \in Services |-> << >>]
  /\ header = [s \in Services |-> << >>]
  /\ pc = "idle"
  /\ todo = << >>
  /\ after = 0
  /\ page = [lo |-> 0, hi |-> 0, more |-> FALSE]
  /\ toNotify = << >>
  /\ batch = [lo |-> 0, hi |-> 0]
  /\ closed = {}
  /\ ctxDone = FALSE
  /\ received = [s \in Services |-> [w \in Workflows |-> << >>]]
  /\ promised = [s \in Services |-> [w \in Workflows |-> NoPromise]]

-----------------------------------------------------------------------------
(* The environment: links are created, livesync's context is cancelled.    *)

Publish(w) ==
  /\ w \notin Unknown
  /\ links[w] < MaxLinks
  /\ links' = [links EXCEPT ![w] = @ + 1]
  /\ UNCHANGED <<syncVars, listenerVars, pollVars, endVars, historyVars>>

Cancel ==
  /\ ~ ctxDone
  /\ ctxDone' = TRUE
  /\ UNCHANGED <<apiVars, syncVars, listenerVars, pollVars, closed, historyVars>>

-----------------------------------------------------------------------------
(* The goroutine of a service: Register, then its receive loop.            *)

StartRegister(s) ==
  /\ svc[s] = "new"
  /\ \E r \in Requests :
       /\ request' = [request EXCEPT ![s] = r]
       /\ left' = [left EXCEPT ![s] = r.states]
  /\ svc' = [svc EXCEPT ![s] = "loop"]
  /\ UNCHANGED <<apiVars, syncVars, states, header, pollVars, endVars, historyVars>>

\* A workflow that is synced already: compare the requested cursor with its own.
RegisterSynced(s) ==
  /\ svc[s] = "loop"
  /\ left[s] # << >>
  /\ Has(Head(left[s]).ID)
  /\ LET c == Head(left[s]).Cursor
         p == Get(Head(left[s]).ID)
     IN  \/ /\ StringLess(c, cursor[p]) /\ ~ Comparable(c, cursor[p])
            /\ svc' = [svc EXCEPT ![s] = "failed"]
            /\ UNCHANGED <<left, header>>
         \/ /\ Lowers(c, cursor[p])
            /\ svc' = [svc EXCEPT ![s] = "lower"]
            /\ header' = [header EXCEPT ![s] = <<p>>]
            /\ UNCHANGED left
         \/ /\ ~ (StringLess(c, cursor[p]) /\ ~ Comparable(c, cursor[p]))
            /\ ~ Lowers(c, cursor[p])
            /\ left' = [left EXCEPT ![s] = Tail(@)]
            /\ UNCHANGED <<svc, header>>
  /\ UNCHANGED <<apiVars, syncVars, states, request, pollVars, endVars, historyVars>>

\* The registration is in the past: the cursor is moved back to it.
LowerCursor(s) ==
  /\ svc[s] = "lower"
  /\ cursor' = [cursor EXCEPT ![Head(header[s])] = Head(left[s]).Cursor]
  /\ left' = [left EXCEPT ![s] = Tail(@)]
  /\ header' = [header EXCEPT ![s] = << >>]
  /\ svc' = [svc EXCEPT ![s] = "loop"]
  /\ UNCHANGED <<apiVars, workflowStates, registeredServices, states, request,
                 pollVars, endVars, historyVars>>

\* A workflow that is not: append reads the slice, and stores it in a later step.
RegisterNew(s) ==
  /\ svc[s] = "loop"
  /\ left[s] # << >>
  /\ ~ Has(Head(left[s]).ID)
  /\ header' = [header EXCEPT ![s] = workflowStates]
  /\ svc' = [svc EXCEPT ![s] = "append"]
  /\ UNCHANGED <<apiVars, syncVars, states, request, left, pollVars, endVars, historyVars>>

\* Nothing orders two appends: the slice stored extends the one that was read, or,
\* when both share a backing array, what has been written to it since.
AppendWorkflow(s) ==
  /\ svc[s] = "append"
  /\ LET p == [owner |-> s, ID |-> Head(left[s]).ID]
     IN  /\ \E base \in {header[s], workflowStates} : workflowStates' = Append(base, p)
         /\ cursor' = [cursor EXCEPT ![p] = Head(left[s]).Cursor]
  /\ left' = [left EXCEPT ![s] = Tail(@)]
  /\ header' = [header EXCEPT ![s] = << >>]
  /\ svc' = [svc EXCEPT ![s] = "loop"]
  /\ UNCHANGED <<apiVars, registeredServices, states, request, pollVars, endVars, historyVars>>

\* The listener is built, and its append to registeredServices reads the slice.
BuildListener(s) ==
  /\ svc[s] = "loop"
  /\ left[s] = << >>
  /\ states' = [states EXCEPT ![s] = IF request[s].isNil THEN AllStates
                                     ELSE StatesOf(request[s].states)]
  /\ header' = [header EXCEPT ![s] = registeredServices]
  /\ svc' = [svc EXCEPT ![s] = "add"]
  /\ UNCHANGED <<apiVars, syncVars, request, left, pollVars, endVars, historyVars>>

\* What the registration promises for a workflow.  A requested cursor is the
\* position the feed starts after; a nil registration gets the updates to come,
\* those after livesync's own cursor.
PromiseOf(s, w) ==
  LET now == IF Has(w) /\ cursor[Get(w)] \in Nat THEN cursor[Get(w)] ELSE 0
  IN  IF states[s][w] \notin Nat THEN NoPromise
      ELSE IF request[s].isNil THEN [from |-> 0, upTo |-> now]
      ELSE [from |-> states[s][w], upTo |-> states[s][w]]

\* The append is stored, as in AppendWorkflow, and Register returns the channel.
AddListener(s) ==
  /\ svc[s] = "add"
  /\ \E base \in {header[s], registeredServices} : registeredServices' = Append(base, s)
  /\ header' = [header EXCEPT ![s] = << >>]
  /\ svc' = [svc EXCEPT ![s] = "ready"]
  /\ promised' = [promised EXCEPT ![s] = [w \in Workflows |-> PromiseOf(s, w)]]
  /\ UNCHANGED <<apiVars, workflowStates, cursor, states, request, left, pollVars,
                 endVars, received>>

\* The batch is saved and the goroutine is back in its select ...
Saved(s) ==
  /\ svc[s] = "busy"
  /\ svc' = [svc EXCEPT ![s] = "ready"]
  /\ UNCHANGED <<apiVars, syncVars, states, request, left, header, pollVars,
                 endVars, historyVars>>

\* ... or the store returns an error, which ends the service.
SaveFails(s) ==
  /\ svc[s] = "busy"
  /\ svc' = [svc EXCEPT ![s] = "gone"]
  /\ UNCHANGED <<apiVars, syncVars, states, request, left, header, pollVars,
                 endVars, historyVars>>

\* The select sees the service's own context cancelled.  Nothing unregisters it.
Leave(s) ==
  /\ svc[s] = "ready"
  /\ svc' = [svc EXCEPT ![s] = "gone"]
  /\ UNCHANGED <<apiVars, syncVars, states, request, left, header, pollVars,
                 endVars, historyVars>>

\* The select sees the channel closed.
ChannelClosed(s) ==
  /\ svc[s] = "ready"
  /\ s \in closed
  /\ svc' = [svc EXCEPT ![s] = "gone"]
  /\ UNCHANGED <<apiVars, syncVars, states, request, left, header, pollVars,
                 endVars, historyVars>>

-----------------------------------------------------------------------------
(* The poller: the run loop and pollAndNotify.                             *)

\* Mutant: all but the one that registered last.
CloseListeners_ButLast ==
  closed' = {registeredServices[i] : i \in 1 .. Len(registeredServices) - 1}

CloseListeners == closed' = {registeredServices[i] : i \in 1 .. Len(registeredServices)}

\* The ticker fires; range reads the slice of workflow states once.
Tick ==
  /\ pc = "idle"
  /\ todo' = workflowStates
  /\ pc' = "next"
  /\ UNCHANGED <<apiVars, syncVars, listenerVars, after, page, toNotify, batch,
                 endVars, historyVars>>

\* The context is done: select may take this branch even when the ticker fired.
Stop ==
  /\ pc = "idle"
  /\ ctxDone
  /\ CloseListeners
  /\ pc' = "stopped"
  /\ UNCHANGED <<apiVars, syncVars, listenerVars, todo, after, page, toNotify, batch,
                 ctxDone, historyVars>>

\* The next workflow: fresh variables, and a fresh rsp with HasNextPage set.
NextWorkflow ==
  /\ pc = "next"
  /\ todo # << >>
  /\ after' = 0
  /\ page' = [lo |-> 0, hi |-> 0, more |-> TRUE]
  /\ pc' = "page"
  /\ UNCHANGED <<apiVars, syncVars, listenerVars, todo, toNotify, batch, endVars,
                 historyVars>>

PollDone ==
  /\ pc = "next"
  /\ todo = << >>
  /\ pc' = "idle"
  /\ UNCHANGED <<apiVars, syncVars, listenerVars, todo, after, page, toNotify, batch,
                 endVars, historyVars>>

\* Mutant: the loop does not look at HasNextPage.
CallAPI_IgnoresHasNextPage ==
  /\ pc = "page"
  /\ after' = IF cursor[Current] # 0 THEN cursor[Current] ELSE after
  /\ pc' = "call"
  /\ UNCHANGED <<apiVars, syncVars, listenerVars, todo, page, toNotify, batch, endVars,
                 historyVars>>

\* The next page: variables["cursor"] is set, never removed.
CallAPI ==
  /\ pc = "page"
  /\ page.more
  /\ after' = IF cursor[Current] # 0 THEN cursor[Current] ELSE after
  /\ pc' = "call"
  /\ UNCHANGED <<apiVars, syncVars, listenerVars, todo, page, toNotify, batch, endVars,
                 historyVars>>

PagesDone ==
  /\ pc = "page"
  /\ ~ page.more
  /\ todo' = Tail(todo)
  /\ pc' = "next"
  /\ UNCHANGED <<apiVars, syncVars, listenerVars, after, page, toNotify, batch, endVars,
                 historyVars>>

\* The API answers with the links after the cursor, a page of them at most.  When
\* there is one, livesync's cursor becomes that of the last.
APIPage ==
  /\ pc = "call"
  /\ Current.ID \notin Unknown
  /\ after >= 0
  /\ LET n  == links[Current.ID]
         hi == IF after < n THEN LesserOf(after + Pagination, n) ELSE after
     IN  /\ page' = [lo |-> after, hi |-> hi, more |-> hi < n]
         /\ IF hi > after
              THEN /\ cursor' = [cursor EXCEPT ![Current] = hi]
                   /\ pc' = "fetched"
              ELSE /\ pc' = "page"
                   /\ UNCHANGED cursor
  /\ UNCHANGED <<apiVars, workflowStates, registeredServices, listenerVars, todo, after,
                 toNotify, batch, endVars, historyVars>>

\* Mutant: the error drops the workflow, and the loop over its pages goes on.
APIFails_Continues ==
  /\ pc = "call"
  /\ todo' = Tail(todo)
  /\ pc' = "page"
  /\ UNCHANGED <<apiVars, syncVars, listenerVars, after, page, toNotify, batch, endVars,
                 historyVars>>

\* Mutant: livesync's cursor is set from the answer before its error is looked at.
APIFails_MovesCursor ==
  /\ pc = "call"
  /\ cursor' = [cursor EXCEPT ![Current] =
                  IF after \in 0 .. links[Current.ID] - 1
                    THEN LesserOf(after + Pagination, links[Current.ID]) ELSE @]
  /\ todo' = Tail(todo)
  /\ pc' = "next"
  /\ UNCHANGED <<apiVars, workflowStates, registeredServices, listenerVars, after, page,
                 toNotify, batch, endVars, historyVars>>

\* A transport, login or GraphQL error, or a cursor the API cannot read: logged,
\* and the workflow is left until the next tick.
APIFails ==
  /\ pc = "call"
  /\ todo' = Tail(todo)
  /\ pc' = "next"
  /\ UNCHANGED <<apiVars, syncVars, listenerVars, after, page, toNotify, batch, endVars,
                 historyVars>>

\* The API answers null: rsp keeps its HasNextPage, and has no edges.
APINull ==
  /\ pc = "call"
  /\ Current.ID \in Unknown
  /\ pc' = "page"
  /\ UNCHANGED <<apiVars, syncVars, listenerVars, todo, after, page, toNotify, batch,
                 endVars, historyVars>>

\* A link hash that is not hexadecimal stops the service.
APIBadHash ==
  /\ pc = "call"
  /\ Current.ID \notin Unknown
  /\ after >= 0
  /\ links[Current.ID] > after
  /\ CloseListeners
  /\ pc' = "stopped"
  /\ UNCHANGED <<apiVars, syncVars, listenerVars, todo, after, page, toNotify, batch,
                 ctxDone, historyVars>>

\* range reads the slice of listeners once.
StartNotify ==
  /\ pc = "fetched"
  /\ toNotify' = registeredServices
  /\ pc' = "notify"
  /\ UNCHANGED <<apiVars, syncVars, listenerVars, todo, after, page, batch, endVars,
                 historyVars>>

\* The listener is subscribed to the workflow and its cursor is behind livesync's.
IsBehind(s) ==
  LET c == states[s][Current.ID]
  IN  c # None /\ CompareCursors(cursor[Current], c) > 0

\* Mutant: a listener that is busy is skipped, as a send with a default case would.
SkipListener_DropsWhenBusy ==
  /\ pc = "notify"
  /\ toNotify # << >>
  /\ ~ IsBehind(Listener) \/ svc[Listener] = "busy"
  /\ toNotify' = Tail(toNotify)
  /\ UNCHANGED <<apiVars, syncVars, listenerVars, pc, todo, after, page, batch, endVars,
                 historyVars>>

SkipListener ==
  /\ pc = "notify"
  /\ toNotify # << >>
  /\ ~ IsBehind(Listener)
  /\ toNotify' = Tail(toNotify)
  /\ UNCHANGED <<apiVars, syncVars, listenerVars, pc, todo, after, page, batch, endVars,
                 historyVars>>

SliceForListener ==
  /\ pc = "notify"
  /\ toNotify # << >>
  /\ IsBehind(Listener)
  /\ batch' = Slice(page, states[Listener][Current.ID])
  /\ pc' = "send"
  /\ UNCHANGED <<apiVars, syncVars, listenerVars, todo, after, page, toNotify, endVars,
                 historyVars>>

\* The channel is unbuffered: the send completes when the listener receives.
Deliver ==
  /\ pc = "send"
  /\ svc[Listener] = "ready"
  /\ received' = [received EXCEPT ![Listener][Current.ID] = @ \o LinksOf(batch)]
  /\ svc' = [svc EXCEPT ![Listener] = "busy"]
  /\ pc' = "sent"
  /\ UNCHANGED <<apiVars, syncVars, states, request, left, header, todo, after, page,
                 toNotify, batch, endVars, promised>>

\* Mutant: the listener's cursor is not updated.
Sent_KeepsCursor ==
  /\ pc = "sent"
  /\ toNotify' = Tail(toNotify)
  /\ pc' = "notify"
  /\ UNCHANGED <<apiVars, syncVars, listenerVars, todo, after, page, batch, endVars,
                 historyVars>>

\* The listener's cursor becomes livesync's cursor as it is now.
Sent ==
  /\ pc = "sent"
  /\ states' = [states EXCEPT ![Listener][Current.ID] = cursor[Current]]
  /\ toNotify' = Tail(toNotify)
  /\ pc' = "notify"
  /\ UNCHANGED <<apiVars, syncVars, svc, request, left, header, todo, after, page, batch,
                 endVars, historyVars>>

NotifyDone ==
  /\ pc = "notify"
  /\ toNotify = << >>
  /\ pc' = "page"
  /\ UNCHANGED <<apiVars, syncVars, listenerVars, todo, after, page, toNotify, batch,
                 endVars, historyVars>>

-----------------------------------------------------------------------------
Environment == Cancel \/ \E w \in Workflows : Publish(w)

RegisterStep(s) ==
  \/ RegisterSynced(s) \/ LowerCursor(s) \/ RegisterNew(s) \/ AppendWorkflow(s)
  \/ BuildListener(s) \/ AddListener(s)

Register(s) == StartRegister(s) \/ RegisterStep(s)

Listen(s) == Saved(s) \/ SaveFails(s) \/ Leave(s) \/ ChannelClosed(s)

pollWorkflows ==
  \/ NextWorkflow \/ PollDone \/ CallAPI \/ PagesDone
  \/ APIPage \/ APIFails \/ APINull \/ APIBadHash
  \/ StartNotify \/ SkipListener \/ SliceForListener \/ Deliver \/ Sent \/ NotifyDone

pollAndNotify == Tick \/ pollWorkflows

Next ==
  \/ Environment
  \/ \E s \in Services : Register(s) \/ Listen(s)
  \/ pollAndNotify
  \/ Stop

Spec == Init /\ [][Next]_vars

\* The behaviours in which registrations do not race: each runs alone, while the
\* poller waits for its ticker.
Registering(s) == svc[s] \in {"loop", "lower", "append", "add"}

QuietStart(s) ==
  /\ StartRegister(s)
  /\ pc \in {"idle", "stopped"}
  /\ \A t \in Services : ~ Registering(t)

QuietTick ==
  /\ Tick
  /\ \A s \in Services : ~ Registering(s)

QuietNext ==
  \/ Environment
  \/ \E s \in Services : QuietStart(s) \/ RegisterStep(s) \/ Listen(s)
  \/ QuietTick
  \/ pollWorkflows
  \/ Stop

QuietSpec == Init /\ [][QuietNext]_vars

\* The poller and the registered goroutines are scheduled.  The API does not fail
\* for ever on a workflow.  Go's select chooses at random between a ticker and a
\* context that are both ready, so a cancelled context is seen in the end.
Fairness ==
  /\ WF_vars(pollAndNotify)
  /\ \A w \in Workflows : SF_vars(APIPage /\ Current.ID = w)
  /\ SF_vars(Stop)
  /\ \A s \in Services :
       /\ WF_vars(RegisterStep(s))
       /\ WF_vars(Saved(s) \/ SaveFails(s))
       /\ WF_vars(ChannelClosed(s))
FairSpec == Spec /\ Fairness

-----------------------------------------------------------------------------
(* Properties.                                                             *)

SyncTypeOK ==
  /\ links \in [Workflows -> Nat]
  /\ workflowStates \in Seq(Pointer)
  /\ cursor \in [Pointer -> Cursor]
  /\ registeredServices \in Seq(Services)
  /\ closed \subseteq Services
  /\ ctxDone \in BOOLEAN

ListenerTypeOK ==
  /\ states \in [Services -> [Workflows -> Cursor \cup {None}]]
  /\ svc \in [Services -> ServiceStep]
  /\ request \in [Services -> Request]
  /\ left \in [Services -> Seq(Entry)]
  /\ header \in [Services -> Seq(Pointer) \cup Seq(Services)]
  /\ \A s \in Services :
       /\ svc[s] \in {"lower", "append"} => left[s] # << >> /\ header[s] \in Seq(Pointer)
       /\ svc[s] = "lower" => header[s] # << >>
       /\ svc[s] = "add" => header[s] \in Seq(Services)

PollTypeOK ==
  /\ pc \in PollStep
  /\ todo \in Seq(Pointer)
  /\ pc \in {"page", "call", "fetched", "notify", "send", "sent"} => todo # << >>
  /\ after \in Cursor
  /\ page \in Page
  /\ toNotify \in Seq(Services)
  /\ pc \in {"send", "sent"} => toNotify # << >>
  /\ batch \in Batch

HistoryTypeOK ==
  /\ received \in [Services -> [Workflows -> Seq(Int)]]
  /\ promised \in [Services -> [Workflows -> Promise]]

\* Every variable stays in its type; the poller and Register only read the head of
\* a list that has one, and a slice read for an append is of the right kind.
TypeOK == SyncTypeOK /\ ListenerTypeOK /\ PollTypeOK /\ HistoryTypeOK

Increasing(q) == \A i \in 2 .. Len(q) : q[i - 1] < q[i]

\* No link of a workflow is delivered twice to a listener, and none after a later
\* one.  Slice, the comparison of cursors and the cursor kept for the listener
\* (livesync.go:138-152) have to agree for that, over all pages and polls.
InOrder == \A s \in Services, w \in Workflows : Increasing(received[s][w])

\* Between two notifications, the cursor livesync keeps for a listener is the
\* last link the listener has received, or the one it asked for: an update that
\* was skipped or aborted half-way must not have moved it (livesync.go:144-150).
ListenerCursorIsLastReceived ==
  \A s \in Services, w \in Workflows :
    /\ received[s][w] # << >>
    /\ pc = "sent" => <<s, w>> # <<Listener, Current.ID>>
    => states[s][w] = LastReceived(s, w)

\* The comment of Register (livesync.go:70): a listener specifies from which cursor
\* it receives updates.
StartsAtRequest ==
  \A s \in Services, w \in Workflows :
    promised[s][w] # NoPromise /\ received[s][w] # << >> =>
      received[s][w][1] <= promised[s][w].upTo + 1

\* service_test.go:110: Run returns when its context is done.
ShutdownReturns == ctxDone ~> pc = "stopped"

\* service.go:52: livesync polls at regular intervals, until it stops.
KeepsPolling == []<>(pc \in {"idle", "stopped"})

\* What InOrder rests on.  While a page is being distributed it is not empty and
\* livesync's cursor is its last link; the batch on its way starts after what its
\* listener has received and ends where the page ends; and a service that has not
\* returned from Register has received nothing.
Distributing == pc \in {"fetched", "notify", "send", "sent"}

PageIsCurrent ==
  Distributing => /\ page.lo \in Nat
                  /\ page.lo < page.hi
                  /\ cursor[Current] = page.hi

BatchContinues ==
  /\ pc = "send" => /\ batch.lo < batch.hi
                    /\ batch.hi = page.hi
                    /\ received[Listener][Current.ID] # << >> =>
                         LastReceived(Listener, Current.ID) <= batch.lo
  /\ pc = "sent" => /\ received[Listener][Current.ID] # << >>
                    /\ LastReceived(Listener, Current.ID) = page.hi

UnregisteredReceivedNothing ==
  \A s \in Services, w \in Workflows :
    svc[s] \notin {"ready", "busy", "gone"} => received[s][w] = << >>

DeliveryInv ==
  /\ PageIsCurrent
  /\ BatchContinues
  /\ ListenerCursorIsLastReceived
  /\ UnregisteredReceivedNothing
  /\ InOrder

\* The condition it needs: no registration is about to write a livesync cursor
\* while a page is distributed.  Quiet registrations and nil registrations meet it.
NoCursorRace ==
  Distributing => \A s \in Services : svc[s] \notin {"lower", "append"}

\* A link published after a registration, or after the position it asked for, is
\* delivered to the listener in the end, unless the service stopped, a listener
\* went away without unregistering, or a racing append dropped the listener.
Replicated ==
  \A s \in Services, w \in Workflows : \A n \in 1 .. MaxLinks :
    (promised[s][w] # NoPromise /\ n > promised[s][w].upTo /\ n <= links[w])
      ~> (\/ LastReceived(s, w) >= n
          \/ pc = "stopped"
          \/ \E t \in Services : svc[t] = "gone"
          \/ \A i \in 1 .. Len(registeredServices) : registeredServices[i] # s)

\* Cancelling livesync's context stops the poller and closes the channels, unless
\* the poller is in a send to a listener that left: nothing else may hold it up.
ShutdownCompletes ==
  ctxDone ~> (pc = "stopped" \/ (pc = "send" /\ svc[Listener] = "gone"))

\* Livesync takes its listeners with it: who is registered before it ends, whatever he is
\* doing then, sees his channel closed (livesync.go:160) and ends too.  Left behind are only
\* the listener that a racing append dropped (livesync.go:97), and those who wait with
\* livesync for one that left.  (Who registers later, livesync.go:96, waits for ever.)
ListenersEnd ==
  \A s \in Services :
    (ctxDone /\ pc # "stopped" /\ svc[s] \in {"ready", "busy"})
      ~> (\/ svc[s] = "gone"
          \/ pc = "send" /\ svc[Listener] = "gone"
          \/ \A i \in 1 .. Len(registeredServices) : registeredServices[i] # s)

=============================================================================
