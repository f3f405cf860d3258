-------------------------- MODULE LifecycleProofs --------------------------
(* Proofs about Lifecycle, for any number of boots, any configurations,    *)
(* any number of links and any size of an answer of the search.            *)
EXTENDS Lifecycle, FiniteSetTheorems, SequenceTheorems, TLAPS

USE BoundsAssumption

-----------------------------------------------------------------------------
(* What holds after any number of boots.                                   *)

\* The types of what the services share; those of main and of the logger are in ConfigInv.
States == {"stopped", "opening", "running", "failed"}
SyncType == [cursor : 0 .. MaxLinks, listeners : Seq(Parsers), page : SUBSET Links,
             sending : Seq(Parsers), polled : BOOLEAN, early : SUBSET Parsers]
ParserType == [at : {"registers", "appends", "listens", "saves"},
               read : Seq(Parsers), links : SUBSET Links]

Typed ==
  /\ boot \in Boots
  /\ state \in [Services -> States]
  /\ made \in [Services -> {None} \cup Objects]
  /\ field \in [Fields -> {None} \cup Objects]
  /\ memory \in [Objects -> SUBSET Links] /\ index \in [Objects -> SUBSET Links]
  /\ disk \subseteq Links /\ onDisk \subseteq Objects
  /\ sync \in SyncType
  /\ parser \in [Parsers -> ParserType]

\* A service that runs has exposed an object of this boot.
Exposed == \A f \in Fields : state[f[2]] = "running" => made[f[2]] = New

\* One that runs holds such objects of all it needs, and those it needs run too, or
\* did until the boot was cancelled.
Wired ==
  \A f \in Fields : state[f[1]] = "running" /\ f[2] \in Needs(f[1]) =>
    /\ field[f] = New /\ made[f[2]] = New
    /\ state[f[2]] = "running" \/ (cancelled /\ state[f[2]] = "stopped")

\* Nothing is left of a process that has ended, and of a parser that does not run.
Over == main = "ended" => state = Stopped /\ sync = NewSynchronizer
Idle ==
  \A p \in Parsers :
    /\ state[p] # "running" => parser[p] = NewParser
    /\ parser[p].at # "saves" => parser[p].links = {}

\* A parser that has not registered in this boot, but still may.
NotYet(p) ==
  \/ state[p] = "running" /\ parser[p].at \in {"registers", "appends"}
  \/ state[p] = "stopped" /\ ~ cancelled

\* Such a parser is not among the listeners, nor among those another one has read.  What a
\* parser that is about to store the listeners has read are still listeners: it is the
\* other one who may lose, and not one who had registered when it read.
Registered ==
  /\ IsInjective(sync.listeners)
  /\ \A p \in Parsers :
       /\ IsInjective(parser[p].read)
       /\ parser[p].at = "appends" => ToSet(parser[p].read) \subseteq ToSet(sync.listeners)
       /\ NotYet(p) => /\ p \notin ToSet(sync.listeners) /\ p \notin sync.early
                       /\ \A q \in Parsers : p \notin ToSet(parser[q].read)

\* What a parser has stored in this boot, or finds stored.
Kept(p) == IF p = "parser" THEN memory[New]
           ELSE IF New \in onDisk THEN disk ELSE index[New]

\* What it has yet to receive or to store.
Due(p) == parser[p].links \cup (IF p \in ToSet(sync.sending) THEN sync.page ELSE {})

\* A parser that registered before the first poll has stored all that was polled but what
\* is due, as long as it is a listener.
Synced ==
  /\ ~ sync.polled /\ (\E s \in Parsers \cup {"livesync"} : state[s] = "running") =>
       sync.cursor = 0
  /\ \A p \in sync.early \cap ToSet(sync.listeners) : state[p] = "running" =>
       (1 .. sync.cursor) \ Due(p) \subseteq Kept(p)

LifecycleInv == Typed /\ Exposed /\ Wired /\ Over /\ Idle /\ Registered /\ Synced

-----------------------------------------------------------------------------
(* Facts about the constants, and about sequences.                         *)

LEMMA FieldsAre ==
  /\ \A f \in Fields : /\ f = <<f[1], f[2]>> /\ f[1] \in Services /\ f[2] \in Services
                       /\ f[1] # f[2]
                       /\ f[2] \notin {"parser", "bleveparser", "search"}
  /\ \A f \in Fields : f[1] = "stratumnClient" => f[2] = "decryption"
  /\ {"parser", "bleveparser"} = Parsers
  /\ Parsers \subseteq Services /\ "livesync" \in Services /\ "livesync" \notin Parsers
  BY DEF Fields, Services, Parsers

\* What the parsers and search need, whatever the configuration.
LEMMA ParsersNeed ==
  /\ "livesync" \in Needs("parser") /\ "memorystore" \in Needs("parser")
  /\ "livesync" \in Needs("bleveparser") /\ "blevestore" \in Needs("bleveparser")
  /\ "blevestore" \in Needs("search")
  BY DEF Needs, Fields, Services

\* All that receive but the first are those that are yet to receive.
LEMMA TailToSet ==
  ASSUME NEW q \in Seq(Parsers), q # <<>>
  PROVE  /\ Head(q) \in Parsers /\ Tail(q) \in Seq(Parsers)
         /\ \A p \in ToSet(q) : p = Head(q) \/ p \in ToSet(Tail(q))
<1>1. Tail(q) \in Seq(Parsers) /\ Head(q) \in Parsers /\ Len(q) \in Nat
  OBVIOUS
<1>2. ASSUME NEW p \in ToSet(q), p # Head(q) PROVE p \in ToSet(Tail(q))
  <2>1. PICK i \in 1 .. Len(q) : q[i] = p
    BY DEF ToSet
  <2>2. Len(q) \in Nat /\ i # 1
    BY <1>2, <2>1
  <2>3. i - 1 \in 1 .. Len(Tail(q)) /\ Tail(q)[i - 1] = p
    BY <2>1, <2>2
  <2>4. DOMAIN Tail(q) = 1 .. Len(Tail(q))
    BY <1>1
  <2> QED BY <2>3, <2>4 DEF ToSet
<1> QED BY <1>1, <1>2

LEMMA AppendToSet ==
  ASSUME NEW S, NEW q \in Seq(S), NEW p \in S
  PROVE  ToSet(Append(q, p)) = ToSet(q) \cup {p} /\ Append(q, p) \in Seq(S)
<1>1. Len(q) \in Nat /\ Append(q, p) \in Seq(S) /\ Len(Append(q, p)) = Len(q) + 1
  OBVIOUS
<1>2. \A i \in 1 .. Len(q) : Append(q, p)[i] = q[i]
  OBVIOUS
<1>3. Append(q, p)[Len(q) + 1] = p
  OBVIOUS
<1>4. ToSet(Append(q, p)) \subseteq ToSet(q) \cup {p}
  BY <1>1, <1>2, <1>3 DEF ToSet
<1>5. ToSet(q) \cup {p} \subseteq ToSet(Append(q, p))
  BY <1>1, <1>2, <1>3 DEF ToSet
<1> QED BY <1>1, <1>4, <1>5

\* One more that was not in a sequence without repetitions.
LEMMA AppendNew ==
  ASSUME NEW S, NEW q \in Seq(S), NEW p \in S, IsInjective(q), p \notin ToSet(q)
  PROVE  IsInjective(Append(q, p))
<1>1. Len(q) \in Nat /\ DOMAIN q = 1 .. Len(q) /\ DOMAIN Append(q, p) = 1 .. Len(q) + 1
  OBVIOUS
<1>2. \A i \in 1 .. Len(q) : Append(q, p)[i] = q[i]
  OBVIOUS
<1>3. Append(q, p)[Len(q) + 1] = p
  OBVIOUS
<1>4. \A i \in 1 .. Len(q) : q[i] # p
  BY DEF ToSet
<1>5. \A i, j \in 1 .. Len(q) : q[i] = q[j] => i = j
  BY <1>1 DEF IsInjective
<1>6. ASSUME NEW i \in 1 .. Len(q) + 1, NEW j \in 1 .. Len(q) + 1,
             Append(q, p)[i] = Append(q, p)[j]
      PROVE  i = j
  <2>1. (i \in 1 .. Len(q) \/ i = Len(q) + 1) /\ (j \in 1 .. Len(q) \/ j = Len(q) + 1)
    BY <1>1
  <2> QED BY <1>2, <1>3, <1>4, <1>5, <1>6, <2>1
<1> QED BY <1>1, <1>6 DEF IsInjective

LEMMA EmptySequence == IsInjective(<<>>) /\ ToSet(<<>>) = {}
  BY DEF IsInjective, ToSet

LEMMA NewSynchronizerType ==
  /\ NewSynchronizer \in SyncType
  /\ NewSynchronizer.early = {} /\ NewSynchronizer.listeners = <<>>
  /\ NewSynchronizer.sending = <<>> /\ NewSynchronizer.cursor = 0
  BY DEF NewSynchronizer, SyncType

LEMMA NewParserType ==
  /\ NewParser \in ParserType /\ Listening \in ParserType
  /\ NewParser.at = "registers" /\ NewParser.read = <<>> /\ NewParser.links = {}
  /\ Listening.at = "listens" /\ Listening.read = <<>> /\ Listening.links = {}
  BY DEF NewParser, Listening, ParserType

LEMMA SavingType ==
  ASSUME NEW links \in SUBSET Links
  PROVE  /\ Saving(links) \in ParserType
         /\ Saving(links).at = "saves" /\ Saving(links).read = <<>>
         /\ Saving(links).links = links
  BY DEF Saving, ParserType

-----------------------------------------------------------------------------
(* The process.                                                            *)

\* No service runs, and the synchronizer has no listeners.
LEMMA NothingRuns ==
  ASSUME Typed', state' = Stopped, sync'.listeners = <<>>, sync'.early = {},
         \A p \in Parsers : parser'[p] = NewParser,
         main' = "ended" => sync' = NewSynchronizer
  PROVE  LifecycleInv'
<1>1. \A s \in Services : state'[s] = "stopped"
  BY DEF Stopped
<1>2. Exposed' /\ Wired'
  BY <1>1, FieldsAre DEF Exposed, Wired
<1>3. Over' /\ Idle'
  BY NewParserType DEF Over, Idle
<1>4. Registered'
  BY NewParserType, EmptySequence DEF Registered
<1>5. Synced'
  <2>1. \A s \in Parsers \cup {"livesync"} : state'[s] # "running"
    BY <1>1, FieldsAre
  <2> QED BY <2>1 DEF Synced
<1> QED BY <1>2, <1>3, <1>4, <1>5 DEF LifecycleInv

LEMMA InitInv == Init => LifecycleInv
<1> SUFFICES ASSUME Init PROVE LifecycleInv
  OBVIOUS
<1>1. Typed
  BY NewSynchronizerType, NewParserType DEF Init, Typed, Stopped, Boots, States, Empty
<1>2. \A s \in Services : state[s] = "stopped"
  BY DEF Init, Stopped
<1>3. Exposed /\ Wired
  BY <1>2, FieldsAre DEF Exposed, Wired
<1>4. Over /\ Idle
  BY NewParserType DEF Init, Over, Idle
<1>5. Registered
  BY NewSynchronizerType, NewParserType, EmptySequence DEF Init, Registered
<1>6. Synced
  BY NewSynchronizerType DEF Init, Synced
<1> QED BY <1>1, <1>3, <1>4, <1>5, <1>6 DEF LifecycleInv

\* Steps that leave the services, what they hold, and what they stored as it was.
LEMMA FrameInv ==
  ASSUME LifecycleInv, UNCHANGED <<config, boot, state, made, field, storeVars, sync, parser>>,
         cancelled => cancelled', main' = "ended" => main = "ended"
  PROVE  LifecycleInv'
<1>1. Typed'
  BY DEF LifecycleInv, Typed, storeVars
<1>2. Exposed'
  BY DEF LifecycleInv, Exposed
<1>3. Wired'
  BY DEF LifecycleInv, Wired, Needs
<1>4. Over' /\ Idle'
  BY DEF LifecycleInv, Over, Idle
<1>5. Registered'
  <2>1. \A p \in Parsers : NotYet(p)' => NotYet(p)
    BY DEF NotYet
  <2> QED BY <2>1 DEF LifecycleInv, Registered
<1>6. Synced'
  BY DEF LifecycleInv, Synced, Kept, Due, storeVars
<1> QED BY <1>1, <1>2, <1>3, <1>4, <1>5, <1>6 DEF LifecycleInv

LEMMA MainInv ==
  ASSUME LifecycleInv, Sighup \/ CancelBoot \/ AddHook \/ BootStarts
  PROVE  LifecycleInv'
<1>1. UNCHANGED <<config, boot, state, made, field, storeVars, sync, parser>>
  BY DEF Sighup, CancelBoot, AddHook, BootStarts
<1>2. cancelled => cancelled'
  BY DEF Sighup, CancelBoot, AddHook, BootStarts
<1>3. main' = "ended" => main = "ended"
  BY DEF Sighup, CancelBoot, AddHook, BootStarts
<1> QED BY <1>1, <1>2, <1>3, FrameInv

\* The process ends, or is started again: all services are stopped, and new.
LEMMA ProcessInv ==
  ASSUME LifecycleInv, LoadConfigFails \/ StartFails \/ Crash \/ Restart
  PROVE  LifecycleInv'
<1>1. CASE LoadConfigFails \/ StartFails \/ Crash
  <2>1. Ends
    BY <1>1 DEF LoadConfigFails, StartFails, Crash
  <2>2. Typed'
    BY <2>1, NewSynchronizerType, NewParserType
    DEF LifecycleInv, Typed, Ends, Gone, Stopped, States, Empty
  <2>3. /\ state' = Stopped /\ sync' = NewSynchronizer
        /\ \A p \in Parsers : parser'[p] = NewParser
    BY <2>1 DEF Ends, Gone
  <2> QED BY <2>2, <2>3, NewSynchronizerType, NothingRuns
<1>2. CASE Restart
  <2>1. UNCHANGED <<state, made, field, storeVars, sync, parser>> /\ boot' \in Boots
        /\ main' = "starting"
    BY <1>2 DEF LifecycleInv, Typed, Restart, Boots
  <2>2. state = Stopped /\ sync = NewSynchronizer
    BY <1>2 DEF LifecycleInv, Over, Restart
  <2>3. \A p \in Parsers : parser[p] = NewParser
    BY <2>2, FieldsAre DEF LifecycleInv, Idle, Stopped
  <2>4. Typed'
    BY <2>1 DEF LifecycleInv, Typed, storeVars
  <2> QED BY <2>1, <2>2, <2>3, <2>4, NewSynchronizerType, NothingRuns
<1> QED BY <1>1, <1>2

\* A boot begins with all services stopped, and what they hold is old.
LEMMA ReloadInv ==
  ASSUME LifecycleInv, Reload
  PROVE  LifecycleInv'
<1>1. /\ state' = Stopped /\ boot' \in Boots /\ main' = "loading" /\ Keep
  BY DEF LifecycleInv, Typed, Reload, Boots
<1>2. /\ sync' = [NewSynchronizer EXCEPT !.cursor = sync.cursor]
      /\ UNCHANGED <<disk, parser>>
      /\ sync \in SyncType
  BY <1>1 DEF LifecycleInv, Typed, Keep
<1>3. sync' \in SyncType /\ sync'.listeners = <<>> /\ sync'.early = {}
  BY <1>2, NewSynchronizerType DEF SyncType, NewSynchronizer
<1>4. Typed'
  <2>1. \A object \in {None} \cup Objects : Age(object) \in {None} \cup Objects
    BY DEF Age, Objects
  <2>2. \A object \in Objects : Age(object) \in Objects
    BY DEF Age, Objects, None, Old, New
  <2>3. /\ made' \in [Services -> {None} \cup Objects]
        /\ field' \in [Fields -> {None} \cup Objects]
        /\ onDisk' \subseteq Objects
        /\ memory' \in [Objects -> SUBSET Links] /\ index' \in [Objects -> SUBSET Links]
    BY <1>1, <2>1, <2>2 DEF LifecycleInv, Typed, Keep, Empty
  <2> QED BY <1>1, <1>2, <1>3, <2>3 DEF LifecycleInv, Typed, Stopped, States
<1>5. \A p \in Parsers : parser'[p] = NewParser
  BY <1>2, FieldsAre DEF LifecycleInv, Idle, Reload, Done
<1> QED BY <1>1, <1>3, <1>4, <1>5, NothingRuns

-----------------------------------------------------------------------------
(* Starting services.                                                      *)

\* While a boot goes on, nothing that runs needs a service that does not.
LEMMA NotNeeded ==
  ASSUME LifecycleInv, NEW s \in Services, Ready(s) \/ state[s] = "opening"
  PROVE  \A f \in Fields : f[2] = s => ~ (state[f[1]] = "running" /\ f[2] \in Needs(f[1]))
  BY DEF LifecycleInv, Wired, Ready

\* A service that starts holds what those it needs expose, and exposes what it made.
LEMMA StartsWired ==
  ASSUME LifecycleInv, NEW s \in Services,
         \A f \in Fields : f[2] = s => ~ (state[f[1]] = "running" /\ f[2] \in Needs(f[1])),
         \A d \in Needs(s) : state[d] = "running",
         UNCHANGED <<config, cancelled>>,
         state' = [state EXCEPT ![s] = "running"],
         \A f \in Fields : f[1] # s => field'[f] = field[f],
         \A f \in Fields : f[1] = s /\ f[2] \in Needs(s) => field'[f] = made[f[2]],
         \A d \in Services : d # s => made'[d] = made[d],
         (\E f \in Fields : f[2] = s) => made'[s] = New
  PROVE  Exposed' /\ Wired'
<1>0. state \in [Services -> States]
  BY DEF LifecycleInv, Typed
<1>1. \A d \in Services : state'[d] = IF d = s THEN "running" ELSE state[d]
  BY <1>0
<1>2. \A d : Needs(d)' = Needs(d)
  BY DEF Needs
<1>3. Exposed'
  BY <1>1, FieldsAre DEF LifecycleInv, Exposed
<1>4. ASSUME NEW f \in Fields, state'[f[1]] = "running", f[2] \in Needs(f[1])
      PROVE  /\ field'[f] = New /\ made'[f[2]] = New
             /\ state'[f[2]] = "running" \/ (cancelled' /\ state'[f[2]] = "stopped")
  <2>0. f[1] \in Services /\ f[2] \in Services /\ f[1] # f[2]
    BY FieldsAre
  <2>1. CASE f[1] = s
    <3>1. state[f[2]] = "running" /\ made[f[2]] = New /\ field'[f] = made[f[2]]
      BY <1>4, <2>1 DEF LifecycleInv, Exposed
    <3> QED BY <1>1, <2>0, <2>1, <3>1
  <2>2. CASE f[1] # s
    <3>1. state[f[1]] = "running" /\ field'[f] = field[f]
      BY <1>1, <1>4, <2>0, <2>2
    <3>2. f[2] # s
      BY <1>4, <3>1
    <3>3. /\ field[f] = New /\ made[f[2]] = New
          /\ state[f[2]] = "running" \/ (cancelled /\ state[f[2]] = "stopped")
      BY <1>4, <3>1 DEF LifecycleInv, Wired
    <3> QED BY <1>1, <2>0, <3>1, <3>2, <3>3
  <2> QED BY <2>1, <2>2
<1>5. Wired'
  BY <1>2, <1>4 DEF Wired
<1> QED BY <1>3, <1>5

\* Steps that leave the synchronizer and the parsers, of which one may start, and lose
\* nothing that a parser that runs has stored.
LEMMA SyncedFrame ==
  ASSUME LifecycleInv, UNCHANGED <<main, cancelled, sync, parser>>, main # "ended",
         state'["livesync"] = "running" => state["livesync"] = "running",
         \A p \in Parsers : state'[p] = state[p] \/ (Ready(p) /\ state'[p] = "running"),
         \A p \in Parsers : state[p] = "running" => Kept(p) \subseteq Kept(p)'
  PROVE  Over' /\ Idle' /\ Registered' /\ Synced'
<1>1. Over' /\ Idle'
  BY DEF LifecycleInv, Over, Idle, Ready
<1>2. \A p \in Parsers : NotYet(p)' => NotYet(p)
  BY DEF NotYet, Ready
<1>3. Registered'
  BY <1>2 DEF LifecycleInv, Registered
<1>4. \A p \in Parsers : Ready(p) => state["livesync"] = "running"
  BY ParsersNeed DEF Ready, Parsers
<1>5. \A s \in Parsers \cup {"livesync"} : state'[s] = "running" =>
        \E t \in Parsers \cup {"livesync"} : state[t] = "running"
  BY <1>4
<1>6. ASSUME NEW p \in sync.early \cap ToSet(sync.listeners), state'[p] = "running"
      PROVE  (1 .. sync.cursor) \ Due(p)' \subseteq Kept(p)'
  <2>1. p \in Parsers
    BY DEF LifecycleInv, Typed, SyncType
  <2>2. state[p] = "running"
    BY <1>6, <2>1 DEF LifecycleInv, Registered, NotYet, Ready
  <2>3. Due(p)' = Due(p)
    BY DEF Due
  <2> QED BY <2>1, <2>2, <2>3 DEF LifecycleInv, Synced
<1>7. Synced'
  BY <1>5, <1>6 DEF LifecycleInv, Synced
<1> QED BY <1>1, <1>3, <1>7

\* A service that is neither livesync nor a parser, and stores nothing yet.
LEMMA StartOtherInv ==
  ASSUME LifecycleInv, StartDecryption \/ StartClient \/ StartSearch
  PROVE  LifecycleInv'
<1> DEFINE s == IF StartDecryption THEN "decryption"
                ELSE IF StartClient THEN "stratumnClient" ELSE "search"
<1>0. state \in [Services -> States] /\ New \in Objects
      /\ made \in [Services -> {None} \cup Objects] /\ field \in [Fields -> {None} \cup Objects]
  BY DEF LifecycleInv, Typed, Objects
<1>1. s \in Services \ (Parsers \cup {"livesync"}) /\ Ready(s)
  BY DEF StartDecryption, StartClient, StartSearch, Services, Parsers
<1>2. /\ state' = [state EXCEPT ![s] = "running"]
      /\ made' = [made EXCEPT ![s] = New]
      /\ UNCHANGED <<mainVars, storeVars, sync, parser>>
  BY DEF StartDecryption, StartClient, StartSearch, Runs, Makes
<1>3. /\ field' \in [Fields -> {None} \cup Objects]
      /\ \A f \in Fields : f[1] # s => field'[f] = field[f]
      /\ \A f \in Fields : f[1] = s /\ f[2] \in Needs(s) => field'[f] = made[f[2]]
  <2>1. CASE StartDecryption
    <3>1. \A f \in Fields : f[1] # s
      BY <2>1 DEF Fields
    <3> QED BY <1>0, <2>1, <3>1 DEF StartDecryption
  <2>2. ASSUME Plugs(s)
        PROVE  /\ field' \in [Fields -> {None} \cup Objects]
               /\ \A f \in Fields : f[1] # s => field'[f] = field[f]
               /\ \A f \in Fields : f[1] = s /\ f[2] \in Needs(s) => field'[f] = made[f[2]]
    BY <1>0, <2>2, FieldsAre DEF Plugs
  <2>3. CASE ~ StartDecryption /\ StartClient
    <3>1. s = "stratumnClient" /\ PlugClient
      BY <2>3 DEF StartClient
    <3>2. ASSUME ~ config.decryption PROVE \A f \in Fields : ~ (f[1] = s /\ f[2] \in Needs(s))
      BY <3>1, <3>2, FieldsAre DEF Needs
    <3> HIDE DEF s
    <3> QED BY <1>0, <2>2, <3>1, <3>2 DEF PlugClient
  <2>4. CASE ~ StartDecryption /\ ~ StartClient
    BY <2>2, <2>4 DEF StartSearch
  <2> QED BY <2>1, <2>3, <2>4
<1> HIDE DEF s
<1>4. Typed'
  BY <1>0, <1>1, <1>2, <1>3 DEF LifecycleInv, Typed, States, mainVars, storeVars
<1>5. Exposed' /\ Wired'
  <2>1. \A d \in Needs(s) : state[d] = "running"
    BY <1>1 DEF Ready
  <2>2. \A d \in Services : made'[d] = IF d = s THEN New ELSE made[d]
    BY <1>0, <1>2
  <2>3. UNCHANGED <<config, cancelled>>
    BY <1>2 DEF mainVars
  <2>4. \A f \in Fields : f[2] = s => ~ (state[f[1]] = "running" /\ f[2] \in Needs(f[1]))
    BY <1>1, NotNeeded
  <2>5. (\A d \in Services : d # s => made'[d] = made[d]) /\ made'[s] = New
    BY <1>1, <2>2
  <2>6. state' = [state EXCEPT ![s] = "running"] /\ s \in Services
    BY <1>1, <1>2
  <2>7. /\ \A f \in Fields : f[1] # s => field'[f] = field[f]
        /\ \A f \in Fields : f[1] = s /\ f[2] \in Needs(s) => field'[f] = made[f[2]]
    BY <1>3
  <2> QED BY ONLY LifecycleInv, <2>1, <2>3, <2>4, <2>5, <2>6, <2>7, StartsWired
<1>6. Over' /\ Idle' /\ Registered' /\ Synced'
  <2>1. \A d \in Parsers \cup {"livesync"} : state'[d] = state[d]
    BY <1>0, <1>1, <1>2, FieldsAre DEF Services
  <2>2. \A p : Kept(p)' = Kept(p)
    BY <1>2 DEF Kept, mainVars, storeVars
  <2>3. main # "ended"
    BY <1>1 DEF Ready
  <2> QED BY <1>2, <2>1, <2>2, <2>3, SyncedFrame DEF mainVars
<1> QED BY <1>4, <1>5, <1>6 DEF LifecycleInv

\* Livesync starts with a synchronizer that has polled nothing, for nobody.
LEMMA StartLivesyncInv ==
  ASSUME LifecycleInv, StartLivesync
  PROVE  LifecycleInv'
<1> DEFINE s == "livesync"
<1>0. state \in [Services -> States] /\ New \in Objects
      /\ made \in [Services -> {None} \cup Objects] /\ field \in [Fields -> {None} \cup Objects]
  BY DEF LifecycleInv, Typed, Objects
<1>1. s \in Services /\ Ready(s)
  BY DEF StartLivesync, Services
<1>2. /\ state' = [state EXCEPT ![s] = "running"]
      /\ made' = [made EXCEPT ![s] = New]
      /\ UNCHANGED <<mainVars, storeVars, parser>>
      /\ sync' = NewSynchronizer
  BY DEF StartLivesync, Runs, Makes
<1>3. /\ field' \in [Fields -> {None} \cup Objects]
      /\ \A f \in Fields : f[1] # s => field'[f] = field[f]
      /\ \A f \in Fields : f[1] = s /\ f[2] \in Needs(s) => field'[f] = made[f[2]]
  BY <1>0, FieldsAre DEF StartLivesync, Plugs
<1> HIDE DEF s
<1>4. Typed'
  BY <1>0, <1>1, <1>2, <1>3, NewSynchronizerType DEF LifecycleInv, Typed, States, mainVars, storeVars
<1>5. Exposed' /\ Wired'
  <2>1. \A d \in Needs(s) : state[d] = "running"
    BY <1>1 DEF Ready
  <2>2. \A d \in Services : made'[d] = IF d = s THEN New ELSE made[d]
    BY <1>0, <1>2
  <2>3. UNCHANGED <<config, cancelled>>
    BY <1>2 DEF mainVars
  <2>4. \A f \in Fields : f[2] = s => ~ (state[f[1]] = "running" /\ f[2] \in Needs(f[1]))
    BY <1>1, NotNeeded
  <2>5. (\A d \in Services : d # s => made'[d] = made[d]) /\ made'[s] = New
    BY <1>1, <2>2
  <2>6. state' = [state EXCEPT ![s] = "running"] /\ s \in Services
    BY <1>1, <1>2
  <2>7. /\ \A f \in Fields : f[1] # s => field'[f] = field[f]
        /\ \A f \in Fields : f[1] = s /\ f[2] \in Needs(s) => field'[f] = made[f[2]]
    BY <1>3
  <2> QED BY ONLY LifecycleInv, <2>1, <2>3, <2>4, <2>5, <2>6, <2>7, StartsWired
<1>6. \A p \in Parsers : state[p] # "running" /\ state'[p] # "running"
  <2>1. \A p \in Parsers : state[p] # "running"
    BY <1>1, NotNeeded, ParsersNeed, FieldsAre DEF s, Parsers, Fields
  <2> QED BY <1>0, <1>2, <2>1, FieldsAre DEF s
<1>7. main' # "ended"
  BY <1>1, <1>2 DEF Ready, mainVars
<1>8. Over' /\ Idle'
  BY <1>2, <1>6, <1>7 DEF LifecycleInv, Over, Idle
<1>9. Registered'
  <2>1. \A p \in Parsers : parser'[p].at = "registers" /\ parser'[p].read = <<>>
    BY <1>2, <1>6, NewParserType DEF LifecycleInv, Idle
  <2> QED BY <1>2, <2>1, NewSynchronizerType, EmptySequence DEF Registered
<1>10. Synced'
  BY <1>2, NewSynchronizerType DEF Synced
<1> QED BY <1>4, <1>5, <1>8, <1>9, <1>10 DEF LifecycleInv

\* The memory store starts empty, when the parser does not run.
LEMMA StartMemorystoreInv ==
  ASSUME LifecycleInv, StartMemorystore
  PROVE  LifecycleInv'
<1> DEFINE s == "memorystore"
<1>0. state \in [Services -> States] /\ New \in Objects
      /\ made \in [Services -> {None} \cup Objects]
  BY DEF LifecycleInv, Typed, Objects
<1>1. s \in Services /\ Ready(s)
  BY DEF StartMemorystore, Services
<1>2. /\ state' = [state EXCEPT ![s] = "running"]
      /\ made' = [made EXCEPT ![s] = New]
      /\ memory' = [memory EXCEPT ![New] = {}]
      /\ UNCHANGED <<mainVars, field, index, disk, onDisk, sync, parser>>
  BY DEF StartMemorystore, Runs, Makes
<1>3. \A f \in Fields : f[2] = s => ~ (state[f[1]] = "running" /\ f[2] \in Needs(f[1]))
  BY <1>1, NotNeeded
<1>4. Typed'
  BY <1>0, <1>1, <1>2 DEF LifecycleInv, Typed, States, mainVars
<1>5. Exposed' /\ Wired'
  <2>1. Needs(s) = {}
    BY DEF Needs, Fields
  <2>2. (\A d \in Services : d # s => made'[d] = made[d]) /\ made'[s] = New
    BY <1>0, <1>1, <1>2
  <2>3. UNCHANGED <<config, cancelled>> /\ field' = field
    BY <1>2 DEF mainVars
  <2>4. \A f \in Fields : f[1] # s
    BY DEF Fields
  <2> HIDE DEF s
  <2> QED BY ONLY LifecycleInv, <1>1, <1>2, <1>3, <2>1, <2>2, <2>3, <2>4, StartsWired
<1>6. Over' /\ Idle' /\ Registered' /\ Synced'
  <2>1. \A d \in Parsers \cup {"livesync"} : state'[d] = state[d]
    BY <1>0, <1>2, FieldsAre DEF Services, Parsers
  <2>2. state["parser"] # "running"
    BY <1>3, ParsersNeed, FieldsAre DEF Fields
  <2>3. \A p : p # "parser" => Kept(p)' = Kept(p)
    BY <1>2 DEF Kept, mainVars
  <2>4. main # "ended"
    BY <1>1 DEF Ready
  <2> QED BY <1>2, <2>1, <2>2, <2>3, <2>4, SyncedFrame DEF mainVars
<1> QED BY <1>4, <1>5, <1>6 DEF LifecycleInv

\* The blevestore begins to open its index.
LEMMA StartBlevestoreInv ==
  ASSUME LifecycleInv, StartBlevestore
  PROVE  LifecycleInv'
<1>0. state \in [Services -> States] /\ New \in Objects
  BY DEF LifecycleInv, Typed, Objects
<1>1. Ready("blevestore") /\ "blevestore" \in Services
  BY DEF StartBlevestore, Services
<1>2. /\ state' = [state EXCEPT !["blevestore"] = "opening"]
      /\ UNCHANGED <<mainVars, made, field, storeVars, sync, parser>>
  BY DEF StartBlevestore
<1>3. \A d \in Services : state'[d] = IF d = "blevestore" THEN "opening" ELSE state[d]
  BY <1>0, <1>2
<1>4. \A f \in Fields : f[2] = "blevestore" =>
        ~ (state[f[1]] = "running" /\ f[2] \in Needs(f[1]))
  BY <1>1, NotNeeded
<1>5. Typed'
  BY <1>0, <1>1, <1>2 DEF LifecycleInv, Typed, States, mainVars, storeVars
<1>6. Exposed'
  BY <1>2, <1>3, FieldsAre DEF LifecycleInv, Exposed, mainVars
<1>7. Wired'
  <2>1. \A d : Needs(d)' = Needs(d)
    BY <1>2 DEF Needs, mainVars
  <2> QED BY <1>2, <1>3, <1>4, <2>1, FieldsAre DEF LifecycleInv, Wired, mainVars
<1>8. Over' /\ Idle' /\ Registered' /\ Synced'
  <2>1. \A d \in Parsers \cup {"livesync"} : state'[d] = state[d]
    BY <1>3, FieldsAre DEF Services, Parsers
  <2>2. \A p : Kept(p)' = Kept(p)
    BY <1>2 DEF Kept, mainVars, storeVars
  <2>3. main # "ended"
    BY <1>1 DEF Ready
  <2> QED BY <1>2, <2>1, <2>2, <2>3, SyncedFrame DEF mainVars
<1> QED BY <1>5, <1>6, <1>7, <1>8 DEF LifecycleInv

\* ... and has opened it, when bleveparser does not run.
LEMMA OpenedInv ==
  ASSUME LifecycleInv, NewMemOnly \/ OpenIndex \/ ReopenIndex
  PROVE  LifecycleInv'
<1> DEFINE s == "blevestore"
<1>0. state \in [Services -> States] /\ New \in Objects
      /\ made \in [Services -> {None} \cup Objects]
  BY DEF LifecycleInv, Typed, Objects
<1>1. s \in Services /\ state[s] = "opening"
  BY DEF NewMemOnly, OpenIndex, ReopenIndex, Opened, Services
<1>2. /\ state' = [state EXCEPT ![s] = "running"]
      /\ made' = [made EXCEPT ![s] = New]
      /\ UNCHANGED <<mainVars, field, memory, disk, sync, parser>>
  BY DEF NewMemOnly, OpenIndex, ReopenIndex, Opened, Runs, Makes
<1>3. \A f \in Fields : f[2] = s => ~ (state[f[1]] = "running" /\ f[2] \in Needs(f[1]))
  BY <1>1, NotNeeded
<1>4. Typed'
  <2>1. index' \in [Objects -> SUBSET Links] /\ onDisk' \subseteq Objects
    BY <1>0 DEF LifecycleInv, Typed, States, NewMemOnly, OpenIndex, ReopenIndex
  <2> QED BY <1>0, <1>1, <1>2, <2>1 DEF LifecycleInv, Typed, States, mainVars
<1>5. Exposed' /\ Wired'
  <2>1. Needs(s) = {}
    BY DEF Needs, Fields
  <2>2. (\A d \in Services : d # s => made'[d] = made[d]) /\ made'[s] = New
    BY <1>0, <1>1, <1>2
  <2>3. UNCHANGED <<config, cancelled>> /\ field' = field
    BY <1>2 DEF mainVars
  <2>4. \A f \in Fields : f[1] # s
    BY DEF Fields
  <2> HIDE DEF s
  <2> QED BY ONLY LifecycleInv, <1>1, <1>2, <1>3, <2>1, <2>2, <2>3, <2>4, StartsWired
<1>6. Over' /\ Idle' /\ Registered' /\ Synced'
  <2>1. \A d \in Parsers \cup {"livesync"} : state'[d] = state[d]
    BY <1>0, <1>2, FieldsAre DEF Services, Parsers
  <2>2. state["bleveparser"] # "running"
    BY <1>3, ParsersNeed, FieldsAre DEF Fields
  <2>3. Kept("parser")' = Kept("parser")
    BY <1>2 DEF Kept, mainVars
  <2>4. main # "ended"
    BY <1>1 DEF LifecycleInv, Over, Stopped
  <2> QED BY <1>2, <2>1, <2>2, <2>3, <2>4, FieldsAre, SyncedFrame DEF mainVars
<1> QED BY <1>4, <1>5, <1>6 DEF LifecycleInv

\* A parser starts: it has not registered with the livesync that runs.
LEMMA StartParserInv ==
  ASSUME LifecycleInv, StartParser \/ StartBleveParser
  PROVE  LifecycleInv'
<1>1. PICK s \in Parsers :
        /\ Ready(s)
        /\ Plugs(s)
        /\ Runs(s)
        /\ UNCHANGED <<mainVars, made, storeVars, sync, parser>>
  BY DEF StartParser, StartBleveParser, Parsers
<1>0. state \in [Services -> States] /\ s \in Services
      /\ made \in [Services -> {None} \cup Objects] /\ field \in [Fields -> {None} \cup Objects]
  BY FieldsAre DEF LifecycleInv, Typed, Objects
<1>2. state' = [state EXCEPT ![s] = "running"]
  BY <1>1 DEF Runs
<1>3. /\ field' \in [Fields -> {None} \cup Objects]
      /\ \A f \in Fields : f[1] # s => field'[f] = field[f]
      /\ \A f \in Fields : f[1] = s /\ f[2] \in Needs(s) => field'[f] = made[f[2]]
  BY <1>0, <1>1, FieldsAre DEF Plugs
<1>4. Typed'
  BY <1>0, <1>1, <1>2, <1>3 DEF LifecycleInv, Typed, States, mainVars, storeVars
<1>5. Exposed' /\ Wired'
  <2>1. \A d \in Needs(s) : state[d] = "running"
    BY <1>1 DEF Ready
  <2>2. \A f \in Fields : f[2] # s
    BY FieldsAre, <1>1 DEF Parsers
  <2>3. UNCHANGED <<config, cancelled>> /\ made' = made
    BY <1>1 DEF mainVars
  <2> QED BY ONLY LifecycleInv, <1>0, <1>2, <1>3, <2>1, <2>2, <2>3, StartsWired
<1>6. Over' /\ Idle' /\ Registered' /\ Synced'
  <2>1. state["livesync"] = "running" /\ state[s] = "stopped" /\ ~ cancelled
    BY <1>1, ParsersNeed DEF Ready, Parsers
  <2>2. main # "ended"
    BY <1>1 DEF Ready
  <2>3. \A d \in Services : state'[d] = IF d = s THEN "running" ELSE state[d]
    BY <1>0, <1>2
  <2>4. \A p : Kept(p)' = Kept(p)
    BY <1>1 DEF Kept, mainVars, storeVars
  <2> QED BY <1>1, <2>1, <2>2, <2>3, <2>4, FieldsAre, SyncedFrame DEF mainVars
<1> QED BY <1>4, <1>5, <1>6 DEF LifecycleInv

-----------------------------------------------------------------------------
(* While the services run, and when they stop.                             *)

\* Services that leave: what runs holds what it held, and what it needs runs, for a service
\* that others need leaves only when the boot is cancelled.
LEMMA WiredFrame ==
  ASSUME LifecycleInv, UNCHANGED <<config, cancelled, made, field>>,
         \A d \in Services :
           \/ state'[d] = state[d]
           \/ state[d] = "running" /\ state'[d] = "stopped" /\ cancelled
           \/ d \in Parsers /\ state'[d] = "failed"
  PROVE  Exposed' /\ Wired'
<1>1. \A d : Needs(d)' = Needs(d)
  BY DEF Needs
<1>2. \A f \in Fields : f[1] \in Services /\ f[2] \in Services /\ f[2] \notin Parsers
  BY FieldsAre
<1>3. Exposed'
  BY <1>2 DEF LifecycleInv, Exposed
<1>4. Wired'
  BY <1>1, <1>2 DEF LifecycleInv, Wired
<1> QED BY <1>3, <1>4

\* Steps of a process that goes on.
LEMMA OverFrame ==
  ASSUME main # "ended", UNCHANGED main
  PROVE  Over'
  BY DEF Over

LEMMA RunningIsAlive ==
  ASSUME LifecycleInv, NEW s \in Services, state[s] = "running"
  PROVE  main # "ended"
  BY DEF LifecycleInv, Over, Stopped

\* A parser reads the listeners, of which it is not one.
LEMMA ReadListenersInv ==
  ASSUME LifecycleInv, NEW p \in Parsers, ReadListeners(p)
  PROVE  LifecycleInv'
<1>1. /\ state[p] = "running" /\ parser[p].at = "registers"
      /\ parser' = [parser EXCEPT ![p].at = "appends", ![p].read = sync.listeners]
      /\ UNCHANGED <<mainVars, state, made, field, storeVars, sync>>
  BY DEF ReadListeners, At
<1>2. sync \in SyncType /\ parser \in [Parsers -> ParserType]
  BY DEF LifecycleInv, Typed
<1>3. /\ parser'[p].at = "appends" /\ parser'[p].read = sync.listeners
      /\ parser'[p].links = parser[p].links
      /\ \A q \in Parsers : q # p => parser'[q] = parser[q]
      /\ parser' \in [Parsers -> ParserType]
  BY <1>1, <1>2 DEF SyncType, ParserType
<1>4. Typed'
  BY <1>1, <1>3 DEF LifecycleInv, Typed, mainVars, storeVars
<1>5. Exposed' /\ Wired'
  BY <1>1, WiredFrame DEF mainVars
<1>6. Over' /\ Idle'
  BY <1>1, <1>3, OverFrame, RunningIsAlive, FieldsAre DEF LifecycleInv, Idle, mainVars
<1>7. Registered'
  <2>1. \A q \in Parsers : NotYet(q)' => NotYet(q)
    BY <1>1, <1>3 DEF NotYet, mainVars
  <2> QED BY <1>1, <1>3, <2>1 DEF LifecycleInv, Registered
<1>8. Synced'
  <2>1. \A q \in Parsers : Due(q)' = Due(q) /\ Kept(q)' = Kept(q)
    BY <1>1, <1>3 DEF Due, Kept, storeVars
  <2>2. sync.early \subseteq Parsers
    BY <1>2 DEF SyncType
  <2> QED BY <1>1, <2>1, <2>2 DEF LifecycleInv, Synced
<1> QED BY <1>4, <1>5, <1>6, <1>7, <1>8 DEF LifecycleInv

\* It stores them with itself.  Another one that is about to do so has read nothing, and
\* before the first poll there is nothing to have stored.
LEMMA AddListenerInv ==
  ASSUME LifecycleInv, NEW p \in Parsers, AddListener(p)
  PROVE  LifecycleInv'
<1>1. /\ state[p] = "running" /\ parser[p].at = "appends"
      /\ parser' = [parser EXCEPT ![p] = Listening]
      /\ sync' = [sync EXCEPT !.listeners = Append(parser[p].read, p),
                              !.early = IF sync.polled THEN @ ELSE @ \cup {p}]
      /\ UNCHANGED <<mainVars, state, made, field, storeVars>>
  BY DEF AddListener, At
<1>2. sync \in SyncType /\ parser \in [Parsers -> ParserType]
  BY DEF LifecycleInv, Typed
<1>3. PICK read \in Seq(Parsers) : read = parser[p].read
  BY <1>2 DEF ParserType
<1>4. /\ Append(read, p) \in Seq(Parsers)
      /\ ToSet(Append(read, p)) = ToSet(read) \cup {p}
  BY <1>3, AppendToSet
<1>5. /\ sync'.listeners = Append(read, p)
      /\ sync'.early = IF sync.polled THEN sync.early ELSE sync.early \cup {p}
      /\ sync'.cursor = sync.cursor /\ sync'.sending = sync.sending
      /\ sync'.polled = sync.polled /\ sync'.page = sync.page
      /\ sync' \in SyncType
  BY <1>1, <1>2, <1>3, <1>4 DEF SyncType
<1>6. /\ parser'[p] = Listening
      /\ \A q \in Parsers : q # p => parser'[q] = parser[q]
      /\ parser' \in [Parsers -> ParserType]
  BY <1>1, <1>2, NewParserType
<1>7. Typed'
  BY <1>1, <1>5, <1>6 DEF LifecycleInv, Typed, mainVars, storeVars
<1>8. Exposed' /\ Wired'
  BY <1>1, WiredFrame DEF mainVars
<1>9. Over' /\ Idle'
  BY <1>1, <1>6, OverFrame, RunningIsAlive, FieldsAre, NewParserType
  DEF LifecycleInv, Idle, mainVars
<1>10. /\ NotYet(p) /\ p \notin ToSet(read) /\ p \notin sync.early
       /\ IsInjective(read) /\ ToSet(read) \subseteq ToSet(sync.listeners)
  BY <1>1, <1>3 DEF LifecycleInv, Registered, NotYet
<1>11. Registered'
  <2>1. \A q \in Parsers : NotYet(q)' => NotYet(q) /\ q # p
    BY <1>1, <1>6, NewParserType DEF NotYet, mainVars
  <2>2. IsInjective(sync'.listeners)
    BY <1>3, <1>5, <1>10, AppendNew
  <2>3. ASSUME NEW q \in Parsers
        PROVE  /\ IsInjective(parser'[q].read)
               /\ parser'[q].at = "appends" => ToSet(parser'[q].read) \subseteq ToSet(sync'.listeners)
    <3>1. CASE q = p
      BY <1>6, <3>1, NewParserType, EmptySequence
    <3>2. CASE q # p
      <4>1. parser'[q] = parser[q] /\ IsInjective(parser[q].read)
        BY <1>6, <3>2 DEF LifecycleInv, Registered
      <4>2. ASSUME parser[q].at = "appends" PROVE ToSet(parser[q].read) = {}
        <5>1. state[q] = "running"
          BY <4>2, NewParserType DEF LifecycleInv, Idle
        <5>2. q \notin ToSet(parser[q].read) /\ p \notin ToSet(parser[q].read)
          BY <1>10, <4>2, <5>1 DEF LifecycleInv, Registered, NotYet
        <5>3. ToSet(parser[q].read) \subseteq Parsers
          <6>1. parser[q].read \in Seq(Parsers)
            BY <1>2 DEF ParserType
          <6> QED BY <6>1 DEF ToSet
        <5> QED BY <3>2, <5>2, <5>3, FieldsAre
      <4> QED BY <4>1, <4>2
    <3> QED BY <3>1, <3>2
  <2>4. ASSUME NEW q \in Parsers, NotYet(q)'
        PROVE  /\ q \notin ToSet(sync'.listeners) /\ q \notin sync'.early
               /\ \A r \in Parsers : q \notin ToSet(parser'[r].read)
    <3>1. /\ q # p /\ q \notin sync.early
          /\ \A r \in Parsers : q \notin ToSet(parser[r].read)
      BY <2>1, <2>4 DEF LifecycleInv, Registered
    <3> QED BY <1>3, <1>4, <1>5, <1>6, <3>1, NewParserType, EmptySequence
  <2> QED BY <2>2, <2>3, <2>4 DEF Registered
<1>12. Synced'
  <2>1. ~ sync.polled => sync.cursor = 0
    BY <1>1 DEF LifecycleInv, Synced
  <2>2. ASSUME NEW q \in sync'.early \cap ToSet(sync'.listeners), state'[q] = "running"
        PROVE  (1 .. sync'.cursor) \ Due(q)' \subseteq Kept(q)'
    <3>1. CASE q = p
      <4>1. sync'.cursor = 0
        BY <1>5, <1>10, <2>1, <2>2, <3>1
      <4> QED BY <4>1
    <3>2. CASE q # p
      <4>1. q \in sync.early \cap ToSet(sync.listeners) /\ q \in Parsers /\ state[q] = "running"
        BY <1>1, <1>2, <1>4, <1>5, <1>10, <2>2, <3>2 DEF SyncType
      <4>2. Due(q)' = Due(q) /\ Kept(q)' = Kept(q)
        BY <1>1, <1>5, <1>6, <3>2, <4>1 DEF Due, Kept, storeVars
      <4> QED BY <1>5, <4>1, <4>2 DEF LifecycleInv, Synced
    <3> QED BY <3>1, <3>2
  <2> QED BY <1>1, <1>5, <2>1, <2>2 DEF Synced
<1> QED BY <1>7, <1>8, <1>9, <1>11, <1>12 DEF LifecycleInv

\* A poll: a page is due for all listeners.
LEMMA PollInv ==
  ASSUME LifecycleInv, Poll
  PROVE  LifecycleInv'
<1>1. PICK last \in sync.cursor + 1 .. MaxLinks :
        sync' = [sync EXCEPT !.cursor = last, !.sending = sync.listeners, !.polled = TRUE,
                   !.page = IF sync.listeners = <<>> THEN {} ELSE sync.cursor + 1 .. last]
  BY DEF Poll
<1>2. /\ state["livesync"] = "running" /\ sync.sending = <<>>
      /\ UNCHANGED <<mainVars, state, made, field, storeVars, parser>>
  BY DEF Poll
<1>3. sync \in SyncType
  BY DEF LifecycleInv, Typed
<1>4. PICK page \in SUBSET Links :
        /\ page = IF sync.listeners = <<>> THEN {} ELSE sync.cursor + 1 .. last
        /\ sync' = [sync EXCEPT !.cursor = last, !.sending = sync.listeners, !.polled = TRUE,
                                !.page = page]
  <2>1. sync.cursor \in 0 .. MaxLinks
    BY <1>3 DEF SyncType
  <2>2. sync.cursor + 1 .. last \subseteq Links
    BY <1>1, <2>1 DEF Links
  <2>3. (IF sync.listeners = <<>> THEN {} ELSE sync.cursor + 1 .. last) \in SUBSET Links
    BY <2>2
  <2> QED BY <1>1, <2>3
<1>5. /\ sync'.cursor = last /\ sync'.sending = sync.listeners
      /\ sync'.listeners = sync.listeners
      /\ sync'.polled = TRUE /\ sync'.early = sync.early /\ sync'.page = page
      /\ sync.cursor \in 0 .. MaxLinks /\ last \in 0 .. MaxLinks
      /\ sync' \in SyncType
  <2>1. sync.cursor \in 0 .. MaxLinks /\ last \in 0 .. MaxLinks
    BY <1>1, <1>3 DEF SyncType
  <2> QED BY <1>3, <1>4, <2>1 DEF SyncType
<1>6. Typed'
  BY <1>2, <1>5 DEF LifecycleInv, Typed, mainVars, storeVars
<1>7. Exposed' /\ Wired'
  BY <1>2, WiredFrame DEF mainVars
<1>8. Over' /\ Idle'
  BY <1>2, OverFrame, RunningIsAlive, FieldsAre DEF LifecycleInv, Idle, mainVars
<1>9. Registered'
  <2>1. \A p \in Parsers : NotYet(p)' = NotYet(p)
    BY <1>2 DEF NotYet, mainVars
  <2> QED BY <1>2, <1>5, <2>1 DEF LifecycleInv, Registered
<1>10. Synced'
  <2>1. ASSUME NEW p \in sync.early \cap ToSet(sync.listeners), state[p] = "running"
        PROVE  (1 .. last) \ Due(p)' \subseteq Kept(p)'
    <3>1. (1 .. sync.cursor) \ parser[p].links \subseteq Kept(p)
      <4>1. Due(p) = parser[p].links
        BY <1>2, EmptySequence DEF Due
      <4> QED BY <2>1, <4>1 DEF LifecycleInv, Synced
    <3>2. sync.listeners # <<>>
      BY <2>1, EmptySequence
    <3>3. Due(p)' = parser[p].links \cup (sync.cursor + 1 .. last)
      BY <1>2, <1>4, <1>5, <2>1, <3>2 DEF Due
    <3>4. Kept(p)' = Kept(p)
      BY <1>2 DEF Kept, storeVars
    <3> QED BY <1>5, <3>1, <3>3, <3>4
  <2> QED BY <1>2, <1>5, <2>1 DEF Synced
<1> QED BY <1>6, <1>7, <1>8, <1>9, <1>10 DEF LifecycleInv

\* A parser receives: what was due from livesync is now due from itself.
LEMMA ReceiveInv ==
  ASSUME LifecycleInv, Receive
  PROVE  LifecycleInv'
<1>0. sync \in SyncType /\ parser \in [Parsers -> ParserType]
  BY DEF LifecycleInv, Typed
<1>1. PICK p \in Parsers, rest \in Seq(Parsers) :
        /\ p = Head(sync.sending) /\ rest = Tail(sync.sending)
        /\ \A q \in ToSet(sync.sending) : q = p \/ q \in ToSet(rest)
  <2>1. sync.sending \in Seq(Parsers) /\ sync.sending # <<>>
    BY <1>0 DEF SyncType, Receive
  <2> QED BY <2>1, TailToSet
<1>2. /\ state[p] = "running" /\ parser[p].at = "listens"
      /\ sync' = [sync EXCEPT !.sending = rest, !.page = IF rest = <<>> THEN {} ELSE @]
      /\ parser' = [parser EXCEPT ![p] = Saving(sync.page)]
      /\ UNCHANGED <<mainVars, state, made, field, storeVars>>
  BY <1>1 DEF Receive, At
<1>3. PICK page \in SUBSET Links : page = sync.page
  BY <1>0 DEF SyncType
<1>4. /\ sync'.sending = rest /\ sync'.page = (IF rest = <<>> THEN {} ELSE page)
      /\ sync'.listeners = sync.listeners /\ sync'.early = sync.early
      /\ sync'.cursor = sync.cursor /\ sync'.polled = sync.polled
      /\ sync' \in SyncType
  BY <1>0, <1>1, <1>2, <1>3 DEF SyncType
<1>5. /\ parser'[p] = Saving(page)
      /\ \A q \in Parsers : q # p => parser'[q] = parser[q]
      /\ parser' \in [Parsers -> ParserType]
  BY <1>0, <1>2, <1>3, SavingType
<1>6. Typed'
  BY <1>2, <1>4, <1>5 DEF LifecycleInv, Typed, mainVars, storeVars
<1>7. Exposed' /\ Wired'
  BY <1>2, WiredFrame DEF mainVars
<1>8. Over' /\ Idle'
  BY <1>2, <1>3, <1>5, OverFrame, RunningIsAlive, FieldsAre, SavingType
  DEF LifecycleInv, Idle, mainVars
<1>9. Registered'
  <2>1. \A q \in Parsers : NotYet(q)' => NotYet(q)
    BY <1>2, <1>3, <1>5, SavingType DEF NotYet, mainVars
  <2> QED BY <1>2, <1>3, <1>4, <1>5, <2>1, SavingType, EmptySequence DEF LifecycleInv, Registered
<1>10. Synced'
  <2>1. ASSUME NEW q \in sync.early \cap ToSet(sync.listeners), state[q] = "running"
        PROVE  (1 .. sync.cursor) \ Due(q)' \subseteq Kept(q)'
    <3>1. q \in Parsers /\ (1 .. sync.cursor) \ Due(q) \subseteq Kept(q)
      BY <1>0, <2>1 DEF SyncType, LifecycleInv, Synced
    <3>2. Kept(q)' = Kept(q)
      BY <1>2 DEF Kept, storeVars
    <3>3. Due(q) \subseteq Due(q)'
      <4>1. CASE q = p
        <5>1. parser[q].links = {} /\ parser'[q].links = page
          BY <1>2, <1>3, <1>5, <4>1, SavingType DEF LifecycleInv, Idle
        <5> QED BY <1>3, <5>1 DEF Due
      <4>2. CASE q # p
        <5>1. parser'[q] = parser[q]
          BY <1>5, <3>1, <4>2
        <5>2. q \in ToSet(sync.sending) => q \in ToSet(rest) /\ rest # <<>>
          BY <1>1, <4>2, EmptySequence
        <5>3. q \in ToSet(sync.sending) => q \in ToSet(sync'.sending) /\ sync'.page = sync.page
          BY <1>3, <1>4, <5>2
        <5> QED BY <5>1, <5>3 DEF Due
      <4> QED BY <4>1, <4>2
    <3> QED BY <3>1, <3>2, <3>3
  <2> QED BY <1>2, <1>4, <2>1 DEF LifecycleInv, Synced
<1> QED BY <1>6, <1>7, <1>8, <1>9, <1>10 DEF LifecycleInv

\* A parser has stored what was due from itself, or a part of it.
LEMMA SaveFrame ==
  ASSUME LifecycleInv, NEW p \in Parsers, NEW new \in SUBSET Links, NEW r \in ParserType,
         state[p] = "running",
         r.at \in {"listens", "saves"}, r.at = "listens" => r.links = {}, r.read = <<>>,
         parser[p].links \subseteq r.links \cup new,
         parser' = [parser EXCEPT ![p] = r],
         memory' \in [Objects -> SUBSET Links], index' \in [Objects -> SUBSET Links],
         disk' \subseteq Links,
         \A q \in Parsers : Kept(q) \subseteq Kept(q)',
         new \subseteq Kept(p)',
         UNCHANGED <<mainVars, state, made, field, onDisk, sync>>
  PROVE  LifecycleInv'
<1>1. parser \in [Parsers -> ParserType] /\ sync \in SyncType
  BY DEF LifecycleInv, Typed
<1>2. /\ parser'[p] = r
      /\ \A q \in Parsers : q # p => parser'[q] = parser[q]
      /\ parser' \in [Parsers -> ParserType]
  BY <1>1
<1>3. Typed'
  BY <1>2 DEF LifecycleInv, Typed, mainVars
<1>4. Exposed' /\ Wired'
  BY WiredFrame DEF mainVars
<1>5. Over' /\ Idle'
  BY <1>2, OverFrame, RunningIsAlive, FieldsAre DEF LifecycleInv, Idle, mainVars
<1>6. Registered'
  <2>1. \A q \in Parsers : NotYet(q)' => NotYet(q)
    BY <1>2 DEF NotYet, mainVars
  <2> QED BY <1>2, <2>1, EmptySequence DEF LifecycleInv, Registered
<1>7. Synced'
  <2>1. ASSUME NEW q \in sync.early \cap ToSet(sync.listeners), state[q] = "running"
        PROVE  (1 .. sync.cursor) \ Due(q)' \subseteq Kept(q)'
    <3>1. q \in Parsers /\ (1 .. sync.cursor) \ Due(q) \subseteq Kept(q)
      BY <1>1, <2>1 DEF SyncType, LifecycleInv, Synced
    <3>2. Due(q) \subseteq Due(q)' \cup Kept(q)'
      BY <1>2, <3>1 DEF Due
    <3> QED BY <3>1, <3>2
  <2> QED BY <2>1 DEF LifecycleInv, Synced
<1> QED BY <1>3, <1>4, <1>5, <1>6, <1>7 DEF LifecycleInv

\* The store that it stores into is the one of this boot.
LEMMA SaveInv ==
  ASSUME LifecycleInv, SaveLink \/ SaveSegments
  PROVE  LifecycleInv'
<1>1. /\ parser \in [Parsers -> ParserType] /\ New \in Objects
      /\ memory \in [Objects -> SUBSET Links] /\ index \in [Objects -> SUBSET Links]
      /\ disk \subseteq Links
  BY DEF LifecycleInv, Typed, Objects
<1>2. "parser" \in Parsers /\ "bleveparser" \in Parsers
  BY DEF Parsers
<1>3. CASE SaveLink
  <2>1. state["parser"] = "running" /\ UNCHANGED <<mainVars, state, made, field, index, disk, onDisk, sync>>
    BY <1>3 DEF SaveLink, At
  <2>2. field[<<"parser", "memorystore">>] = New
    BY <2>1, ParsersNeed DEF LifecycleInv, Wired, Fields
  <2>3. PICK links \in SUBSET Links : links = parser["parser"].links
    BY <1>1, <1>2 DEF ParserType
  <2>4. PICK l \in links :
          /\ memory' = [memory EXCEPT ![New] = @ \cup {l}]
          /\ parser' = [parser EXCEPT !["parser"] =
                          IF links = {l} THEN Listening ELSE Saving(links \ {l})]
    BY <1>3, <2>2, <2>3 DEF SaveLink
  <2>5. PICK r \in ParserType :
          /\ r = IF links = {l} THEN Listening ELSE Saving(links \ {l})
          /\ r.at \in {"listens", "saves"} /\ (r.at = "listens" => r.links = {})
          /\ r.read = <<>> /\ r.links = links \ {l}
    BY NewParserType, SavingType
  <2>6. \A q \in Parsers : Kept(q) \subseteq Kept(q)'
    BY <1>1, <2>1, <2>4 DEF Kept
  <2>7. {l} \subseteq Kept("parser")'
    BY <1>1, <2>4 DEF Kept
  <2>8. memory' \in [Objects -> SUBSET Links]
    BY <1>1, <2>4
  <2>9. {l} \in SUBSET Links /\ parser["parser"].links \subseteq r.links \cup {l}
    BY <2>3, <2>5
  <2> QED BY <1>1, <1>2, <2>1, <2>4, <2>5, <2>6, <2>7, <2>8, <2>9, SaveFrame
<1>4. CASE SaveSegments
  <2>1. /\ state["bleveparser"] = "running"
        /\ parser' = [parser EXCEPT !["bleveparser"] = Listening]
        /\ UNCHANGED <<mainVars, state, made, field, memory, onDisk, sync>>
    BY <1>4 DEF SaveSegments, At
  <2>2. field[<<"bleveparser", "blevestore">>] = New
    BY <2>1, ParsersNeed DEF LifecycleInv, Wired, Fields
  <2>3. PICK links \in SUBSET Links : links = parser["bleveparser"].links
    BY <1>1, <1>2 DEF ParserType
  <2>4. IF New \in onDisk
        THEN disk' = disk \cup links /\ UNCHANGED index
        ELSE index' = [index EXCEPT ![New] = @ \cup links] /\ UNCHANGED disk
    BY <1>4, <2>2, <2>3 DEF SaveSegments
  <2>5. \A q \in Parsers : Kept(q) \subseteq Kept(q)'
    BY <1>1, <2>1, <2>4 DEF Kept
  <2>6. links \subseteq Kept("bleveparser")'
    BY <1>1, <2>1, <2>4 DEF Kept
  <2>7. disk' \subseteq Links /\ index' \in [Objects -> SUBSET Links] /\ memory' = memory
    BY <1>1, <2>1, <2>4
  <2> QED BY <1>1, <1>2, <2>1, <2>3, <2>5, <2>6, <2>7, NewParserType, SaveFrame
<1> QED BY <1>3, <1>4

\* A service leaves: a parser that failed, or any when the boot is cancelled.
LEMMA LeaveInv ==
  ASSUME LifecycleInv,
         StopWaiting \/ (\E p \in Parsers : SaveFails(p))
           \/ \E s \in Parsers \cup {"livesync"} : Stop(s)
  PROVE  LifecycleInv'
<1>0. state \in [Services -> States] /\ parser \in [Parsers -> ParserType] /\ sync \in SyncType
  BY DEF LifecycleInv, Typed
<1>1. UNCHANGED <<mainVars, made, field, storeVars, sync>>
  BY DEF StopWaiting, SaveFails, Stop
<1>2. /\ state' \in [Services -> States]
      /\ parser' \in [Parsers -> ParserType]
      /\ main # "ended"
      /\ \A d \in Services :
           \/ state'[d] = state[d]
           \/ state[d] = "running" /\ state'[d] = "stopped" /\ cancelled
           \/ d \in Parsers /\ state'[d] = "failed"
      /\ \A p \in Parsers : \/ state'[p] = state[p] /\ parser'[p] = parser[p]
                            \/ state'[p] \in {"stopped", "failed"} /\ parser'[p] = NewParser
  <2>1. CASE StopWaiting
    <3>1. PICK running \in SUBSET Services :
            /\ running = {s \in Waiting : state[s] = "running"}
            /\ running # {} /\ cancelled /\ parser' = parser
            /\ state' = [s \in Services |-> IF s \in running THEN "stopped" ELSE state[s]]
      BY <2>1 DEF StopWaiting, Waiting, Services
    <3>2. \A s \in running : state[s] = "running" /\ s \notin Parsers
      BY <3>1 DEF Waiting, Parsers
    <3> QED BY <1>0, <3>1, <3>2, RunningIsAlive, FieldsAre DEF States
  <2>2. ASSUME NEW p \in Parsers, SaveFails(p)
        PROVE  /\ state' = [state EXCEPT ![p] = "failed"] /\ state[p] = "running"
               /\ parser' = [parser EXCEPT ![p] = NewParser]
    BY <2>2 DEF SaveFails, At
  <2>3. ASSUME NEW s \in Parsers \cup {"livesync"}, Stop(s)
        PROVE  /\ state' = [state EXCEPT ![s] = "stopped"] /\ state[s] = "running" /\ cancelled
               /\ parser' = [p \in Parsers |-> IF p = s THEN NewParser ELSE parser[p]]
    BY <2>3 DEF Stop
  <2>4. CASE \E p \in Parsers : SaveFails(p)
    BY <1>0, <2>2, <2>4, RunningIsAlive, FieldsAre, NewParserType DEF States
  <2>5. CASE \E s \in Parsers \cup {"livesync"} : Stop(s)
    BY <1>0, <2>3, <2>5, RunningIsAlive, FieldsAre, NewParserType DEF States
  <2> QED BY <2>1, <2>4, <2>5
<1>3. Typed'
  BY <1>1, <1>2 DEF LifecycleInv, Typed, mainVars, storeVars
<1>4. Exposed' /\ Wired'
  BY <1>1, <1>2, WiredFrame DEF mainVars
<1>5. Over' /\ Idle'
  BY <1>1, <1>2, OverFrame, NewParserType DEF LifecycleInv, Idle, mainVars
<1>6. Registered'
  <2>1. ASSUME NEW p \in Parsers, NotYet(p)' PROVE NotYet(p)
    BY <1>1, <1>2, <2>1, FieldsAre DEF NotYet, mainVars
  <2>2. \A p \in Parsers : parser'[p] = parser[p] \/ parser'[p] = NewParser
    BY <1>2
  <2> QED BY <1>1, <2>1, <2>2, NewParserType, EmptySequence DEF LifecycleInv, Registered
<1>7. Synced'
  <2>1. \A s \in Parsers \cup {"livesync"} : state'[s] = "running" => state[s] = "running"
    BY <1>2, FieldsAre
  <2>2. ASSUME NEW p \in sync.early \cap ToSet(sync.listeners), state'[p] = "running"
        PROVE  (1 .. sync.cursor) \ Due(p)' \subseteq Kept(p)'
    <3>1. p \in Parsers /\ state[p] = "running" /\ parser'[p] = parser[p]
      BY <1>0, <1>2, <2>2 DEF SyncType
    <3>2. Due(p)' = Due(p) /\ Kept(p)' = Kept(p)
      BY <1>1, <3>1 DEF Due, Kept, storeVars
    <3> QED BY <2>2, <3>1, <3>2 DEF LifecycleInv, Synced
  <2> QED BY <1>1, <2>1, <2>2 DEF LifecycleInv, Synced
<1> QED BY <1>3, <1>4, <1>5, <1>6, <1>7 DEF LifecycleInv

-----------------------------------------------------------------------------
(* The configuration of the log.                                           *)

\* A hook of the logger: the boot that set it, and the position of its writer.
Hooks == Boots \X (Nat \ {0})

\* The writers, among the first n of those configured, that a line of the level goes to.
Writers(level, n) == {<<boot, i>> : i \in {i \in 1 .. n : Fires(config.writers[i], level)}}

\* While SetConfig goes on, the hooks are those of the writers that it has added, one each.
Added(level) ==
  /\ IsInjective(hooks[level])
  /\ ToSet(hooks[level]) = Writers(level, added)

ConfigInv ==
  /\ config \in Files
  /\ boot \in Boots
  /\ hooks \in [Levels -> Seq(Hooks)]
  /\ added \in 0 .. Len(config.writers)
  /\ signalled \in BOOLEAN /\ loaded \in BOOLEAN /\ cancelled \in BOOLEAN
  /\ main \in {"starting", "loading", "running", "reloading", "ended"}
  /\ main \in {"running", "reloading"} => added = Len(config.writers)
  /\ \A level \in Levels : Added(level)

\* SetConfig drops the hooks of the boot before.
LEMMA ResetHooksInv ==
  ASSUME config' \in Files, added' = 0,
         DOMAIN hooks' = Levels, hooks' = [level \in Levels |-> <<>>]
  PROVE  /\ hooks' \in [Levels -> Seq(Hooks)]
         /\ added' \in 0 .. Len(config'.writers)
         /\ \A level \in Levels : Added(level)'
<1>1. config'.writers \in Seq(Levels \cup {BadWriter})
  BY FilesAssumption
<1>2. hooks' \in [Levels -> Seq(Hooks)] /\ added' \in 0 .. Len(config'.writers)
  BY <1>1
<1>3. ASSUME NEW level \in Levels PROVE Added(level)'
  <2>1. hooks'[level] = <<>>
    OBVIOUS
  <2>2. IsInjective(hooks'[level]) /\ ToSet(hooks'[level]) = {}
    BY <2>1 DEF IsInjective, ToSet
  <2>3. Writers(level, added)' = {}
    BY DEF Writers
  <2> QED BY <2>2, <2>3 DEF Added
<1> QED BY <1>2, <1>3

\* A new process, and a reload.
LEMMA LoadConfigInv ==
  ASSUME ConfigInv, Reload \/ Restart
  PROVE  ConfigInv'
<1>1. /\ config' \in Files /\ added' = 0 /\ hooks' = [level \in Levels |-> <<>>]
      /\ loaded' = TRUE /\ cancelled' = FALSE /\ main' \in {"starting", "loading"}
      /\ signalled' \in BOOLEAN
      /\ boot' \in Boots
  <2>1. boot \in Boots /\ DOMAIN hooks = Levels /\ DOMAIN NoHooks = Levels
        /\ signalled \in BOOLEAN
    BY DEF ConfigInv, NoHooks
  <2>2. boot' \in Boots
    BY <2>1 DEF Reload, Restart, Boots
  <2>3. CASE Reload
    BY <2>1, <2>2, <2>3 DEF Reload, LoadConfig, ResetHooks
  <2>4. CASE Restart
    BY <2>1, <2>2, <2>4 DEF Restart, LoadConfig, ResetHooks
  <2> QED BY <2>3, <2>4
<1>2. DOMAIN hooks' = Levels
  BY <1>1
<1> QED BY <1>1, <1>2, ResetHooksInv DEF ConfigInv

\* A writer gets a hook for each of its levels: its first.
LEMMA AddHookInv ==
  ASSUME ConfigInv, AddHook
  PROVE  ConfigInv'
<1> DEFINE n == added + 1
           hook == <<boot, n>>
<1>1. /\ added < Len(config.writers) /\ added' = n
      /\ hooks' = [level \in Levels |-> IF Fires(config.writers[n], level)
                                         THEN Append(hooks[level], hook) ELSE hooks[level]]
      /\ main \in {"starting", "loading"}
      /\ UNCHANGED <<config, signalled, loaded, main, cancelled, boot>>
  BY DEF AddHook, Loading, Writer
<1>2. /\ config.writers \in Seq(Levels \cup {BadWriter})
      /\ added \in Nat /\ Len(config.writers) \in Nat
      /\ hooks \in [Levels -> Seq(Hooks)] /\ boot \in Boots
  BY FilesAssumption DEF ConfigInv
<1>3. hook \in Hooks /\ n \in Nat
  BY <1>2 DEF Hooks
<1>4. added' \in 0 .. Len(config'.writers)
  BY <1>1, <1>2
<1>5. ASSUME NEW level \in Levels
      PROVE  hooks'[level] \in Seq(Hooks) /\ Added(level)'
  <2>1. Added(level) /\ hooks[level] \in Seq(Hooks)
    BY <1>2 DEF ConfigInv
  <2>2. ToSet(hooks[level]) = Writers(level, added)
    BY <2>1 DEF Added
  <2>3. CASE Fires(config.writers[n], level)
    <3>1. hooks'[level] = Append(hooks[level], hook)
      BY <1>1, <2>3
    <3>2. hook \notin ToSet(hooks[level])
      <4>1. \A i \in 1 .. added : i # n
        BY <1>2
      <4> QED BY <2>2, <4>1 DEF Writers
    <3>3. Writers(level, added)' = Writers(level, added) \cup {hook}
      <4>1. Writers(level, added)' = {<<boot, i>> : i \in {i \in 1 .. n : Fires(config.writers[i], level)}}
        BY <1>1 DEF Writers
      <4>2. {i \in 1 .. n : Fires(config.writers[i], level)}
              = {i \in 1 .. added : Fires(config.writers[i], level)} \cup {n}
        BY <1>2, <2>3
      <4> HIDE DEF n
      <4> QED BY <4>1, <4>2 DEF Writers
    <3> HIDE DEF hook
    <3>4. Append(hooks[level], hook) \in Seq(Hooks)
          /\ ToSet(Append(hooks[level], hook)) = ToSet(hooks[level]) \cup {hook}
      BY <1>3, <2>1, AppendToSet
    <3>5. IsInjective(Append(hooks[level], hook))
      <4>1. IsInjective(hooks[level])
        BY <2>1 DEF Added
      <4> QED BY <1>3, <2>1, <3>2, <4>1, AppendNew
    <3> QED BY <2>2, <3>1, <3>3, <3>4, <3>5 DEF Added
  <2>4. CASE ~ Fires(config.writers[n], level)
    <3>1. hooks'[level] = hooks[level]
      BY <1>1, <2>4
    <3>2. Writers(level, added)' = {<<boot, i>> : i \in {i \in 1 .. n : Fires(config.writers[i], level)}}
      BY <1>1 DEF Writers
    <3>3. {i \in 1 .. n : Fires(config.writers[i], level)}
            = {i \in 1 .. added : Fires(config.writers[i], level)}
      BY <1>2, <2>4
    <3>4. Writers(level, added)' = Writers(level, added)
      BY ONLY <3>2, <3>3 DEF Writers
    <3> QED BY <2>1, <3>1, <3>4 DEF Added
  <2> QED BY <2>3, <2>4
<1>6. hooks' \in [Levels -> Seq(Hooks)]
  BY <1>1, <1>5
<1> QED BY <1>1, <1>4, <1>5, <1>6 DEF ConfigInv

\* The other steps of main, and those of the services, leave the hooks.
LEMMA ConfigFrame ==
  ASSUME ConfigInv, UNCHANGED <<config, boot, hooks, added>>,
         signalled' \in BOOLEAN, loaded' \in BOOLEAN, cancelled' \in BOOLEAN,
         main' \in {"starting", "loading", "running", "reloading", "ended"},
         main' \in {"running", "reloading"} => added = Len(config.writers)
  PROVE  ConfigInv'
  BY DEF ConfigInv, Added, Writers

LEMMA ConfigInvHolds == Spec => []ConfigInv
<1>1. Init => ConfigInv
  <2> SUFFICES ASSUME Init PROVE ConfigInv
    OBVIOUS
  <2>1. config.writers \in Seq(Levels \cup {BadWriter})
    BY FilesAssumption DEF Init
  <2>2. ASSUME NEW level \in Levels PROVE Added(level)
    <3>1. hooks[level] = <<>> /\ added = 0
      BY DEF Init, NoHooks
    <3> QED BY <3>1 DEF Added, Writers, IsInjective, ToSet
  <2>3. hooks \in [Levels -> Seq(Hooks)]
    BY DEF Init, NoHooks
  <2>4. /\ config \in Files /\ boot \in Boots /\ added = 0 /\ main = "starting"
        /\ signalled = FALSE /\ loaded = TRUE /\ cancelled = FALSE
    BY BoundsAssumption DEF Init, Boots
  <2>5. added \in 0 .. Len(config.writers)
    BY <2>1, <2>4
  <2> QED BY <2>2, <2>3, <2>4, <2>5 DEF ConfigInv
<1>2. ConfigInv /\ [Next]_vars => ConfigInv'
  <2> SUFFICES ASSUME ConfigInv, [Next]_vars PROVE ConfigInv'
    OBVIOUS
  <2>1. CASE Reload \/ Restart
    BY <2>1, LoadConfigInv
  <2>2. CASE AddHook
    BY <2>2, AddHookInv
  <2>3. CASE Sighup \/ CancelBoot \/ BootStarts
    <3>1. /\ UNCHANGED <<config, boot, hooks, added>>
          /\ signalled' \in BOOLEAN /\ loaded' \in BOOLEAN /\ cancelled' \in BOOLEAN
          /\ main' \in {"starting", "loading", "running", "reloading", "ended"}
          /\ main' \in {"running", "reloading"} => added = Len(config.writers)
      BY <2>3 DEF ConfigInv, Sighup, CancelBoot, BootStarts
    <3> QED BY <3>1, ConfigFrame
  <2>4. CASE LoadConfigFails \/ StartFails \/ Crash
    <3>1. main' = "ended" /\ UNCHANGED <<config, hooks, added, signalled, loaded, cancelled, boot>>
      BY <2>4 DEF LoadConfigFails, StartFails, Crash, Ends
    <3> QED BY <3>1, ConfigFrame DEF ConfigInv
  <2>5. CASE UNCHANGED mainVars
    BY <2>5, ConfigFrame DEF ConfigInv, mainVars
  <2>6. ASSUME NEW p \in Parsers, ParserRuns(p) PROVE UNCHANGED mainVars
    BY <2>6 DEF ParserRuns, ReadListeners, AddListener, SaveLink, SaveSegments, SaveFails
  <2>7. ASSUME NEW s \in Parsers \cup {"livesync"}, Stop(s) PROVE UNCHANGED mainVars
    BY <2>7 DEF Stop
  <2>8. CASE \/ StartDecryption \/ StartClient \/ StartLivesync \/ StartMemorystore
             \/ StartBlevestore \/ NewMemOnly \/ OpenIndex \/ ReopenIndex
             \/ StartParser \/ StartBleveParser \/ StartSearch
             \/ Poll \/ Receive \/ StopWaiting
    <3>1. UNCHANGED mainVars
      BY <2>8 DEF StartDecryption, StartClient, StartLivesync, StartMemorystore,
         StartBlevestore, NewMemOnly, OpenIndex, ReopenIndex, Opened, StartParser,
         StartBleveParser, StartSearch, Poll, Receive, StopWaiting
    <3> QED BY <2>5, <3>1
  <2> QED BY <2>1, <2>2, <2>3, <2>4, <2>5, <2>6, <2>7, <2>8 DEF Next, Start, Main, vars
<1> QED BY <1>1, <1>2, PTL DEF Spec

-----------------------------------------------------------------------------
(* The theorems.                                                           *)

LEMMA NextInv ==
  ASSUME LifecycleInv, [Next]_vars
  PROVE  LifecycleInv'
<1>1. CASE UNCHANGED vars
  BY <1>1, FrameInv DEF vars, mainVars, storeVars
<1>2. CASE Sighup \/ CancelBoot \/ AddHook \/ BootStarts
  BY <1>2, MainInv
<1>3. CASE LoadConfigFails \/ StartFails \/ Crash \/ Restart
  BY <1>3, ProcessInv
<1>4. CASE Reload
  BY <1>4, ReloadInv
<1>5. CASE StartDecryption \/ StartClient \/ StartSearch
  BY <1>5, StartOtherInv
<1>6. CASE StartLivesync
  BY <1>6, StartLivesyncInv
<1>7. CASE StartMemorystore
  BY <1>7, StartMemorystoreInv
<1>8. CASE StartBlevestore
  BY <1>8, StartBlevestoreInv
<1>9. CASE NewMemOnly \/ OpenIndex \/ ReopenIndex
  BY <1>9, OpenedInv
<1>10. CASE StartParser \/ StartBleveParser
  BY <1>10, StartParserInv
<1>11. CASE Poll
  BY <1>11, PollInv
<1>12. CASE Receive
  BY <1>12, ReceiveInv
<1>13. ASSUME NEW p \in Parsers, ParserRuns(p) PROVE LifecycleInv'
  BY <1>13, ReadListenersInv, AddListenerInv, SaveInv, LeaveInv DEF ParserRuns
<1>14. CASE StopWaiting \/ \E s \in Parsers \cup {"livesync"} : Stop(s)
  BY <1>14, LeaveInv
<1> QED BY <1>1, <1>2, <1>3, <1>4, <1>5, <1>6, <1>7, <1>8, <1>9, <1>10, <1>11, <1>12,
           <1>13, <1>14 DEF Next, Start, Main

LEMMA InvariantHolds == Spec => []LifecycleInv
<1>1. Init => LifecycleInv
  BY InitInv
<1>2. LifecycleInv /\ [Next]_vars => LifecycleInv'
  BY NextInv
<1> QED BY <1>1, <1>2, PTL DEF Spec

\* No reload and no crash leaves a running service with an object of a boot before: each
\* holds what the services it is configured with made in this boot.
THEOREM HoldsThisBoot == Spec => []CurrentWiring
<1>1. LifecycleInv => CurrentWiring
  BY DEF LifecycleInv, Wired, CurrentWiring
<1> QED BY <1>1, InvariantHolds, PTL

\* An answer of the search has all that is in the index, or as many as it may have.
LEMMA FoundIsFull ==
  ASSUME Searched \subseteq Links, NEW hits \in Found
  PROVE  hits = Searched \/ Cardinality(hits) = MaxHits
<1>1. IsFiniteSet(Searched)
  <2>1. IsFiniteSet(Links)
    BY FS_Interval DEF Links
  <2> QED BY <2>1, FS_Subset
<1>2. /\ hits \in SUBSET Searched
      /\ Cardinality(hits) = Cardinality(Searched) \/ Cardinality(hits) = MaxHits
  BY DEF Found
<1> QED BY <1>1, <1>2, FS_Subset

\* After any number of reloads and crashes, whichever way the registrations raced and with
\* parsers that save while livesync polls on, or fail: a parser that registered before the
\* first poll of its boot, and that is still known, has stored all that was polled but what
\* it has yet to receive or is saving, where Search looks for it; and Search returns all of
\* it, or as many links as bleve returns.
THEOREM StoresWhatWasPolled == Spec => []PolledIsStored
<1>1. LifecycleInv => PolledIsStored
  <2> SUFFICES ASSUME LifecycleInv, NEW p \in sync.early \cap ToSet(sync.listeners),
                      state[p] = "running", p \notin ToSet(sync.sending),
                      NEW stored, stored = (1 .. sync.cursor) \ parser[p].links
               PROVE  /\ p = "parser" => stored \subseteq memory[made["memorystore"]]
                      /\ p = "bleveparser" /\ state["search"] = "running" =>
                           /\ stored \subseteq Searched
                           /\ \A hits \in Found :
                                stored \subseteq hits \/ Cardinality(hits) = MaxHits
    BY DEF PolledIsStored
  <2>1. stored \subseteq Kept(p)
    <3>1. Due(p) = parser[p].links
      BY DEF Due
    <3> QED BY <3>1 DEF LifecycleInv, Synced
  <2>2. CASE p = "parser"
    <3>1. made["memorystore"] = New
      BY <2>2, ParsersNeed DEF LifecycleInv, Wired, Fields
    <3> QED BY <2>1, <2>2, <3>1 DEF Kept
  <2>3. CASE p = "bleveparser" /\ state["search"] = "running"
    <3>1. field[<<"search", "blevestore">>] = New
      BY <2>3, ParsersNeed DEF LifecycleInv, Wired, Fields
    <3>2. stored \subseteq Searched
      BY <2>1, <2>3, <3>1 DEF Kept, Searched
    <3>3. Searched \subseteq Links
      BY <3>1 DEF LifecycleInv, Typed, Searched, Objects
    <3>4. \A hits \in Found : stored \subseteq hits \/ Cardinality(hits) = MaxHits
      BY <3>2, <3>3, FoundIsFull
    <3> QED BY <2>3, <3>2, <3>4
  <2> QED BY <2>2, <2>3
<1> QED BY <1>1, InvariantHolds, PTL

\* Whatever the order of polls, registrations, saves, reloads and crashes: every variable
\* stays in its type, and no parser is a listener twice.
THEOREM TypeCorrect == Spec => []TypeOK
<1>1. LifecycleInv /\ ConfigInv => TypeOK
  BY DEF LifecycleInv, Typed, States, SyncType, ParserType, Registered, ConfigInv, Hooks, TypeOK
<1> QED BY <1>1, InvariantHolds, ConfigInvHolds, PTL

\* With any writers and after any number of configurations, some of which ended half-way in
\* a process of their own: a line goes once to each writer of its level of this boot, and to
\* none of a boot before.
THEOREM LinesOnce == Spec => []LinesWrittenOnce
<1>1. ConfigInv => LinesWrittenOnce
  <2> SUFFICES ASSUME ConfigInv, main \in {"running", "reloading"}, NEW level \in Levels
               PROVE  /\ IsInjective(hooks[level])
                      /\ ToSet(hooks[level]) =
                           {<<boot, i>> : i \in {i \in DOMAIN config.writers :
                                                   Fires(config.writers[i], level)}}
    BY DEF LinesWrittenOnce
  <2>1. config.writers \in Seq(Levels \cup {BadWriter})
    BY FilesAssumption DEF ConfigInv
  <2>2. DOMAIN config.writers = 1 .. added
    BY <2>1 DEF ConfigInv
  <2>3. Added(level)
    BY DEF ConfigInv
  <2> QED BY <2>2, <2>3 DEF Added, Writers
<1> QED BY <1>1, ConfigInvHolds, PTL

-----------------------------------------------------------------------------
(* The decryptor of a client.                                              *)

ClientDecryptor == <<"stratumnClient", "decryption">>

\* The operator never takes the decryption service out of the files of a process that goes
\* on (but may put it in, and may do anything when the process is a new one).
KeepsDecryption == [][Reload /\ config.decryption => config'.decryption]_vars

\* Without the name of a decryption service the client has no decryptor, run or not, and
\* nothing is left of a process that has ended.
NoStaleDecryptor ==
  /\ field \in [Fields -> {None} \cup Objects]
  /\ main = "ended" \/ ~ config.decryption => field[ClientDecryptor] = None

LEMMA DecryptorStep ==
  ASSUME Typed, Typed', NoStaleDecryptor, [Next]_vars,
         Reload /\ config.decryption => config'.decryption
  PROVE  NoStaleDecryptor'
<1>0. ClientDecryptor \in Fields /\ ClientDecryptor[1] = "stratumnClient"
      /\ field' \in [Fields -> {None} \cup Objects]
  BY DEF ClientDecryptor, Fields, Typed
<1>1. CASE UNCHANGED <<config, field>> /\ (main' = "ended" => main = "ended")
  BY <1>1 DEF NoStaleDecryptor
<1>2. CASE Reload
  <2>1. /\ field'[ClientDecryptor] = Age(field[ClientDecryptor]) /\ main' = "loading"
        /\ config.decryption => config'.decryption
    BY <1>0, <1>2 DEF Reload, Keep
  <2>2. ~ config'.decryption => field[ClientDecryptor] = None
    BY <2>1 DEF NoStaleDecryptor
  <2> QED BY <1>0, <2>1, <2>2 DEF NoStaleDecryptor, Age
<1>3. CASE Restart
  BY <1>0, <1>3 DEF Restart, NoStaleDecryptor
<1>4. CASE LoadConfigFails \/ StartFails \/ Crash
  <2>1. Ends
    BY <1>4 DEF LoadConfigFails, StartFails, Crash
  <2> QED BY <1>0, <2>1 DEF Ends, Gone, NoStaleDecryptor
<1>5. CASE StartClient
  <2>1. config' = config /\ main' = main /\ main # "ended"
    BY <1>5 DEF StartClient, Ready, mainVars
  <2>2. ~ config.decryption => field' = field
    BY <1>5 DEF StartClient, PlugClient
  <2> QED BY <1>0, <2>1, <2>2 DEF NoStaleDecryptor
<1>6. ASSUME NEW s \in Services, s # "stratumnClient", Plugs(s), UNCHANGED <<config, main>>
      PROVE  NoStaleDecryptor'
  <2>1. field'[ClientDecryptor] = field[ClientDecryptor]
    BY <1>0, <1>6 DEF Plugs
  <2> QED BY <1>0, <1>6, <2>1 DEF NoStaleDecryptor
<1>7. CASE StartLivesync \/ StartParser \/ StartBleveParser \/ StartSearch
  BY <1>6, <1>7 DEF StartLivesync, StartParser, StartBleveParser, StartSearch, mainVars, Services
<1>8. ASSUME NEW p \in Parsers, ParserRuns(p) PROVE UNCHANGED <<config, field, main>>
  BY <1>8 DEF ParserRuns, ReadListeners, AddListener, SaveLink, SaveSegments, SaveFails, mainVars
<1>9. ASSUME NEW s \in Parsers \cup {"livesync"}, Stop(s) PROVE UNCHANGED <<config, field, main>>
  BY <1>9 DEF Stop, mainVars
<1>10. CASE \/ UNCHANGED vars
            \/ Sighup \/ CancelBoot \/ AddHook \/ BootStarts
            \/ StartDecryption \/ StartMemorystore
            \/ StartBlevestore \/ NewMemOnly \/ OpenIndex \/ ReopenIndex
            \/ Poll \/ Receive \/ StopWaiting
  <2>1. UNCHANGED <<config, field>> /\ (main' = "ended" => main = "ended")
    BY <1>10 DEF vars, Sighup, CancelBoot, AddHook, BootStarts,
       StartDecryption, StartMemorystore, StartBlevestore, NewMemOnly, OpenIndex,
       ReopenIndex, Opened, Poll, Receive, StopWaiting, mainVars
  <2> QED BY <1>1, <2>1
<1> QED BY <1>1, <1>2, <1>3, <1>4, <1>5, <1>7, <1>8, <1>9, <1>10 DEF Next, Start, Main

\* client/service.go:38, the other side of the disagreement that TLC shows: a client goes on
\* with a decryptor it is not configured with only after a reload that took the decryption
\* service out of the files; no crash, no failure and no other change of them does it.
THEOREM DecryptorAsConfigured == Spec /\ KeepsDecryption => []ConfiguredDecryptor
<1>1. Init => NoStaleDecryptor
  BY DEF Init, NoStaleDecryptor, ClientDecryptor, Fields
<1>2. Typed /\ Typed' /\ NoStaleDecryptor /\ [Next]_vars
        /\ [Reload /\ config.decryption => config'.decryption]_vars => NoStaleDecryptor'
  <2>1. CASE UNCHANGED vars
    BY <2>1 DEF NoStaleDecryptor, vars, mainVars
  <2> QED BY <2>1, DecryptorStep
<1>3. LifecycleInv => Typed
  BY DEF LifecycleInv
<1>4. NoStaleDecryptor => ConfiguredDecryptor
  BY DEF NoStaleDecryptor, ConfiguredDecryptor, ClientDecryptor
<1> QED BY <1>1, <1>2, <1>3, <1>4, InvariantHolds, PTL DEF Spec, KeepsDecryption
=============================================================================
