------------------------------ MODULE Lifecycle -----------------------------
(***************************************************************************)
(* The life of the process: main.go loads the configuration, boots the     *)
(* services, and on SIGHUP stops them all, loads the configuration again   *)
(* and boots again.  The services are values of a package variable: they   *)
(* live through a reload, and a Plug or a Run that does not set a field    *)
(* leaves it as the boot before had it.                                    *)
(*                                                                         *)
(* The manager of go-node is outside this repository.  It plugs a service  *)
(* once all its Needs run, gives it what those expose, runs it, and stops  *)
(* it when its context is cancelled; Boot returns when all have stopped.   *)
(*                                                                         *)
(* An object that a service makes and others hold (a decryptor, a client,  *)
(* a synchronizer, a store) is New, of this boot, or Old, of any boot      *)
(* before.  A hook of the logger is named by its boot and its writer.      *)
(***************************************************************************)
EXTENDS Integers, FiniteSetsExt, SequencesExt

CONSTANTS
  Files,      \* the configurations an operator may write
  MaxBoots,   \* bound: boots, of all processes
  MaxHits,    \* how many hits an answer of bleve has at most
  MaxLinks    \* bound: links in Trace

Boots == 1 .. MaxBoots
None == 0
Old == 1
New == 2
Objects == {Old, New}
Links == 1 .. MaxLinks

\* The log levels: the lower, the graver.
Levels == 1 .. 2

\* A writer of the log is its level, or BadWriter: type, level or formatter unknown.
BadWriter == 0

ASSUME BoundsAssumption == MaxBoots \in Nat \ {0} /\ MaxLinks \in Nat /\ MaxHits \in Nat
\* decryption: the client has the name of a decryption service; keys: the private keys
\* can be parsed; path: the blevestore is on disk.
ASSUME FilesAssumption ==
  \A f \in Files :
    /\ f.decryption \in BOOLEAN /\ f.keys \in BOOLEAN /\ f.path \in BOOLEAN
    /\ f.writers \in Seq(Levels \cup {BadWriter})

Services == {"decryption", "stratumnClient", "livesync", "memorystore", "blevestore",
             "parser", "bleveparser", "search"}
Parsers == {"parser", "bleveparser"}

\* The fields that hold what another service exposes.
Fields == {<<"stratumnClient", "decryption">>, <<"livesync", "stratumnClient">>,
           <<"parser", "memorystore">>, <<"parser", "livesync">>,
           <<"bleveparser", "blevestore">>, <<"bleveparser", "livesync">>,
           <<"search", "blevestore">>}

VARIABLES
  config,      \* the configuration that was loaded
  hooks,       \* the hooks of the logger, by level
  added,       \* the writers that have been added, since the hooks were dropped
  signalled,   \* SIGHUP waits in the channel, which holds one
  loaded,      \* history: the files were loaded since the last SIGHUP
  main,        \* "starting" or "loading": sets the configuration, of a new process or
               \* after a SIGHUP; "running"; "reloading": waits for done; "ended"
  cancelled,   \* the context of this boot is cancelled
  boot,        \* the number of this boot
  state,       \* where each service is
  made,        \* the object each service exposes
  field,       \* the objects each service holds
  memory,      \* the contents of each memory store
  index,       \* the contents of each index in memory
  disk,        \* the contents of the index on disk
  onDisk,      \* the stores of this process that opened it
  sync,        \* the synchronizer: see NewSynchronizer
  parser       \* how far the run of each parser is: see NewParser

mainVars == <<config, hooks, added, signalled, loaded, main, cancelled, boot>>
storeVars == <<memory, index, disk, onDisk>>
vars == <<mainVars, state, made, field, storeVars, sync, parser>>

-----------------------------------------------------------------------------
(* logging.SetConfig.                                                      *)

\* Levels: a hook fires for its level and all graver ones.
Fires(writer, level) == writer >= level

NoHooks == [level \in Levels |-> <<>>]

\* Mutant: the hooks of the configuration before stay.
ResetHooks_Keep(old) == old

ResetHooks(old) == [level \in DOMAIN old |-> <<>>]

-----------------------------------------------------------------------------
(* A new process, and a new boot.                                          *)

Empty == [o \in Objects |-> {}]

Stopped == [s \in Services |-> "stopped"]

\* cursor: how far it has polled; listeners: the parsers it knows, in their order, page:
\* the links on their way; sending: the listeners they have still to be sent to, whole, for
\* those who register with nil.  History: whether it has polled, and who registered before.
NewSynchronizer ==
  [cursor |-> 0, listeners |-> <<>>, page |-> {}, sending |-> <<>>,
   polled |-> FALSE, early |-> {}]

\* It registers, reading the listeners and then storing them with itself; it listens; and
\* it saves the links that it received.
NewParser == [at |-> "registers", read |-> <<>>, links |-> {}]
Listening == [at |-> "listens", read |-> <<>>, links |-> {}]
Saving(links) == [at |-> "saves", read |-> <<>>, links |-> links]

Init ==
  /\ config \in Files
  /\ hooks = NoHooks /\ added = 0
  /\ signalled = FALSE /\ loaded = TRUE /\ main = "starting" /\ cancelled = FALSE
  /\ boot = 1
  /\ state = Stopped
  /\ made = [s \in Services |-> None]
  /\ field = [f \in Fields |-> None]
  /\ memory = Empty /\ index = Empty
  /\ disk = {} /\ onDisk = {}
  /\ sync = NewSynchronizer
  /\ parser = [p \in Parsers |-> NewParser]

\* What is left of a process that has ended.
Gone ==
  /\ state' = Stopped
  /\ made' = [s \in Services |-> None]
  /\ field' = [f \in Fields |-> None]
  /\ memory' = Empty /\ index' = Empty
  /\ onDisk' = {}
  /\ sync' = NewSynchronizer
  /\ parser' = [p \in Parsers |-> NewParser]
  /\ UNCHANGED disk

\* A signal that comes while another waits is dropped; before Notify it ends the process,
\* see Crash.
Sighup ==
  /\ \/ main \in {"loading", "running"} /\ boot < MaxBoots
     \/ main = "reloading" /\ boot + 1 < MaxBoots
  /\ signalled' = TRUE
  /\ loaded' = FALSE
  /\ UNCHANGED <<config, hooks, added, main, cancelled, boot>>
  /\ UNCHANGED <<state, made, field, storeVars, sync, parser>>

\* for range sig: cancel(), and then <-done.
CancelBoot ==
  /\ main = "running"
  /\ signalled
  /\ signalled' = FALSE
  /\ cancelled' = TRUE
  /\ main' = "reloading"
  /\ UNCHANGED <<config, hooks, added, loaded, boot>>
  /\ UNCHANGED <<state, made, field, storeVars, sync, parser>>

\* requireCoreConfigSet, with the files as the operator has written them by now: SetConfig
\* of the log begins by dropping the hooks, old ...
LoadConfig(old) ==
  /\ config' \in Files
  /\ hooks' = ResetHooks(old)
  /\ added' = 0

Loading == main \in {"starting", "loading"} /\ added < Len(config.writers)

Writer == config.writers[added + 1]

\* ... and adds the writers one by one.
AddHook ==
  /\ Loading
  /\ Writer # BadWriter
  /\ hooks' = [level \in Levels |->
               IF Fires(Writer, level) THEN Append(hooks[level], <<boot, added + 1>>)
               ELSE hooks[level]]
  /\ added' = added + 1
  /\ UNCHANGED <<config, signalled, loaded, main, cancelled, boot>>
  /\ UNCHANGED <<state, made, field, storeVars, sync, parser>>

Ends ==
  /\ main' = "ended"
  /\ Gone
  /\ UNCHANGED <<config, hooks, added, signalled, loaded, cancelled, boot>>

\* os.Exit(1), with the hooks half-way.
LoadConfigFails ==
  /\ Loading
  /\ Writer = BadWriter
  /\ Ends

\* go start()
BootStarts ==
  /\ main \in {"starting", "loading"}
  /\ added = Len(config.writers)
  /\ main' = "running"
  /\ UNCHANGED <<config, hooks, added, signalled, loaded, cancelled, boot>>
  /\ UNCHANGED <<state, made, field, storeVars, sync, parser>>

\* Boot has returned Canceled, and start has sent done.
Done == \A s \in Services : state[s] \in {"stopped", "failed"}

\* The services and what they hold stay.  (Of what the old stores and the synchronizer have
\* in memory, nobody will see more than, perhaps, the cursor.)
Age(object) == IF object = None THEN None ELSE Old
Keep ==
  /\ made' = [s \in Services |-> Age(made[s])]
  /\ field' = [f \in Fields |-> Age(field[f])]
  /\ onDisk' = {Age(object) : object \in onDisk}
  /\ memory' = Empty /\ index' = Empty
  /\ sync' = [NewSynchronizer EXCEPT !.cursor = sync.cursor]
  /\ UNCHANGED <<disk, parser>>

\* Mutant: the new boot gets the context of the one before.
Reload_SameContext ==
  /\ main = "reloading"
  /\ Done
  /\ boot < MaxBoots
  /\ LoadConfig(hooks)
  /\ loaded' = TRUE /\ main' = "loading"
  /\ boot' = boot + 1
  /\ state' = Stopped
  /\ Keep
  /\ UNCHANGED <<signalled, cancelled>>

\* A new context, and the files.
Reload ==
  /\ main = "reloading"
  /\ Done
  /\ boot < MaxBoots
  /\ LoadConfig(hooks)
  /\ loaded' = TRUE /\ main' = "loading" /\ cancelled' = FALSE
  /\ boot' = boot + 1
  /\ state' = Stopped
  /\ Keep
  /\ UNCHANGED signalled

\* The process is killed, at any moment; or it panics when the manager lets the error of
\* a service that failed come out of Boot, at once or at a shutdown.
Crash ==
  /\ main # "ended"
  /\ Ends

\* It is started again: only the files remain.
Restart ==
  /\ main = "ended"
  /\ boot < MaxBoots
  /\ LoadConfig(NoHooks)
  /\ signalled' = FALSE /\ loaded' = TRUE /\ main' = "starting" /\ cancelled' = FALSE
  /\ boot' = boot + 1
  /\ UNCHANGED <<state, made, field, storeVars, sync, parser>>

-----------------------------------------------------------------------------
(* Starting services.  Plug and Run, up to <-ctx.Done(), are one step: what *)
(* they do until then concerns no other service.  Only the blevestore may  *)
(* take long.                                                              *)

Needs(s) ==
  {d \in Services : <<s, d>> \in Fields
     /\ (<<s, d>> = <<"stratumnClient", "decryption">> => config.decryption)}

\* The manager may plug s.
Ready(s) ==
  /\ main \in {"running", "reloading"} /\ ~ cancelled
  /\ state[s] = "stopped"
  /\ \A d \in Needs(s) : state[d] = "running"

Runs(s) == state' = [state EXCEPT ![s] = "running"]
\* The fields of s get what is exposed; what s exposes is new.
Plugs(s) == field' = [f \in Fields |-> IF f[1] = s THEN made[f[2]] ELSE field[f]]
Makes(s) == made' = [made EXCEPT ![s] = New]

\* newDecryptor parses a private key ...
StartDecryption ==
  /\ Ready("decryption")
  /\ config.keys
  /\ Runs("decryption")
  /\ Makes("decryption")
  /\ UNCHANGED <<mainVars, field, storeVars, sync, parser>>

\* With the name of a decryption service, or with an early return of Plug.
PlugClient ==
  \/ config.decryption /\ Plugs("stratumnClient")
  \/ ~ config.decryption /\ UNCHANGED field

\* ... and so does newClient.
StartClient ==
  /\ Ready("stratumnClient")
  /\ config.keys
  /\ PlugClient
  /\ Runs("stratumnClient")
  /\ Makes("stratumnClient")
  /\ UNCHANGED <<mainVars, storeVars, sync, parser>>

\* Any error but Canceled comes out of Boot, and start panics.
StartFails ==
  /\ \E s \in {"decryption", "stratumnClient"} : Ready(s)
  /\ ~ config.keys
  /\ Ends

\* Mutant: the synchronizer is made once, and goes on where it was.
StartLivesync_Once ==
  /\ Ready("livesync")
  /\ Plugs("livesync")
  /\ Runs("livesync")
  /\ Makes("livesync")
  /\ sync' = [NewSynchronizer EXCEPT !.cursor = sync.cursor]
  /\ UNCHANGED <<mainVars, storeVars, parser>>

\* Plug makes the synchronizer, with empty cursors.
StartLivesync ==
  /\ Ready("livesync")
  /\ Plugs("livesync")
  /\ Runs("livesync")
  /\ Makes("livesync")
  /\ sync' = NewSynchronizer
  /\ UNCHANGED <<mainVars, storeVars, parser>>

\* Run makes the database.
StartMemorystore ==
  /\ Ready("memorystore")
  /\ Runs("memorystore")
  /\ Makes("memorystore")
  /\ memory' = [memory EXCEPT ![New] = {}]
  /\ UNCHANGED <<mainVars, field, index, disk, onDisk, sync, parser>>

StartBlevestore ==
  /\ Ready("blevestore")
  /\ state' = [state EXCEPT !["blevestore"] = "opening"]
  /\ UNCHANGED <<mainVars, made, field, storeVars, sync, parser>>

Opened ==
  /\ state["blevestore"] = "opening"
  /\ Runs("blevestore")
  /\ Makes("blevestore")
  /\ UNCHANGED <<mainVars, field, memory, disk, sync, parser>>

\* newStore: an index in memory is new ...
NewMemOnly ==
  /\ ~ config.path
  /\ Opened
  /\ index' = [index EXCEPT ![New] = {}]
  /\ UNCHANGED onDisk

\* ... and one on disk has what it had.
OpenIndex ==
  /\ config.path
  /\ onDisk = {}
  /\ Opened
  /\ onDisk' = {New}
  /\ UNCHANGED index

\* One that this process opened in a boot before is still open, for Run closes nothing:
\* bleve waits for its lock, perhaps for ever.
ReopenIndex ==
  /\ config.path
  /\ onDisk # {}
  /\ Opened
  /\ onDisk' = onDisk \cup {New}
  /\ UNCHANGED index

StartParser ==
  /\ Ready("parser")
  /\ Plugs("parser")
  /\ Runs("parser")
  /\ UNCHANGED <<mainVars, made, storeVars, sync, parser>>

\* Mutant: the index is looked up once.
StartBleveParser_Once ==
  /\ Ready("bleveparser")
  /\ field' = [f \in Fields |-> IF f[1] = "bleveparser" /\ field[f] = None
                                THEN made[f[2]] ELSE field[f]]
  /\ Runs("bleveparser")
  /\ UNCHANGED <<mainVars, made, storeVars, sync, parser>>

StartBleveParser ==
  /\ Ready("bleveparser")
  /\ Plugs("bleveparser")
  /\ Runs("bleveparser")
  /\ UNCHANGED <<mainVars, made, storeVars, sync, parser>>

\* Plug makes the searcher.
StartSearch ==
  /\ Ready("search")
  /\ Plugs("search")
  /\ Runs("search")
  /\ Makes("search")
  /\ UNCHANGED <<mainVars, storeVars, sync, parser>>

-----------------------------------------------------------------------------
(* What the services do while they run.                                    *)

\* The goroutine of a parser, up to ...
At(p, at) == state[p] = "running" /\ parser[p].at = at

\* It registers, with nil.  It reads the listeners ...
ReadListeners(p) ==
  /\ At(p, "registers")
  /\ parser' = [parser EXCEPT ![p].at = "appends", ![p].read = sync.listeners]
  /\ UNCHANGED <<mainVars, state, made, field, storeVars, sync>>

\* Mutant: a parser that registers is a listener already.
AddListener_Again(p) ==
  /\ At(p, "appends")
  /\ parser' = [parser EXCEPT ![p] = Listening]
  /\ sync' = [sync EXCEPT !.listeners = Append(Append(parser[p].read, p), p),
                          !.early = IF sync.polled THEN @ ELSE @ \cup {p}]
  /\ UNCHANGED <<mainVars, state, made, field, storeVars>>

\* ... and stores those and itself, without a lock: one that the other parser has stored
\* meanwhile is gone.  It will get the pages that follow.
AddListener(p) ==
  /\ At(p, "appends")
  /\ parser' = [parser EXCEPT ![p] = Listening]
  /\ sync' = [sync EXCEPT !.listeners = Append(parser[p].read, p),
                          !.early = IF sync.polled THEN @ ELSE @ \cup {p}]
  /\ UNCHANGED <<mainVars, state, made, field, storeVars>>

\* A page of the links after the cursor, of those that Trace has by then.
Poll ==
  /\ state["livesync"] = "running"
  /\ sync.sending = <<>>
  /\ \E last \in sync.cursor + 1 .. MaxLinks :
       sync' = [sync EXCEPT !.cursor = last, !.sending = sync.listeners, !.polled = TRUE,
                  !.page = IF sync.listeners = <<>> THEN {} ELSE sync.cursor + 1 .. last]
  /\ UNCHANGED <<mainVars, state, made, field, storeVars, parser>>

\* The first listener receives, from an unbuffered channel: livesync goes on with the
\* others, and the parser with what it received.
Receive ==
  /\ sync.sending # <<>>
  /\ LET p == Head(sync.sending)
         rest == Tail(sync.sending)
     IN  /\ At(p, "listens")
         /\ sync' = [sync EXCEPT !.sending = rest, !.page = IF rest = <<>> THEN {} ELSE @]
         /\ parser' = [parser EXCEPT ![p] = Saving(sync.page)]
  /\ UNCHANGED <<mainVars, state, made, field, storeVars>>

\* saveLinks puts the links into the store, one by one, and then it listens again.
SaveLink ==
  LET db == field[<<"parser", "memorystore">>]
      links == parser["parser"].links
  IN  /\ At("parser", "saves")
      /\ \E l \in links :
           /\ l = Min(links)
           /\ memory' = [memory EXCEPT ![db] = @ \cup {l}]
           /\ parser' = [parser EXCEPT !["parser"] =
                           IF links = {l} THEN Listening ELSE Saving(links \ {l})]
      /\ UNCHANGED <<mainVars, state, made, field, index, disk, onDisk, sync>>

\* saveSegments indexes a batch.
SaveSegments ==
  LET idx == field[<<"bleveparser", "blevestore">>]
      links == parser["bleveparser"].links
  IN  /\ At("bleveparser", "saves")
      /\ IF idx \in onDisk
         THEN disk' = disk \cup links /\ UNCHANGED index
         ELSE index' = [index EXCEPT ![idx] = @ \cup links] /\ UNCHANGED disk
      /\ parser' = [parser EXCEPT !["bleveparser"] = Listening]
      /\ UNCHANGED <<mainVars, state, made, field, memory, onDisk, sync>>

\* A link cannot be marshalled, put or indexed: the service ends with that error.
SaveFails(p) ==
  /\ At(p, "saves")
  /\ state' = [state EXCEPT ![p] = "failed"]
  /\ parser' = [parser EXCEPT ![p] = NewParser]
  /\ UNCHANGED <<mainVars, made, field, storeVars, sync>>

\* The services that do nothing but wait for their context return (in any order, which
\* makes no difference to the others) ...
Waiting == {"decryption", "stratumnClient", "memorystore", "blevestore", "search"}
StopWaiting ==
  LET running == {s \in Waiting : state[s] = "running"}
  IN  /\ cancelled
      /\ running # {}
      /\ state' = [s \in Services |-> IF s \in running THEN "stopped" ELSE state[s]]
      /\ UNCHANGED <<mainVars, made, field, storeVars, sync, parser>>

\* ... and so does a parser when it listens, and livesync when it is not sending.
Stop(s) ==
  /\ cancelled
  /\ state[s] = "running"
  /\ s = "livesync" => sync.sending = <<>>
  /\ s \in Parsers => parser[s].at = "listens"
  /\ state' = [state EXCEPT ![s] = "stopped"]
  /\ parser' = [p \in Parsers |-> IF p = s THEN NewParser ELSE parser[p]]
  /\ UNCHANGED <<mainVars, made, field, storeVars, sync>>

\* The index that Search looks in, and what it finds there: of the links that match, here
\* all of them, bleve returns no more than the size of the request, which Search leaves at
\* bleve's default.
Searched ==
  LET idx == field[<<"search", "blevestore">>]
  IN  IF idx \in onDisk THEN disk ELSE index[idx]

Found ==
  {hits \in SUBSET Searched :
     Cardinality(hits) = IF Cardinality(Searched) < MaxHits THEN Cardinality(Searched) ELSE MaxHits}

-----------------------------------------------------------------------------
Start ==
  \/ StartDecryption \/ StartClient \/ StartFails \/ StartLivesync \/ StartMemorystore
  \/ StartBlevestore \/ NewMemOnly \/ OpenIndex
  \/ StartParser \/ StartBleveParser \/ StartSearch

Main == CancelBoot \/ Reload \/ AddHook \/ LoadConfigFails \/ BootStarts

\* The goroutine of a parser, when it is not receiving.
ParserRuns(p) ==
  \/ ReadListeners(p) \/ AddListener(p) \/ SaveFails(p)
  \/ p = "parser" /\ SaveLink
  \/ p = "bleveparser" /\ SaveSegments

Next ==
  \/ Sighup \/ Main \/ Crash \/ Restart
  \/ Start \/ ReopenIndex
  \/ Poll \/ Receive
  \/ \E p \in Parsers : ParserRuns(p)
  \/ StopWaiting
  \/ \E s \in Parsers \cup {"livesync"} : Stop(s)

Spec == Init /\ [][Next]_vars

\* The manager starts what it can and every goroutine that can run does; the operator
\* and the clock of livesync owe nothing, and the lock of an open index may not come.
Fairness ==
  /\ WF_vars(Main) /\ WF_vars(Start) /\ WF_vars(Receive) /\ WF_vars(StopWaiting)
  /\ \A p \in Parsers : WF_vars(ParserRuns(p))
  /\ \A s \in Parsers \cup {"livesync"} : WF_vars(Stop(s))

FairSpec == Spec /\ Fairness

-----------------------------------------------------------------------------
(* Properties.                                                             *)

\* The variables stay in their types, and a parser is a listener at most once.
TypeOK ==
  /\ config \in Files
  /\ hooks \in [Levels -> Seq(Boots \X (Nat \ {0}))]
  /\ added \in 0 .. Len(config.writers)
  /\ signalled \in BOOLEAN /\ loaded \in BOOLEAN /\ cancelled \in BOOLEAN
  /\ main \in {"starting", "loading", "running", "reloading", "ended"}
  /\ boot \in Boots
  /\ state \in [Services -> {"stopped", "opening", "running", "failed"}]
  /\ made \in [Services -> {None} \cup Objects]
  /\ field \in [Fields -> {None} \cup Objects]
  /\ memory \in [Objects -> SUBSET Links] /\ index \in [Objects -> SUBSET Links]
  /\ disk \subseteq Links /\ onDisk \subseteq Objects
  /\ sync \in [cursor : 0 .. MaxLinks, listeners : Seq(Parsers), page : SUBSET Links,
               sending : Seq(Parsers), polled : BOOLEAN, early : SUBSET Parsers]
  /\ parser \in [Parsers -> [at : {"registers", "appends", "listens", "saves"},
                             read : Seq(Parsers), links : SUBSET Links]]
  /\ IsInjective(sync.listeners)

\* After any number of reloads, at any moment of them, a service holds the objects that
\* the services it is configured with made in this boot, never one of the boot before.
CurrentWiring ==
  \A f \in Fields : state[f[1]] = "running" /\ f[2] \in Needs(f[1]) =>
    field[f] = New /\ made[f[2]] = New

\* client/service.go:38: the client uses the decryption service it was configured with,
\* and none when the name is empty.
ConfiguredDecryptor ==
  state["stratumnClient"] = "running" /\ ~ config.decryption =>
    field[<<"stratumnClient", "decryption">>] = None

\* A parser that registered before the first poll of its boot, and that the other one did
\* not drop from the listeners (livesync.go:97), has stored everything livesync has polled
\* but what is still to be sent to it or what it is saving, whichever boot, process, or
\* store on disk came before (livesync/service.go:89), as long as it runs.  What bleveparser
\* stored is in the index that Search looks in, and in its answer, or the answer is full.
PolledIsStored ==
  \A p \in sync.early \cap ToSet(sync.listeners) :
    state[p] = "running" /\ p \notin ToSet(sync.sending) =>
      LET stored == (1 .. sync.cursor) \ parser[p].links
      IN  /\ p = "parser" => stored \subseteq memory[made["memorystore"]]
          /\ p = "bleveparser" /\ state["search"] = "running" =>
               /\ stored \subseteq Searched
               /\ \A hits \in Found : stored \subseteq hits \/ Cardinality(hits) = MaxHits

\* logging.go:105: however often the configuration was set, and however that ended, each
\* writer of a boot gets a line once, and only the lines of its level, and no writer of a
\* boot before gets any.
LinesWrittenOnce ==
  main \in {"running", "reloading"} =>
    \A level \in Levels :
      /\ IsInjective(hooks[level])
      /\ ToSet(hooks[level]) =
           {<<boot, i>> : i \in {i \in DOMAIN config.writers : Fires(config.writers[i], level)}}

\* Every service has been started, whether it failed since or not.
AllStarted == \A s \in Services : s = "decryption" \/ state[s] \in {"running", "failed"}

\* livesync.go:149: it sends to a parser that has left.
LivesyncStuck ==
  sync.sending # <<>> /\ cancelled /\ state[Head(sync.sending)] # "running"

\* The blevestore waits for an index that its process holds open.
IndexStuck == state["blevestore"] = "opening" /\ config.path /\ onDisk # {}

\* main.go:108: a SIGHUP restarts the services with the files as they are then, or ends
\* the process with an error, unless livesync never returns or the index never opens.
ReloadTakesEffect ==
  ~ loaded ~> \/ loaded /\ AllStarted
              \/ main = "ended" \/ LivesyncStuck \/ IndexStuck
=============================================================================
