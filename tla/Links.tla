-------------------------------- MODULE Links -------------------------------
(***************************************************************************)
(* The life of a link that the connector creates: the keys of its          *)
(* recipients (GetRecipientsPublicKeys), NewLink and EncryptLink of        *)
(* lib/chainscript, SignLink, CreateLink and CreateLinks of                *)
(* services/client/trace.go, and its way back through CallTraceGql and     *)
(* services/decryption.                                                    *)
(*                                                                         *)
(* Meanwhile owners join and leave the workflow and change their keys,     *)
(* calls fail, answers get lost, and the application calls again.  All of  *)
(* these functions work in place on links the application holds.           *)
(*                                                                         *)
(* Data is a form under layers of encryption, each with its AES key.  The  *)
(* metadata keeps one AES key, encrypted for each recipient.               *)
(***************************************************************************)
EXTENDS Integers, FiniteSets, SequencesExt

CONSTANTS
  Owners,           \* the owners of the workflow's groups
  Me,               \* the organisation of the connector
  Forms,            \* the data of links ...
  ByteForms,        \* ... those that json.Unmarshal also reads as bytes
  NoForm,           \* ... and no data at all: nil
  MaxLinks,         \* bound: links the application builds
  MaxEncryptions,   \* bound: calls of aes.Encrypt
  MaxAccepted,      \* bound: versions of links in Trace
  MaxChanges        \* bound: changes of the group and of its keys

ASSUME OwnersAssumption == Me \in Owners
ASSUME FormsAssumption == NoForm \in Forms /\ ByteForms \subseteq Forms \ {NoForm}
ASSUME CountsAssumption ==
  /\ MaxLinks \in Nat /\ MaxEncryptions \in Nat
  /\ MaxAccepted \in Nat /\ MaxChanges \in Nat

Ids == 1 .. MaxLinks
\* The versions of an owner's key; 0 stands for an owner who has none.
Recipients == Owners \X (0 .. MaxChanges + 1)
\* The key the decryptor was configured with.
MyKey == <<Me, 1>>

NoRing == [key |-> 0, for |-> {}]
NoParent == [hash |-> <<>>, computed |-> FALSE]
NoLink == [id |-> 0]

\* What a hash is a hash of: decrypting a link changes it.
Hash(l) == <<l.id, l.form, l.layers>>
\* What is signed, "[version,data,meta]".
Content(l) == [form |-> l.form, layers |-> l.layers, meta |-> l.meta, ring |-> l.ring]

VARIABLES
  group,          \* the owners of the workflow's groups, each with its key
  changes,        \* how often those have changed
  keys,           \* what GetRecipientsPublicKeys returned
  steady,         \* history: recipients that have not changed since that call
  links,          \* the links the application has built
  readers,        \* history: those that had not when a link was encrypted
  failed,         \* history: the links whose data is of an EncryptLink that failed
  changed,        \* history: the links that changed after they were signed
  symKey,         \* the last AES key
  trace,          \* what the Trace API accepted
  page,           \* the values of the last answer
  decryptor,      \* whether the client has one
  decrypted       \* whether DecryptLinks returned nil for that page

groupVars == <<group, changes>>
linkVars == <<links, readers, failed, changed, symKey>>
pageVars == <<page, decrypted>>
vars == <<groupVars, keys, steady, linkVars, trace, pageVars, decryptor>>

Init ==
  /\ group = {MyKey}
  /\ changes = 0
  /\ keys = {}
  /\ steady = {}
  /\ links = [i \in Ids |-> NoLink]
  /\ readers = [i \in Ids |-> {}]
  /\ failed = {} /\ changed = {}
  /\ symKey = 0
  /\ trace = {}
  /\ page = <<>>
  /\ decryptor \in BOOLEAN
  /\ decrypted = FALSE

Built == {i \in Ids : links[i] # NoLink}

-----------------------------------------------------------------------------
(* The group of the workflow.                                              *)

\* Whoever is no longer who was fetched is not steady any more.
GroupChanges(new) ==
  /\ changes < MaxChanges
  /\ changes' = changes + 1
  /\ group' = new
  /\ steady' = steady \cap new
  /\ UNCHANGED <<keys, linkVars, trace, pageVars, decryptor>>

Join(o) ==
  /\ \A r \in group : r[1] # o
  /\ \E v \in {0, 1} : GroupChanges(group \cup {<<o, v>>})

Leave(r) == GroupChanges(group \ {r})

NewKey(r) == GroupChanges((group \ {r}) \cup {<<r[1], r[2] + 1>>})

\* Asks Trace every time: there is no cache, whatever its comment says.
GetRecipientsPublicKeys ==
  /\ keys' = group
  /\ steady' = group
  /\ UNCHANGED <<groupVars, linkVars, trace, pageVars, decryptor>>

\* The call fails, or the workflow is not found: nil.
RecipientsNotFound ==
  /\ keys' = {}
  /\ steady' = {}
  /\ UNCHANGED <<groupVars, linkVars, trace, pageVars, decryptor>>

-----------------------------------------------------------------------------
(* lib/chainscript.                                                        *)

\* An owner without a key has the empty PEM, which EncryptShort refuses.
createRecipientsKeysFails == \E r \in keys : r[2] = 0

\* EncryptLink returns before it touches the link ...
NoRecipients == keys = {}

\* ... or it replaces the data, and then reads the metadata and encrypts the key ...
EncryptFails(l) == l.meta = "other" \/ createRecipientsKeysFails

Layered(l) == [l EXCEPT !.layers = Append(@, symKey')]

\* ... or the metadata gets the recipients too.
Encrypted(l) ==
  [Layered(l) EXCEPT !.meta = "object", !.ring = [key |-> symKey', for |-> keys]]

NextKey == symKey < MaxEncryptions /\ symKey' = symKey + 1

\* A signature stays where it is when what it signs changes.
Changes(i) == changed' = IF links[i].sigs = <<>> THEN changed ELSE changed \cup {i}

EncryptLink(i) ==
  /\ i \in Built
  /\ ~ NoRecipients
  /\ ~ EncryptFails(links[i])
  /\ NextKey
  /\ links' = [links EXCEPT ![i] = Encrypted(@)]
  /\ readers' = [readers EXCEPT ![i] = steady]
  /\ Changes(i)
  /\ UNCHANGED <<groupVars, keys, steady, failed, trace, pageVars, decryptor>>

\* Mutant: the error leaves what the metadata had, and reads as a success.
EncryptLinkFails_Unnoticed(i) ==
  /\ i \in Built
  /\ ~ NoRecipients
  /\ EncryptFails(links[i])
  /\ NextKey
  /\ links' = [links EXCEPT ![i] = Layered(@)]
  /\ readers' = [readers EXCEPT ![i] = steady]
  /\ Changes(i)
  /\ UNCHANGED <<groupVars, keys, steady, failed, trace, pageVars, decryptor>>

EncryptLinkFails(i) ==
  /\ i \in Built
  /\ ~ NoRecipients
  /\ EncryptFails(links[i])
  /\ NextKey
  /\ links' = [links EXCEPT ![i] = Layered(@)]
  /\ failed' = failed \cup {i}
  /\ Changes(i)
  /\ UNCHANGED <<groupVars, keys, steady, readers, trace, pageVars, decryptor>>

\* Mutant: the hash of the link as it is now, which may have been decrypted.
ParentHash_Recomputed(segment) == [hash |-> Hash(segment.link), computed |-> FALSE]

\* The hash that came with the segment, or one that is computed.
ParentHash(segment) ==
  IF segment.hash # <<>> THEN [hash |-> segment.hash, computed |-> FALSE]
                         ELSE [hash |-> Hash(segment.link), computed |-> TRUE]

\* The application can build a link after any link that an answer has as raw.
Segments ==
  {[link |-> v.raw, hash |-> v.hash] : v \in {v \in ToSet(page) : v.raw # NoLink}}

\* What the builder builds: the first link of a map, or one after a segment.
FirstLink(i, form, meta) ==
  [id |-> i, map |-> i, priority |-> 1, parent |-> NoParent, form |-> form,
   layers |-> <<>>, meta |-> meta, ring |-> NoRing, sigs |-> <<>>]

\* Mutant: the new link is the previous one with other data.
LinkAfter_Copied(segment, i, form, meta) ==
  [segment.link EXCEPT !.form = form, !.layers = <<>>, !.meta = meta, !.sigs = <<>>]

LinkAfter(segment, i, form, meta) ==
  [FirstLink(i, form, meta) EXCEPT !.map = segment.link.map,
     !.priority = segment.link.priority + 1, !.parent = ParentHash(segment)]

\* What WithData makes of anything, nil included, is some data.
SomeForms == Forms \ {NoForm}

\* (bound: the first one starts the map, may be without data, and has metadata only if
\* it is unusable.)
BuiltLinks(i, forms) ==
  IF i = 1
  THEN {FirstLink(i, form, meta) : form \in forms, meta \in {"none", "other"}}
  ELSE {LinkAfter(segment, i, form, "object") : segment \in Segments, form \in SomeForms}

\* NewLink returns a link that is encrypted, or an error and no link.
NewLink(i) ==
  /\ i = Cardinality(Built) + 1
  /\ ~ NoRecipients
  /\ NextKey
  /\ \E l \in BuiltLinks(i, SomeForms) :
       /\ ~ EncryptFails(l)
       /\ links' = [links EXCEPT ![i] = Encrypted(l)]
  /\ readers' = [readers EXCEPT ![i] = steady]
  /\ UNCHANGED <<groupVars, keys, steady, failed, changed, trace, pageVars, decryptor>>

\* The application builds a link with the library, to encrypt it or not.
Build(i) ==
  /\ i = Cardinality(Built) + 1
  /\ \E l \in BuiltLinks(i, Forms) : links' = [links EXCEPT ![i] = l]
  /\ UNCHANGED <<groupVars, keys, steady, readers, failed, changed, symKey>>
  /\ UNCHANGED <<trace, pageVars, decryptor>>

\* It puts the data of a link back after an error.
SetData(i) ==
  /\ i \in failed
  /\ links' = [links EXCEPT ![i] = [@ EXCEPT !.layers = <<>>]]
  /\ failed' = failed \ {i}
  /\ Changes(i)
  /\ UNCHANGED <<groupVars, keys, steady, readers, symKey, trace, pageVars, decryptor>>

-----------------------------------------------------------------------------
(* Creating links.                                                         *)

\* Mutant: whatever signatures there are.
SignLink_Always(l) == [l EXCEPT !.sigs = Append(@, Content(l))]

\* A link that has a signature of ours is not signed again.
SignLink(l) == IF l.sigs # <<>> THEN l ELSE [l EXCEPT !.sigs = <<Content(l)>>]

SignAll(ids) == [i \in Ids |-> IF i \in ids THEN SignLink(links[i]) ELSE links[i]]

Accepted(i) ==
  [link |-> links'[i], readers |-> readers[i], whole |-> i \notin failed,
   changed |-> i \in changed]

\* CreateLink and CreateLinks: all are signed, and Trace accepts them.  Whether the
\* answer gets back makes no difference to the links.
CreateLinks(ids) ==
  /\ ids # {} /\ ids \subseteq Built
  /\ links' = SignAll(ids)
  /\ trace' = trace \cup {Accepted(i) : i \in ids}
  /\ Cardinality(trace') <= MaxAccepted
  /\ UNCHANGED <<groupVars, keys, steady, readers, failed, changed, symKey, pageVars, decryptor>>

\* Signing stops at a link that cannot be signed, or the request fails: those that
\* were signed stay so.
CreateLinksFails(ids) ==
  /\ ids # {} /\ ids \subseteq Built
  /\ links' = SignAll(ids)
  /\ UNCHANGED <<groupVars, keys, steady, readers, failed, changed, symKey>>
  /\ UNCHANGED <<trace, pageVars, decryptor>>

-----------------------------------------------------------------------------
(* services/decryption, and the answers of Trace.                          *)

\* The AES key of the metadata that is encrypted for us decrypts the data.
DecryptLinkDataOK(l) ==
  /\ MyKey \in l.ring.for
  /\ l.layers # <<>>
  /\ Last(l.layers) = l.ring.key

IsBytes(l) == l.layers # <<>> \/ l.form \in ByteForms

\* ErrNoData; nothing under a layer of encryption is decrypted to nil again.
HasData(l) == l.layers # <<>> \/ l.form # NoForm

DecryptLinkOK(l) ==
  /\ HasData(l)
  /\ l.meta = "object"
  /\ IsBytes(l) => DecryptLinkDataOK(l)

\* Mutant: whatever the error, the data is what came out.
DecryptLink_AnyData(l) ==
  IF IsBytes(l) THEN [l EXCEPT !.layers = IF @ = <<>> THEN @ ELSE Front(@)] ELSE l

\* Data that is not bytes is taken for decrypted data; an error leaves it as it is.
DecryptLink(l) ==
  IF DecryptLinkOK(l) /\ IsBytes(l) THEN [l EXCEPT !.layers = Front(@)] ELSE l

\* An answer is a tree of Go values; each of them comes after those it is in.  A value
\* is an "object" (a struct or a map), a "slice", or an "other" (a pointer to a pointer, a
\* pointer in an interface, an array).  An object may have a link as raw, with a hash
\* beside it, and it may have the data and the metadata of a link.
Value(in, kind, raw, data, hash) ==
  [in |-> in, kind |-> kind, raw |-> raw, data |-> data, hash |-> hash]

\* decryptLinks gets to a value if it goes through all that it is in.
Reached(answer, n) == \A m \in answer[n].in : answer[m].kind # "other"

\* encryptedLink fits: the data is bytes, if there is any, and the metadata an object.
Unmarshals(v) ==
  v.data # NoLink =>
    v.data.meta # "other" /\ (HasData(v.data) => IsBytes(v.data))

RawOK(v) == v.raw # NoLink => DecryptLinkOK(v.raw)

DataOK(v) == v.data # NoLink /\ DecryptLinkDataOK(v.data)

DecryptRaw(v) == IF v.raw = NoLink THEN v ELSE [v EXCEPT !.raw = DecryptLink(@)]
DecryptData(v) == IF DataOK(v) THEN [v EXCEPT !.data.layers = Front(@)] ELSE v

\* Mutant: an object has a raw link, or data.
parseAndDecryptLink_RawOrData(v) ==
  IF v.kind = "object" /\ Unmarshals(v) /\ RawOK(v)
  THEN IF v.raw = NoLink THEN DecryptData(v) ELSE DecryptRaw(v)
  ELSE v

\* A raw link that cannot be decrypted ends it, before the data.
parseAndDecryptLink(v) ==
  IF v.kind = "object" /\ Unmarshals(v) /\ RawOK(v) THEN DecryptData(DecryptRaw(v)) ELSE v

\* Whatever becomes of a value, decryptLinks goes on with those in it.
decryptLinks(answer) ==
  [n \in DOMAIN answer |->
     IF Reached(answer, n) THEN parseAndDecryptLink(answer[n]) ELSE answer[n]]

\* Of any GraphQL query: one link, with its hash or without; or all of a link, or its data,
\* and in the same object another link, in a slice or where decryptLinks does not get.
Answers ==
  LET Pairs == {p \in trace \X trace : p[1] # p[2]}
      Raw(in, t, hash) == Value(in, "object", t.link, NoLink, hash)
      Both(t) == Value({}, "object", t.link, t.link, Hash(t.link))
      Data(t) == Value({}, "object", NoLink, t.link, <<>>)
      In(outer, kind, t) ==
        <<outer, Value({1}, kind, NoLink, NoLink, <<>>), Raw({1, 2}, t, Hash(t.link))>>
  IN  {<<Raw({}, t, <<>>)>> : t \in trace} \cup {<<Raw({}, t, Hash(t.link))>> : t \in trace}
        \cup {In(Both(p[1]), "slice", p[2]) : p \in Pairs}
        \cup {In(Data(p[1]), "other", p[2]) : p \in Pairs}

CallTraceGql ==
  /\ \E answer \in Answers :
       page' = IF decryptor THEN decryptLinks(answer) ELSE answer
  /\ decrypted' = FALSE
  /\ UNCHANGED <<groupVars, keys, steady, linkVars, trace, decryptor>>

\* Mutant: the links that cannot be decrypted are skipped.
DecryptLinks_SkipsErrors ==
  /\ Segments # {}
  /\ page' = [n \in DOMAIN page |-> DecryptRaw(page[n])]
  /\ decrypted' = TRUE
  /\ UNCHANGED <<groupVars, keys, steady, linkVars, trace, decryptor>>

\* DecryptLinks, on the raw links of what a client without a decryptor returned, or on
\* any links again: it stops after the first error.
DecryptLinks ==
  LET OK(n) == \A m \in 1 .. n : RawOK(page[m])
  IN  /\ Segments # {}
      /\ page' = [n \in DOMAIN page |-> IF OK(n - 1) THEN DecryptRaw(page[n]) ELSE page[n]]
      /\ decrypted' = OK(Len(page))
      /\ UNCHANGED <<groupVars, keys, steady, linkVars, trace, decryptor>>

Next ==
  \/ \E o \in Owners : Join(o)
  \/ \E r \in group : Leave(r) \/ NewKey(r)
  \/ GetRecipientsPublicKeys \/ RecipientsNotFound
  \/ \E i \in Ids : Build(i) \/ NewLink(i) \/ EncryptLink(i) \/ EncryptLinkFails(i) \/ SetData(i)
  \/ \E ids \in SUBSET Ids : CreateLinks(ids) \/ CreateLinksFails(ids)
  \/ CallTraceGql \/ DecryptLinks

Spec == Init /\ [][Next]_vars
-----------------------------------------------------------------------------
(* Properties.                                                             *)

\* The links there are, the hashes and the signatures of them.
Layers == Seq(1 .. MaxEncryptions)
Hashes == {<<>>} \cup (Ids \X Forms \X Layers)
Metas == {"none", "object", "other"}
Rings == [key : 0 .. MaxEncryptions, for : SUBSET Recipients]
Contents == [form : Forms, layers : Layers, meta : Metas, ring : Rings]
Link ==
  [id : Ids, map : Ids, priority : Nat \ {0}, parent : [hash : Hashes, computed : BOOLEAN],
   form : Forms, layers : Layers, meta : Metas, ring : Rings, sigs : Seq(Contents)]
Values ==
  [in : SUBSET (Nat \ {0}), kind : {"object", "slice", "other"},
   raw : Link \cup {NoLink}, data : Link \cup {NoLink}, hash : Hashes]

\* The variables stay in their types.
TypeOK ==
  /\ group \subseteq Recipients
  /\ changes \in 0 .. MaxChanges
  /\ keys \subseteq Recipients /\ steady \subseteq Recipients
  /\ DOMAIN links = Ids
  /\ \A i \in Built : links[i] \in Link /\ links[i].id = i
  /\ readers \in [Ids -> SUBSET Recipients]
  /\ failed \subseteq Built /\ changed \subseteq Built
  /\ symKey \in 0 .. MaxEncryptions
  /\ trace \subseteq
       [link : Link, readers : SUBSET Recipients, whole : BOOLEAN, changed : BOOLEAN]
  /\ page \in Seq(Values)
  /\ decryptor \in BOOLEAN /\ decrypted \in BOOLEAN

\* chainscript.go:20 and :85: a link that was encrypted once, without an error, can be
\* decrypted by everyone who was in the workflow, with the same key, from the call of
\* GetRecipientsPublicKeys to its encryption, whoever came and went meanwhile.
\* (An error after SetData, chainscript.go:96, leaves one that nobody can decrypt.)
MembersCanRead ==
  \A t \in trace : t.whole /\ Len(t.link.layers) = 1 =>
    /\ Last(t.link.layers) = t.link.ring.key
    /\ t.readers \subseteq t.link.ring.for

\* trace.go:230: what Trace accepted has one signature of ours, under no other
\* signature before or after, and it is of that very content.  So a call of CreateLink or
\* CreateLinks again, after an error or a lost answer, sends what the first call sent;
\* only a link that was encrypted or repaired after a call had signed it goes out under a
\* signature of what it was then.
SentAsSigned ==
  \A t \in trace :
    /\ t.changed \/ t.link.sigs = <<Content(t.link)>>
    /\ \A u \in trace : t.link.id = u.link.id =>
         Len(t.link.sigs) = 1 /\ t.link.sigs = u.link.sigs

\* A link with some of the layers of an accepted one, or all: those that are off were
\* ours to take off.
IsCopy(l, accepted) ==
  /\ l = [accepted EXCEPT !.layers = l.layers]
  /\ IsPrefix(l.layers, accepted.layers)
  /\ l.layers # accepted.layers =>
       /\ MyKey \in l.ring.for
       /\ accepted.layers = Append(l.layers, l.ring.key)

\* The links of which a value has all or the data.
Held(v) == {v.raw, v.data} \ {NoLink}

\* Decrypting, with success or not, once or again, never makes anything else of a link
\* than it was under its layers: what a service sees is a copy of an accepted link
\* (decryptor.go:102).
CopiesAreFaithful ==
  \A n \in DOMAIN page : \A l \in Held(page[n]) : \E t \in trace : IsCopy(l, t.link)

\* trace.go:46: an answer of CallTraceGql holds nothing that its decryptor could decrypt,
\* neither as raw nor as data, at any depth, whatever failed in an object above it or in
\* the same object before it.  Only what is behind a pointer to a pointer, or a pointer in
\* an interface, is never found.
NothingLeftEncrypted ==
  decryptor =>
    \A n \in DOMAIN page : Reached(page, n) =>
      \A l \in Held(page[n]) : ~ DecryptLinkDataOK(l)

\* When DecryptLinks returns nil, all the links are in the clear (decryptor.go:98), but for
\* those that were encrypted twice or more.  It would return nil again, but for two kinds
\* of data: what reads as bytes is taken for encrypted data, and nothing, which
\* EncryptLink encrypts and DecryptLink decrypts, is ErrNoData.
DecryptedIsClear ==
  decrypted =>
    \A n \in DOMAIN page : page[n].raw # NoLink =>
      LET l == page[n].raw
      IN  \/ l.layers = <<>> /\ (DecryptLinkOK(l) \/ l.form \in ByteForms \cup {NoForm})
          \/ \E t \in trace : t.link.id = l.id /\ Len(t.link.layers) >= 2

\* A link that was built after a segment stands one step behind an accepted one in the
\* same map, and names it by the hash under which Trace has it.  Only the hash that
\* NewLink computes for a segment without one (chainscript.go:54) may be unknown to
\* Trace, and only when the connector had decrypted the segment before.
KnownParent(l) ==
  l.parent # NoParent =>
    \E u \in trace :
      /\ l.map = u.link.map
      /\ l.priority = u.link.priority + 1
      /\ \/ l.parent.hash = Hash(u.link)
         \/ /\ l.parent.computed
            /\ l.parent.hash = <<u.link.id, u.link.form, Front(u.link.layers)>>

\* So does every link that Trace accepted.
ParentIsKnown == \A t \in trace : KnownParent(t.link)
=============================================================================
