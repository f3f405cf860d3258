---------------------------- MODULE LinksProofs -----------------------------
(* Proofs about Links, for any owners, forms and bounds: what happens to    *)
(* the signatures of a link and to the keys of its recipients.              *)
EXTENDS Links, FiniteSetTheorems, TLAPS

USE CountsAssumption

-----------------------------------------------------------------------------
(* The inductive invariant.                                                *)

\* A link with the fields of one, whatever is in most of them.
IsLink(l) ==
  /\ l \in [id : {l.id}, map : {l.map}, priority : {l.priority}, parent : {l.parent},
            form : {l.form}, layers : {l.layers}, meta : {l.meta}, ring : {l.ring},
            sigs : {l.sigs}]
  /\ l.layers \in Seq(Nat)
  /\ l.sigs = <<>> \/ Len(l.sigs) = 1

\* The one layer of a link can be taken off by all of rs.
OpenTo(l, rs) ==
  Len(l.layers) = 1 => Last(l.layers) = l.ring.key /\ rs \subseteq l.ring.for

\* The application builds its links in the order of their names.
BuiltInOrder ==
  /\ DOMAIN links = Ids /\ DOMAIN readers = Ids
  /\ \E n \in 0 .. MaxLinks : Built = 1 .. n
  /\ \A i \in Built : IsLink(links[i]) /\ links[i].id = i

\* Whoever has stayed is among the recipients, and can open the links of the
\* application that no error has left behind.
Recipient ==
  /\ symKey \in Nat
  /\ steady \subseteq keys
  /\ failed \subseteq Built
  /\ \A i \in Built \ failed : OpenTo(links[i], readers[i])

\* The signature of a link, if any, is of its content.
OwnSignature(l) == l.sigs = <<>> \/ l.sigs = <<Content(l)>>

SignedAsBuilt == \A i \in Built \ changed : OwnSignature(links[i])

\* What Trace has, it has with the signature that the link keeps.
AcceptedSigned ==
  \A t \in trace :
    /\ t.link.id \in Built
    /\ t.link.sigs = links[t.link.id].sigs /\ Len(t.link.sigs) = 1
    /\ t.changed \/ t.link.sigs = <<Content(t.link)>>
    /\ t.whole => OpenTo(t.link, t.readers)

LinksInv == BuiltInOrder /\ Recipient /\ SignedAsBuilt /\ AcceptedSigned

-----------------------------------------------------------------------------
(* Facts about links.                                                      *)

\* Built links are those with a name.
LEMMA Named ==
  ASSUME NEW l, IsLink(l), l.id \in Ids
  PROVE  l # NoLink
  BY DEF NoLink, Ids

\* The next link to build has no name yet.
LEMMA NextIsNew ==
  ASSUME LinksInv, NEW i \in Ids, i = Cardinality(Built) + 1
  PROVE  i \notin Built /\ Built \cup {i} = 1 .. i
<1>1. PICK n \in 0 .. MaxLinks : Built = 1 .. n
  BY DEF LinksInv, BuiltInOrder
<1>2. Cardinality(1 .. n) = n
  BY FS_Interval
<1> QED BY <1>1, <1>2 DEF Ids

\* An encryption that fails adds a layer.
LEMMA LayeredIs ==
  ASSUME NEW l, IsLink(l), symKey' \in Nat
  PROVE  /\ IsLink(Layered(l)) /\ Layered(l).id = l.id /\ Layered(l).sigs = l.sigs
         /\ Layered(l).layers = Append(l.layers, symKey')
<1>1. Layered(l) = [l EXCEPT !.layers = Append(l.layers, symKey')]
  BY DEF Layered
<1>2. Append(l.layers, symKey') \in Seq(Nat)
  BY DEF IsLink
<1> QED BY <1>1, <1>2 DEF IsLink

\* One that succeeds also keeps its key for the recipients.
LEMMA EncryptedIs ==
  ASSUME NEW l, IsLink(l), symKey' \in Nat
  PROVE  /\ IsLink(Encrypted(l)) /\ Encrypted(l).id = l.id /\ Encrypted(l).sigs = l.sigs
         /\ OpenTo(Encrypted(l), keys)
<1> DEFINE m == Layered(l)
           ring == [key |-> symKey', for |-> keys]
<1>1. /\ IsLink(m) /\ m.id = l.id /\ m.sigs = l.sigs
      /\ m.layers = Append(l.layers, symKey')
  BY LayeredIs
<1>2. Encrypted(l) = [m EXCEPT !.meta = "object", !.ring = ring]
  BY DEF Encrypted
<1>3. ring.key = symKey' /\ ring.for = keys
  OBVIOUS
<1> HIDE DEF m, ring
<1>4. /\ IsLink(Encrypted(l)) /\ Encrypted(l).id = m.id /\ Encrypted(l).sigs = m.sigs
      /\ Encrypted(l).layers = m.layers /\ Encrypted(l).ring = ring
  BY <1>1, <1>2 DEF IsLink
<1>5. Len(Append(l.layers, symKey')) = 1 => Last(Append(l.layers, symKey')) = symKey'
  <2>1. l.layers \in Seq(Nat)
    BY DEF IsLink
  <2> QED BY <2>1 DEF Last
<1> QED BY <1>1, <1>3, <1>4, <1>5 DEF OpenTo

\* A signed link has one signature: the one it had, or a new one.
LEMMA SignedIs ==
  ASSUME NEW l, IsLink(l)
  PROVE  /\ IsLink(SignLink(l)) /\ SignLink(l).id = l.id
         /\ Len(SignLink(l).sigs) = 1
         /\ l.sigs # <<>> => SignLink(l).sigs = l.sigs
         /\ SignLink(l).layers = l.layers /\ SignLink(l).ring = l.ring
         /\ OwnSignature(l) => SignLink(l).sigs = <<Content(SignLink(l))>>
<1> DEFINE e == [id |-> l.id, map |-> l.map, priority |-> l.priority, parent |-> l.parent,
                 form |-> l.form, layers |-> l.layers, meta |-> l.meta, ring |-> l.ring,
                 sigs |-> <<Content(l)>>]
<1>1. CASE l.sigs # <<>>
  BY <1>1 DEF SignLink, IsLink, OwnSignature
<1>2. CASE l.sigs = <<>>
  <2>1. SignLink(l) = e
    BY <1>2 DEF SignLink, IsLink
  <2>2. IsLink(e)
    BY DEF IsLink
  <2>3. Content(e) = Content(l) /\ e.sigs = <<Content(l)>>
    BY DEF Content
  <2> QED BY <1>2, <2>1, <2>2, <2>3
<1> QED BY <1>1, <1>2

\* What the builder builds is in the clear and not signed.
LEMMA BuiltLinksAre ==
  ASSUME NEW i, NEW forms, NEW l \in BuiltLinks(i, forms)
  PROVE  IsLink(l) /\ l.id = i /\ l.layers = <<>> /\ l.sigs = <<>>
<1>1. ASSUME NEW m, NEW form, NEW meta, m = FirstLink(i, form, meta)
      PROVE  IsLink(m) /\ m.id = i /\ m.layers = <<>> /\ m.sigs = <<>>
  BY <1>1 DEF FirstLink, IsLink
<1>2. ASSUME NEW segment, NEW form, NEW meta, l = LinkAfter(segment, i, form, meta)
      PROVE  IsLink(l) /\ l.id = i /\ l.layers = <<>> /\ l.sigs = <<>>
  <2> DEFINE m == FirstLink(i, form, meta)
             parent == ParentHash(segment)
  <2>1. IsLink(m) /\ m.id = i /\ m.layers = <<>> /\ m.sigs = <<>>
    BY <1>1
  <2>2. l = [m EXCEPT !.map = segment.link.map, !.priority = segment.link.priority + 1,
                      !.parent = parent]
    BY <1>2 DEF LinkAfter
  <2> HIDE DEF m, parent
  <2> QED BY <2>1, <2>2 DEF IsLink
<1> QED BY <1>1, <1>2 DEF BuiltLinks

-----------------------------------------------------------------------------
(* The steps.                                                              *)

LEMMA InitInv == Init => LinksInv
<1> SUFFICES ASSUME Init PROVE LinksInv
  OBVIOUS
<1>1. Built = {} /\ 1 .. 0 = {}
  BY DEF Init, Built
<1>2. BuiltInOrder
  BY <1>1 DEF Init, BuiltInOrder
<1> QED BY <1>1, <1>2 DEF Init, LinksInv, Recipient, SignedAsBuilt, AcceptedSigned

\* Steps that leave the links and Trace as they were: of the members, of the keys, and
\* of the answers.
LEMMA FrameInv ==
  ASSUME LinksInv, UNCHANGED <<linkVars, trace>>, steady' \subseteq keys'
  PROVE  LinksInv'
<1>1. UNCHANGED <<links, readers, failed, changed, symKey, trace>>
  BY DEF linkVars
<1>2. Built' = Built
  BY <1>1 DEF Built
<1>3. BuiltInOrder'
  BY <1>1, <1>2 DEF LinksInv, BuiltInOrder
<1>4. Recipient' /\ SignedAsBuilt' /\ AcceptedSigned'
  BY <1>1, <1>2 DEF LinksInv, Recipient, SignedAsBuilt, AcceptedSigned
<1> QED BY <1>3, <1>4 DEF LinksInv

\* One link is built, or changed without a change of its signature.
LEMMA ChangeInv ==
  ASSUME LinksInv, NEW i \in Ids, NEW l, IsLink(l), l.id = i,
         links' = [links EXCEPT ![i] = l],
         \/ i \in Built /\ l.sigs = links[i].sigs
         \/ i = Cardinality(Built) + 1,
         UNCHANGED <<keys, steady, trace>>, symKey' \in Nat,
         DOMAIN readers' = Ids, \A j \in Ids \ {i} : readers'[j] = readers[j],
         failed' \subseteq failed \cup {i}, failed \ {i} \subseteq failed',
         i \in failed' \/ OpenTo(l, readers'[i]),
         changed \subseteq changed', i \in changed' \/ l.sigs = <<>>
  PROVE  LinksInv'
<1>1. DOMAIN links = Ids
  BY DEF LinksInv, BuiltInOrder
<1>2. DOMAIN links' = Ids /\ \A j \in Ids : links'[j] = IF j = i THEN l ELSE links[j]
  BY <1>1
<1>3. Built' = Built \cup {i}
  BY <1>2, Named DEF Built
<1>4. \E n \in 0 .. MaxLinks : Built' = 1 .. n
  <2>1. CASE i \in Built
    BY <1>3, <2>1 DEF LinksInv, BuiltInOrder
  <2>2. CASE i = Cardinality(Built) + 1
    BY <1>3, <2>2, NextIsNew DEF Ids
  <2> QED BY <2>1, <2>2
<1>5. Built \subseteq Ids
  BY DEF Built
<1>6. BuiltInOrder'
  BY <1>2, <1>3, <1>4, <1>5 DEF LinksInv, BuiltInOrder
<1>7. Recipient'
  <2>1. ASSUME NEW j \in Built' \ failed' PROVE OpenTo(links'[j], readers'[j])
    <3>1. CASE j = i
      BY <1>2, <2>1, <3>1
    <3>2. CASE j # i
      <4>1. j \in Built \ failed
        BY <1>3, <2>1, <3>2
      <4> QED BY <1>2, <1>5, <3>2, <4>1 DEF LinksInv, Recipient
    <3> QED BY <3>1, <3>2
  <2> QED BY <1>3, <2>1 DEF LinksInv, Recipient
<1>8. AcceptedSigned'
  <2>1. ASSUME NEW t \in trace PROVE links'[t.link.id].sigs = links[t.link.id].sigs
    <3>1. t.link.id \in Built
      BY DEF LinksInv, AcceptedSigned
    <3>2. CASE t.link.id = i
      BY <1>2, <3>1, <3>2, NextIsNew
    <3>3. CASE t.link.id # i
      BY <1>2, <1>5, <3>1, <3>3
    <3> QED BY <3>2, <3>3
  <2> QED BY <1>3, <2>1 DEF LinksInv, AcceptedSigned
<1>9. SignedAsBuilt'
  <2>1. ASSUME NEW j \in Built' \ changed' PROVE OwnSignature(links'[j])
    <3>1. CASE j = i
      BY <1>2, <2>1, <3>1 DEF OwnSignature
    <3>2. CASE j # i
      <4>1. j \in Built \ changed
        BY <1>3, <2>1, <3>2
      <4> QED BY <1>2, <1>5, <3>2, <4>1 DEF LinksInv, SignedAsBuilt
    <3> QED BY <3>1, <3>2
  <2> QED BY <2>1 DEF SignedAsBuilt
<1> QED BY <1>6, <1>7, <1>8, <1>9 DEF LinksInv

\* Encrypting: the members that stayed are among the recipients.
LEMMA EncryptInv ==
  ASSUME LinksInv, NEW i \in Ids, EncryptLink(i) \/ NewLink(i) \/ EncryptLinkFails(i)
  PROVE  LinksInv'
<1>1. symKey' \in Nat /\ UNCHANGED <<keys, steady, trace>> /\ steady \subseteq keys
      /\ DOMAIN readers = Ids
  BY DEF EncryptLink, NewLink, EncryptLinkFails, NextKey, LinksInv, Recipient, BuiltInOrder
<1>2. \A l : OpenTo(l, keys) => OpenTo(l, steady)
  BY <1>1 DEF OpenTo
<1>3. \A l : readers' = [readers EXCEPT ![i] = steady] =>
        DOMAIN readers' = Ids /\ readers'[i] = steady
        /\ \A j \in Ids \ {i} : readers'[j] = readers[j]
  BY <1>1
<1>4. CASE EncryptLink(i)
  <2>1. IsLink(links[i]) /\ links[i].id = i
    BY <1>4 DEF EncryptLink, LinksInv, BuiltInOrder
  <2>2. PICK l : l = Encrypted(links[i])
    OBVIOUS
  <2>3. IsLink(l) /\ l.id = i /\ l.sigs = links[i].sigs /\ OpenTo(l, steady)
    BY <1>1, <1>2, <2>1, <2>2, EncryptedIs
  <2>4. i \in Built /\ links' = [links EXCEPT ![i] = l] /\ failed' = failed
        /\ readers' = [readers EXCEPT ![i] = steady]
        /\ changed \subseteq changed' /\ (i \in changed' \/ links[i].sigs = <<>>)
    BY <1>4, <2>2 DEF EncryptLink, Changes
  <2> QED BY <1>1, <1>3, <2>3, <2>4, ChangeInv
<1>5. CASE NewLink(i)
  <2>1. PICK b \in BuiltLinks(i, SomeForms) : links' = [links EXCEPT ![i] = Encrypted(b)]
    BY <1>5 DEF NewLink
  <2>2. PICK l : l = Encrypted(b)
    OBVIOUS
  <2>3. IsLink(l) /\ l.id = i /\ OpenTo(l, steady) /\ l.sigs = <<>>
    BY <1>1, <1>2, <2>2, BuiltLinksAre, EncryptedIs
  <2>4. i = Cardinality(Built) + 1 /\ links' = [links EXCEPT ![i] = l] /\ failed' = failed
        /\ changed' = changed
        /\ readers' = [readers EXCEPT ![i] = steady]
    BY <1>5, <2>1, <2>2 DEF NewLink
  <2> QED BY <1>1, <1>3, <2>3, <2>4, ChangeInv
<1>6. CASE EncryptLinkFails(i)
  <2>1. IsLink(links[i]) /\ links[i].id = i
    BY <1>6 DEF EncryptLinkFails, LinksInv, BuiltInOrder
  <2>2. PICK l : l = Layered(links[i])
    OBVIOUS
  <2>3. IsLink(l) /\ l.id = i /\ l.sigs = links[i].sigs
    BY <1>1, <2>1, <2>2, LayeredIs
  <2>4. i \in Built /\ links' = [links EXCEPT ![i] = l] /\ failed' = failed \cup {i}
        /\ readers' = readers
        /\ changed \subseteq changed' /\ (i \in changed' \/ links[i].sigs = <<>>)
    BY <1>6, <2>2 DEF EncryptLinkFails, Changes
  <2> QED BY <1>1, <2>3, <2>4, ChangeInv
<1> QED BY <1>4, <1>5, <1>6

\* Data in the clear can be read by all.
LEMMA ClearInv ==
  ASSUME LinksInv, NEW i \in Ids, Build(i) \/ SetData(i)
  PROVE  LinksInv'
<1>1. UNCHANGED <<keys, steady, trace, symKey, readers>> /\ symKey \in Nat
      /\ DOMAIN readers = Ids
  BY DEF Build, SetData, LinksInv, Recipient, BuiltInOrder
<1>2. \A l, rs : l.layers = <<>> => OpenTo(l, rs)
  BY DEF OpenTo
<1>3. CASE Build(i)
  <2>1. PICK l \in BuiltLinks(i, Forms) : links' = [links EXCEPT ![i] = l]
    BY <1>3 DEF Build
  <2>2. i = Cardinality(Built) + 1 /\ failed' = failed /\ changed' = changed
    BY <1>3 DEF Build
  <2>3. IsLink(l) /\ l.id = i /\ l.layers = <<>> /\ l.sigs = <<>>
    BY BuiltLinksAre
  <2> QED BY <1>1, <1>2, <2>1, <2>2, <2>3, ChangeInv
<1>4. CASE SetData(i)
  <2>1. i \in Built /\ failed' = failed \ {i}
        /\ changed \subseteq changed' /\ (i \in changed' \/ links[i].sigs = <<>>)
    BY <1>4 DEF SetData, Changes, LinksInv, Recipient
  <2>2. links' = [links EXCEPT ![i] = [links[i] EXCEPT !.layers = <<>>]]
    BY <1>4 DEF SetData
  <2>3. PICK l : l = [links[i] EXCEPT !.layers = <<>>]
    OBVIOUS
  <2>4. IsLink(links[i]) /\ links[i].id = i
    BY <2>1 DEF LinksInv, BuiltInOrder
  <2>5. IsLink(l) /\ l.id = i /\ l.layers = <<>> /\ l.sigs = links[i].sigs
    <3>1. PICK old, empty : old = links[i] /\ empty = <<>>
      OBVIOUS
    <3>2. l = [old EXCEPT !.layers = empty] /\ IsLink(old) /\ old.id = i
      BY <2>3, <2>4, <3>1
    <3>3. empty \in Seq(Nat)
      BY <3>1
    <3>4. IsLink(l) /\ l.id = i /\ l.layers = empty /\ l.sigs = old.sigs
      BY ONLY <3>2, <3>3 DEF IsLink
    <3> QED BY <3>1, <3>4
  <2> QED BY <1>1, <1>2, <2>1, <2>2, <2>3, <2>5, ChangeInv
<1> QED BY <1>3, <1>4

\* Signing leaves one signature on a link; what Trace accepts has it.
LEMMA SignInv ==
  ASSUME LinksInv, NEW ids \in SUBSET Ids, CreateLinks(ids) \/ CreateLinksFails(ids)
  PROVE  LinksInv'
<1>1. /\ ids \subseteq Built
      /\ links' = SignAll(ids)
      /\ UNCHANGED <<keys, steady, readers, failed, changed, symKey>>
      /\ \/ trace' = trace
         \/ trace' = trace \cup {Accepted(i) : i \in ids}
  BY DEF CreateLinks, CreateLinksFails
<1>2. /\ DOMAIN links' = Ids
      /\ \A i \in Ids : links'[i] = IF i \in ids THEN SignLink(links[i]) ELSE links[i]
  BY <1>1 DEF SignAll
<1>3. Built \subseteq Ids
  BY DEF Built
<1>4. \A i \in Built : /\ IsLink(links[i]) /\ links[i].id = i
                       /\ IsLink(links'[i]) /\ links'[i].id = i
                       /\ i \in ids => Len(links'[i].sigs) = 1
                       /\ links[i].sigs # <<>> => links'[i].sigs = links[i].sigs
                       /\ links'[i].layers = links[i].layers /\ links'[i].ring = links[i].ring
                       /\ i \in ids /\ OwnSignature(links[i]) =>
                            links'[i].sigs = <<Content(links'[i])>>
                       /\ OwnSignature(links[i]) => OwnSignature(links'[i])
  <2>1. \A i \in Built : IsLink(links[i]) /\ links[i].id = i
    BY DEF LinksInv, BuiltInOrder
  <2> QED BY <1>2, <1>3, <2>1, SignedIs DEF OwnSignature
<1>5. Built' = Built
  <2>1. \A i \in Built : links'[i] # NoLink
    BY <1>3, <1>4, Named
  <2>2. \A i \in Ids \ Built : links'[i] = links[i]
    BY <1>1, <1>2
  <2> QED BY <1>3, <2>1, <2>2 DEF Built
<1>6. BuiltInOrder'
  BY <1>1, <1>2, <1>4, <1>5 DEF LinksInv, BuiltInOrder
<1>7. Recipient'
  BY <1>1, <1>4, <1>5 DEF LinksInv, Recipient, OpenTo
<1>8. AcceptedSigned'
  <2>1. ASSUME NEW t \in trace
        PROVE  /\ t.link.id \in Built
               /\ t.link.sigs = links'[t.link.id].sigs /\ Len(t.link.sigs) = 1
               /\ t.changed \/ t.link.sigs = <<Content(t.link)>>
               /\ t.whole => OpenTo(t.link, t.readers)
    <3>1. /\ t.link.id \in Built
          /\ t.link.sigs = links[t.link.id].sigs /\ Len(t.link.sigs) = 1
          /\ t.changed \/ t.link.sigs = <<Content(t.link)>>
          /\ t.whole => OpenTo(t.link, t.readers)
      BY DEF LinksInv, AcceptedSigned
    <3>2. Len(<<>>) # 1
      OBVIOUS
    <3>3. links[t.link.id].sigs # <<>>
      BY <3>1, <3>2, Zenon
    <3> QED BY <1>4, <3>1, <3>3
  <2>2. ASSUME NEW i \in ids, NEW t, t = Accepted(i)
        PROVE  /\ t.link.id \in Built
               /\ t.link.sigs = links'[t.link.id].sigs /\ Len(t.link.sigs) = 1
               /\ t.changed \/ t.link.sigs = <<Content(t.link)>>
               /\ t.whole => OpenTo(t.link, t.readers)
    <3>1. t.link = links'[i] /\ t.readers = readers[i] /\ (t.whole <=> i \notin failed)
          /\ (t.changed <=> i \in changed)
      BY <2>2 DEF Accepted
    <3>2. i \in Built /\ links'[i].id = i /\ Len(links'[i].sigs) = 1
      BY <1>1, <1>4
    <3>3. i \notin failed => OpenTo(links'[i], readers[i])
      BY <1>4, <3>2 DEF LinksInv, Recipient, OpenTo
    <3>4. i \in changed \/ links'[i].sigs = <<Content(links'[i])>>
      BY <1>4, <3>2 DEF LinksInv, SignedAsBuilt
    <3> QED BY <3>1, <3>2, <3>3, <3>4
  <2> QED BY <1>1, <1>5, <2>1, <2>2 DEF AcceptedSigned
<1>9. SignedAsBuilt'
  BY <1>1, <1>4, <1>5 DEF LinksInv, SignedAsBuilt
<1> QED BY <1>6, <1>7, <1>8, <1>9 DEF LinksInv

LEMMA NextInv ==
  ASSUME LinksInv, [Next]_vars
  PROVE  LinksInv'
<1>0. steady \subseteq keys
  BY DEF LinksInv, Recipient
<1>1. CASE UNCHANGED vars
  BY <1>0, <1>1, FrameInv DEF vars
<1>2. CASE \/ \E o \in Owners : Join(o)
           \/ \E r \in group : Leave(r) \/ NewKey(r)
  <2>1. PICK new : GroupChanges(new)
    BY <1>2 DEF Join, Leave, NewKey
  <2> QED BY <1>0, <2>1, FrameInv DEF GroupChanges
<1>3. CASE GetRecipientsPublicKeys \/ RecipientsNotFound
  BY <1>3, FrameInv DEF GetRecipientsPublicKeys, RecipientsNotFound
<1>4. CASE CallTraceGql \/ DecryptLinks
  BY <1>0, <1>4, FrameInv DEF CallTraceGql, DecryptLinks
<1>5. CASE \E i \in Ids : NewLink(i) \/ EncryptLink(i) \/ EncryptLinkFails(i)
  BY <1>5, EncryptInv
<1>6. CASE \E i \in Ids : Build(i) \/ SetData(i)
  BY <1>6, ClearInv
<1>7. CASE \E ids \in SUBSET Ids : CreateLinks(ids) \/ CreateLinksFails(ids)
  BY <1>7, SignInv
<1> QED BY <1>1, <1>2, <1>3, <1>4, <1>5, <1>6, <1>7 DEF Next

-----------------------------------------------------------------------------
(* The theorems.                                                           *)

LEMMA InvariantHolds == Spec => []LinksInv
<1>1. Init => LinksInv
  BY InitInv
<1>2. LinksInv /\ [Next]_vars => LinksInv'
  BY NextInv
<1> QED BY <1>1, <1>2, PTL DEF Spec

\* However often CreateLink and CreateLinks are called again, and for whatever links
\* together, Trace has a link under one signature, and that is of what it has unless the
\* link changed after it was signed.
THEOREM AcceptedAsSigned == Spec => []SentAsSigned
<1>1. LinksInv => SentAsSigned
  BY DEF LinksInv, AcceptedSigned, SentAsSigned
<1> QED BY <1>1, InvariantHolds, PTL

\* Whoever joins, leaves or changes keys in the meantime, those who did not can decrypt
\* a link whose encryption succeeded.
THEOREM StayedCanRead == Spec => []MembersCanRead
<1>1. LinksInv => MembersCanRead
  BY DEF LinksInv, AcceptedSigned, MembersCanRead, OpenTo
<1> QED BY <1>1, InvariantHolds, PTL
=============================================================================
