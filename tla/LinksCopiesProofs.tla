------------------------- MODULE LinksCopiesProofs --------------------------
(* Proofs about Links, for any owners, forms and bounds: the types of its   *)
(* variables, and how the copies of links that decryption works on, and the *)
(* links that are built after them, relate to the links that Trace has.     *)
EXTENDS LinksProofs, SequenceTheorems

USE CountsAssumption

-----------------------------------------------------------------------------
(* Type correctness.                                                       *)

\* A version of an owner's key is at most one ahead of the changes there were.
TypeInv == TypeOK /\ group \subseteq Owners \X (0 .. changes + 1)

\* What each function makes of a link is a link.
LEMMA LayeredType ==
  ASSUME NEW l \in Link, symKey' \in 1 .. MaxEncryptions
  PROVE  Layered(l) \in Link
<1>1. PICK new : new = Append(l.layers, symKey')
  OBVIOUS
<1>2. new \in Layers
  BY <1>1 DEF Link, Layers
<1>3. Layered(l) = [l EXCEPT !.layers = new]
  BY <1>1 DEF Layered
<1> QED BY <1>2, <1>3 DEF Link

LEMMA EncryptedType ==
  ASSUME NEW l \in Link, symKey' \in 1 .. MaxEncryptions, keys \subseteq Recipients
  PROVE  Encrypted(l) \in Link /\ Encrypted(l).id = l.id
<1>1. PICK m \in Link : m = Layered(l)
  BY LayeredType
<1>2. PICK ring : ring = [key |-> symKey', for |-> keys]
  OBVIOUS
<1>3. ring \in Rings
  BY <1>2 DEF Rings
<1>4. Encrypted(l) = [m EXCEPT !.meta = "object", !.ring = ring]
  BY <1>1, <1>2 DEF Encrypted
<1>5. m.id = l.id
  BY <1>1 DEF Layered, Link
<1> QED BY <1>3, <1>4, <1>5 DEF Link, Metas

LEMMA SignedType ==
  ASSUME NEW l \in Link
  PROVE  SignLink(l) \in Link /\ SignLink(l).id = l.id
<1>1. Content(l) \in Contents
  BY DEF Content, Contents, Link
<1>2. PICK new : new = <<Content(l)>>
  OBVIOUS
<1>3. new \in Seq(Contents)
  BY <1>1, <1>2
<1>4. SignLink(l) = l \/ SignLink(l) = [l EXCEPT !.sigs = new]
  BY <1>2 DEF SignLink
<1> QED BY <1>3, <1>4 DEF Link

LEMMA HashType ==
  ASSUME NEW l \in Link
  PROVE  Hash(l) \in Hashes /\ Hash(l) # <<>>
  BY DEF Hash, Hashes, Link

LEMMA FirstLinkType ==
  ASSUME NEW i \in Ids, NEW form \in Forms, NEW meta \in Metas
  PROVE  FirstLink(i, form, meta) \in Link
<1>1. NoParent \in [hash : Hashes, computed : BOOLEAN] /\ NoRing \in Rings
  <2>1. NoParent \in [hash : Hashes, computed : BOOLEAN]
    BY DEF NoParent, Hashes
  <2>2. 0 \in 0 .. MaxEncryptions /\ {} \in SUBSET Recipients
    OBVIOUS
  <2> QED BY <2>1, <2>2 DEF NoRing, Rings
<1>2. <<>> \in Layers /\ <<>> \in Seq(Contents)
  BY DEF Layers
<1> QED BY <1>1, <1>2 DEF FirstLink, Link

\* What a link is built after.
LEMMA SegmentType ==
  ASSUME TypeOK, NEW segment \in Segments
  PROVE  \E n \in DOMAIN page :
           /\ segment = [link |-> page[n].raw, hash |-> page[n].hash]
           /\ page[n].raw # NoLink
           /\ segment.link \in Link /\ segment.hash \in Hashes
<1>1. PICK v \in ToSet(page) :
        v.raw # NoLink /\ segment = [link |-> v.raw, hash |-> v.hash]
  BY DEF Segments
<1>2. PICK n \in DOMAIN page : v = page[n]
  BY <1>1 DEF ToSet
<1>3. page \in Seq(Values)
  BY DEF TypeOK
<1>4. page[n] \in Values
  BY <1>3, ElementOfSeq, LenProperties
<1> QED BY <1>1, <1>2, <1>4 DEF Values

LEMMA ParentType ==
  ASSUME NEW segment, segment.link \in Link, segment.hash \in Hashes
  PROVE  ParentHash(segment) \in [hash : Hashes, computed : BOOLEAN]
  BY HashType DEF ParentHash

LEMMA BuiltLinksType ==
  ASSUME TypeOK, NEW i \in Ids, NEW forms \in SUBSET Forms, NEW l \in BuiltLinks(i, forms)
  PROVE  l \in Link
<1>1. CASE i = 1
  BY <1>1, FirstLinkType DEF BuiltLinks, Metas
<1>2. CASE i # 1
  <2>1. PICK segment \in Segments, form \in Forms : l = LinkAfter(segment, i, form, "object")
    BY <1>2 DEF BuiltLinks, SomeForms
  <2>2. segment.link \in Link /\ segment.hash \in Hashes
    BY SegmentType
  <2>3. PICK m \in Link : m = FirstLink(i, form, "object")
    BY FirstLinkType DEF Metas
  <2>4. PICK parent \in [hash : Hashes, computed : BOOLEAN] : parent = ParentHash(segment)
    BY <2>2, ParentType
  <2>5. PICK map \in Ids, priority \in Nat \ {0} :
          map = segment.link.map /\ priority = segment.link.priority + 1
    BY <2>2 DEF Link
  <2>6. l = [m EXCEPT !.map = map, !.priority = priority, !.parent = parent]
    BY <2>1, <2>3, <2>4, <2>5 DEF LinkAfter
  <2> QED BY <2>6 DEF Link
<1> QED BY <1>1, <1>2

\* A sequence without its last element.
LEMMA FrontIs ==
  ASSUME NEW S, NEW q \in Seq(S), q # <<>>
  PROVE  /\ Front(q) \in Seq(S) /\ Len(Front(q)) = Len(q) - 1
         /\ \A i \in 1 .. Len(q) - 1 : Front(q)[i] = q[i]
         /\ q = Append(Front(q), Last(q))
<1>1. Len(q) \in Nat /\ Len(q) # 0
  BY LenProperties, EmptySeq
<1>2. Front(q) = SubSeq(q, 1, Len(q) - 1)
  BY DEF Front
<1>3. PICK n \in Nat : n = Len(q) - 1
  BY <1>1
<1>4. /\ Front(q) \in Seq(S) /\ Len(Front(q)) = Len(q) - 1
      /\ \A i \in 1 .. Len(q) - 1 : Front(q)[i] = q[i]
  <2>1. \A i \in 1 .. n : q[i] \in S
    BY <1>1, <1>3, ElementOfSeq
  <2>2. /\ SubSeq(q, 1, n) \in Seq(S)
        /\ Len(SubSeq(q, 1, n)) = IF 1 <= n THEN n - 1 + 1 ELSE 0
        /\ \A i \in 1 .. n - 1 + 1 : SubSeq(q, 1, n)[i] = q[1 + i - 1]
    BY <2>1, SubSeqProperties
  <2> QED BY <1>2, <1>3, <2>2
<1>5. q = Append(Front(q), Last(q))
  BY <1>1, <1>4 DEF Last
<1> QED BY <1>4, <1>5

LEMMA DecryptedType ==
  ASSUME NEW l \in Link
  PROVE  DecryptLink(l) \in Link
<1>1. CASE DecryptLinkOK(l) /\ IsBytes(l)
  <2>1. l.layers \in Layers /\ l.layers # <<>>
    BY <1>1 DEF DecryptLinkOK, DecryptLinkDataOK, Link
  <2>2. PICK new : new = Front(l.layers)
    OBVIOUS
  <2>3. new \in Layers
    BY <2>1, <2>2, FrontIs DEF Layers
  <2>4. DecryptLink(l) = [l EXCEPT !.layers = new]
    BY <1>1, <2>2 DEF DecryptLink
  <2> QED BY <2>3, <2>4 DEF Link
<1>2. CASE ~ (DecryptLinkOK(l) /\ IsBytes(l))
  BY <1>2 DEF DecryptLink
<1> QED BY <1>1, <1>2

\* The steps.
LEMMA InitType == Init => TypeInv
<1> SUFFICES ASSUME Init PROVE TypeInv
  OBVIOUS
<1>1. Built = {}
  BY DEF Init, Built
<1>2. group \subseteq Owners \X (0 .. changes + 1) /\ group \subseteq Recipients
  BY OwnersAssumption DEF Init, MyKey, Recipients
<1>3. trace = {} /\ page = <<>> /\ keys = {} /\ steady = {} /\ failed = {} /\ changed = {}
      /\ changes = 0 /\ symKey = 0 /\ decrypted = FALSE /\ decryptor \in BOOLEAN
      /\ links = [i \in Ids |-> NoLink] /\ readers = [i \in Ids |-> {}]
  BY DEF Init
<1>4. readers \in [Ids -> SUBSET Recipients] /\ DOMAIN links = Ids
  BY <1>3
<1>5. decryptor \in BOOLEAN /\ decrypted \in BOOLEAN
  BY <1>3, Zenon
<1>6. /\ changes \in 0 .. MaxChanges /\ symKey \in 0 .. MaxEncryptions
      /\ keys \subseteq Recipients /\ steady \subseteq Recipients /\ failed \subseteq Built
      /\ changed \subseteq Built /\ page \in Seq(Values)
  BY <1>3
<1> QED BY <1>1, <1>2, <1>3, <1>4, <1>5, <1>6 DEF TypeInv, TypeOK

\* One link is built or changed, into a link of that name.
LEMMA ChangeType ==
  ASSUME TypeInv, NEW i \in Ids, NEW l \in Link, l.id = i,
         links' = [links EXCEPT ![i] = l],
         symKey' \in 0 .. MaxEncryptions,
         failed' \subseteq Built \cup {i}, changed' \subseteq Built \cup {i},
         readers' = readers \/ readers' = [readers EXCEPT ![i] = steady],
         UNCHANGED <<groupVars, keys, steady, trace, pageVars, decryptor>>
  PROVE  TypeInv'
<1>1. DOMAIN links' = Ids /\ links'[i] = l /\ \A j \in Ids \ {i} : links'[j] = links[j]
  BY DEF TypeInv, TypeOK
<1>2. l # NoLink
  BY DEF Link, NoLink
<1>3. Built' = Built \cup {i}
  BY <1>1, <1>2 DEF Built
<1>4. \A j \in Built' : links'[j] \in Link /\ links'[j].id = j
  BY <1>1, <1>3 DEF TypeInv, TypeOK, Built
<1>5. readers' \in [Ids -> SUBSET Recipients]
  BY DEF TypeInv, TypeOK
<1>6. failed' \subseteq Built' /\ changed' \subseteq Built'
  BY <1>3
<1> QED BY <1>1, <1>4, <1>5, <1>6 DEF TypeInv, TypeOK, groupVars, pageVars, Recipients

LEMMA EncryptType ==
  ASSUME TypeInv, NEW i \in Ids, EncryptLink(i) \/ NewLink(i) \/ EncryptLinkFails(i)
  PROVE  TypeInv'
<1>1. symKey' \in 1 .. MaxEncryptions
  BY DEF EncryptLink, NewLink, EncryptLinkFails, NextKey, TypeInv, TypeOK
<1>2. PICK l \in Link : l.id = i /\ links' = [links EXCEPT ![i] = l]
  <2>1. keys \subseteq Recipients
    BY DEF TypeInv, TypeOK
  <2>2. CASE EncryptLink(i)
    <3>1. links[i] \in Link /\ links[i].id = i /\ links' = [links EXCEPT ![i] = Encrypted(links[i])]
      BY <2>2 DEF EncryptLink, TypeInv, TypeOK
    <3> QED BY <1>1, <2>1, <3>1, EncryptedType
  <2>3. CASE NewLink(i)
    <3>1. PICK b \in BuiltLinks(i, SomeForms) : links' = [links EXCEPT ![i] = Encrypted(b)]
      BY <2>3 DEF NewLink
    <3>2. b \in Link /\ b.id = i
      BY BuiltLinksType, BuiltLinksAre DEF TypeInv, SomeForms
    <3> QED BY <1>1, <2>1, <3>1, <3>2, EncryptedType
  <2>4. CASE EncryptLinkFails(i)
    <3>1. links[i] \in Link /\ links[i].id = i /\ links' = [links EXCEPT ![i] = Layered(links[i])]
      BY <2>4 DEF EncryptLinkFails, TypeInv, TypeOK
    <3>2. Layered(links[i]).id = links[i].id
      BY <3>1 DEF Layered, Link
    <3> QED BY <1>1, <3>1, <3>2, LayeredType
  <2> QED BY <2>2, <2>3, <2>4
<1>3. /\ failed' \subseteq Built \cup {i} /\ changed' \subseteq Built \cup {i}
      /\ symKey' \in 0 .. MaxEncryptions
      /\ readers' = readers \/ readers' = [readers EXCEPT ![i] = steady]
      /\ UNCHANGED <<groupVars, keys, steady, trace, pageVars, decryptor>>
  BY <1>1 DEF EncryptLink, NewLink, EncryptLinkFails, Changes, TypeInv, TypeOK
<1> QED BY <1>2, <1>3, ChangeType

LEMMA ClearType ==
  ASSUME TypeInv, NEW i \in Ids, Build(i) \/ SetData(i)
  PROVE  TypeInv'
<1>1. PICK l \in Link : l.id = i /\ links' = [links EXCEPT ![i] = l]
  <2>1. CASE Build(i)
    <3>1. PICK l \in BuiltLinks(i, Forms) : links' = [links EXCEPT ![i] = l]
      BY <2>1 DEF Build
    <3> QED BY <3>1, BuiltLinksType, BuiltLinksAre DEF TypeInv
  <2>2. CASE SetData(i)
    <3>1. links[i] \in Link /\ links[i].id = i
      BY <2>2 DEF SetData, TypeInv, TypeOK
    <3>2. PICK empty \in {<<>>}, old \in {links[i]} :
            links' = [links EXCEPT ![i] = [old EXCEPT !.layers = empty]]
      BY <2>2 DEF SetData
    <3>3. empty \in Layers
      BY <3>2 DEF Layers
    <3>4. PICK l : l = [old EXCEPT !.layers = empty]
      OBVIOUS
    <3>5. l \in Link /\ l.id = i
      BY <3>1, <3>2, <3>3, <3>4 DEF Link
    <3> QED BY <3>2, <3>4, <3>5
  <2> QED BY <2>1, <2>2
<1>2. /\ failed' \subseteq Built \cup {i} /\ changed' \subseteq Built \cup {i}
      /\ symKey' \in 0 .. MaxEncryptions /\ readers' = readers
      /\ UNCHANGED <<groupVars, keys, steady, trace, pageVars, decryptor>>
  BY DEF Build, SetData, Changes, TypeInv, TypeOK
<1> QED BY <1>1, <1>2, ChangeType

LEMMA SignType ==
  ASSUME TypeInv, NEW ids \in SUBSET Ids, CreateLinks(ids) \/ CreateLinksFails(ids)
  PROVE  TypeInv'
<1>1. /\ ids \subseteq Built
      /\ links' = SignAll(ids)
      /\ UNCHANGED <<groupVars, keys, steady, readers, failed, changed, symKey>>
      /\ UNCHANGED <<pageVars, decryptor>>
      /\ \/ trace' = trace
         \/ trace' = trace \cup {Accepted(i) : i \in ids}
  BY DEF CreateLinks, CreateLinksFails
<1>2. /\ DOMAIN links' = Ids
      /\ \A i \in Ids : links'[i] = IF i \in ids THEN SignLink(links[i]) ELSE links[i]
  BY <1>1 DEF SignAll
<1>3. \A i \in Built : links'[i] \in Link /\ links'[i].id = i
  BY <1>2, SignedType DEF TypeInv, TypeOK, Built
<1>4. Built' = Built
  <2>1. \A l \in Link : l # NoLink
    BY DEF Link, NoLink
  <2> QED BY <1>1, <1>2, <1>3, <2>1 DEF Built
<1>5. \A i \in ids : Accepted(i) \in
        [link : Link, readers : SUBSET Recipients, whole : BOOLEAN, changed : BOOLEAN]
  <2> TAKE i \in ids
  <2>1. (i \notin failed) \in BOOLEAN /\ (i \in changed) \in BOOLEAN
    OBVIOUS
  <2>2. PICK whole \in BOOLEAN, signed \in BOOLEAN :
          whole = (i \notin failed) /\ signed = (i \in changed)
    BY <2>1
  <2>3. Accepted(i) =
          [link |-> links'[i], readers |-> readers[i], whole |-> whole, changed |-> signed]
    BY <2>2 DEF Accepted
  <2>4. links'[i] \in Link /\ readers[i] \in SUBSET Recipients
    BY <1>1, <1>3 DEF TypeInv, TypeOK
  <2> QED BY <2>3, <2>4
<1>6. trace' \subseteq
        [link : Link, readers : SUBSET Recipients, whole : BOOLEAN, changed : BOOLEAN]
  BY <1>1, <1>5 DEF TypeInv, TypeOK
<1> QED BY <1>1, <1>2, <1>3, <1>4, <1>6 DEF TypeInv, TypeOK, groupVars, pageVars, Recipients

\* What an answer has of a link that Trace has.
Fresh(t) ==
  [in : SUBSET (Nat \ {0}), kind : {"object"}, raw : {NoLink, t.link}, data : {NoLink, t.link},
   hash : {<<>>, Hash(t.link)}]
    \cup [in : SUBSET (Nat \ {0}), kind : {"slice", "other"}, raw : {NoLink}, data : {NoLink},
          hash : {<<>>}]

LEMMA FreshType ==
  ASSUME NEW t, t.link \in Link
  PROVE  Fresh(t) \subseteq Values
  BY HashType DEF Fresh, Values, Hashes

LEMMA AnswersType ==
  ASSUME TypeInv, NEW answer \in Answers
  PROVE  /\ answer \in Seq(Values)
         /\ \A n \in DOMAIN answer :
              answer[n].in \subseteq DOMAIN answer /\ \E t \in trace : answer[n] \in Fresh(t)
<1> DEFINE Raw(in, t, hash) == Value(in, "object", t.link, NoLink, hash)
           Both(t) == Value({}, "object", t.link, t.link, Hash(t.link))
           Data(t) == Value({}, "object", NoLink, t.link, <<>>)
           Inner(kind) == Value({1}, kind, NoLink, NoLink, <<>>)
<1>1. \A t \in trace : Fresh(t) \subseteq Values
  BY FreshType DEF TypeInv, TypeOK
<1>2. /\ {} \in SUBSET (Nat \ {0}) /\ {1} \in SUBSET (Nat \ {0})
      /\ {1, 2} \in SUBSET (Nat \ {0})
  OBVIOUS
<1>3. \A t \in trace :
        /\ Raw({}, t, <<>>) \in Fresh(t) /\ Raw({}, t, Hash(t.link)) \in Fresh(t)
        /\ Raw({1, 2}, t, Hash(t.link)) \in Fresh(t)
        /\ Both(t) \in Fresh(t) /\ Data(t) \in Fresh(t)
        /\ Inner("slice") \in Fresh(t) /\ Inner("other") \in Fresh(t)
        /\ Raw({}, t, <<>>).in = {} /\ Raw({}, t, Hash(t.link)).in = {}
        /\ Raw({1, 2}, t, Hash(t.link)).in = {1, 2}
        /\ Both(t).in = {} /\ Data(t).in = {}
        /\ Inner("slice").in = {1} /\ Inner("other").in = {1}
  BY <1>2 DEF Value, Fresh
<1>4. \/ \E t \in trace : answer \in {<<Raw({}, t, <<>>)>>, <<Raw({}, t, Hash(t.link))>>}
      \/ \E p \in trace \X trace :
           answer = <<Both(p[1]), Inner("slice"), Raw({1, 2}, p[2], Hash(p[2].link))>>
      \/ \E p \in trace \X trace :
           answer = <<Data(p[1]), Inner("other"), Raw({1, 2}, p[2], Hash(p[2].link))>>
  <2>1. \/ answer \in {<<Raw({}, t, <<>>)>> : t \in trace}
        \/ answer \in {<<Raw({}, t, Hash(t.link))>> : t \in trace}
        \/ answer \in {<<Both(p[1]), Inner("slice"), Raw({1, 2}, p[2], Hash(p[2].link))>> :
                         p \in {p \in trace \X trace : p[1] # p[2]}}
        \/ answer \in {<<Data(p[1]), Inner("other"), Raw({1, 2}, p[2], Hash(p[2].link))>> :
                         p \in {p \in trace \X trace : p[1] # p[2]}}
    BY Zenon DEF Answers
  <2> HIDE DEF Raw, Both, Data, Inner
  <2> QED BY <2>1, Zenon
<1> HIDE DEF Raw, Both, Data, Inner
<1>5. \/ \E t \in trace : \E x \in Fresh(t) : answer = <<x>> /\ x.in = {}
      \/ \E t \in trace, u \in trace : \E x \in Fresh(t), y \in Fresh(t), z \in Fresh(u) :
           answer = <<x, y, z>> /\ x.in = {} /\ y.in = {1} /\ z.in = {1, 2}
  <2>1. CASE \E t \in trace :
               answer \in {<<Raw({}, t, <<>>)>>, <<Raw({}, t, Hash(t.link))>>}
    BY <1>3, <2>1
  <2>2. CASE \E p \in trace \X trace :
               \/ answer = <<Both(p[1]), Inner("slice"), Raw({1, 2}, p[2], Hash(p[2].link))>>
               \/ answer = <<Data(p[1]), Inner("other"), Raw({1, 2}, p[2], Hash(p[2].link))>>
    <3>1. PICK t \in trace, u \in trace :
            \/ answer = <<Both(t), Inner("slice"), Raw({1, 2}, u, Hash(u.link))>>
            \/ answer = <<Data(t), Inner("other"), Raw({1, 2}, u, Hash(u.link))>>
      BY <2>2
    <3>2. CASE answer = <<Both(t), Inner("slice"), Raw({1, 2}, u, Hash(u.link))>>
      <4>1. Both(t) \in Fresh(t) /\ Inner("slice") \in Fresh(t)
            /\ Raw({1, 2}, u, Hash(u.link)) \in Fresh(u)
            /\ Both(t).in = {} /\ Inner("slice").in = {1}
            /\ Raw({1, 2}, u, Hash(u.link)).in = {1, 2}
        BY <1>3, Zenon
      <4> QED BY <3>2, <4>1, Zenon
    <3>3. CASE answer = <<Data(t), Inner("other"), Raw({1, 2}, u, Hash(u.link))>>
      <4>1. Data(t) \in Fresh(t) /\ Inner("other") \in Fresh(t)
            /\ Raw({1, 2}, u, Hash(u.link)) \in Fresh(u)
            /\ Data(t).in = {} /\ Inner("other").in = {1}
            /\ Raw({1, 2}, u, Hash(u.link)).in = {1, 2}
        BY <1>3, Zenon
      <4> QED BY <3>3, <4>1, Zenon
    <3> QED BY <3>1, <3>2, <3>3
  <2> QED BY <1>4, <2>1, <2>2, Zenon
<1>6. CASE \E t \in trace : \E x \in Fresh(t) : answer = <<x>> /\ x.in = {}
  BY <1>1, <1>6
<1>7. CASE \E t \in trace, u \in trace : \E x \in Fresh(t), y \in Fresh(t), z \in Fresh(u) :
             answer = <<x, y, z>> /\ x.in = {} /\ y.in = {1} /\ z.in = {1, 2}
  <2>0. PICK t \in trace, u \in trace :
          \E x \in Fresh(t), y \in Fresh(t), z \in Fresh(u) :
            answer = <<x, y, z>> /\ x.in = {} /\ y.in = {1} /\ z.in = {1, 2}
    BY <1>7
  <2>1. PICK x \in Fresh(t), y \in Fresh(t), z \in Fresh(u) :
          answer = <<x, y, z>> /\ x.in = {} /\ y.in = {1} /\ z.in = {1, 2}
    BY <2>0
  <2>2. x \in Values /\ y \in Values /\ z \in Values
    BY <1>1
  <2>3. DOMAIN answer = {1, 2, 3} /\ answer[1] = x /\ answer[2] = y /\ answer[3] = z
    BY <2>1
  <2>4. answer \in Seq(Values)
    BY <2>1, <2>2
  <2>5. ASSUME NEW n \in DOMAIN answer
        PROVE  answer[n].in \subseteq DOMAIN answer /\ \E w \in trace : answer[n] \in Fresh(w)
    <3>1. n = 1 \/ n = 2 \/ n = 3
      BY <2>3
    <3>2. answer[n].in \subseteq {1, 2, 3}
      BY <2>1, <2>3, <3>1
    <3>3. answer[n] \in Fresh(t) \/ answer[n] \in Fresh(u)
      BY <2>3, <3>1
    <3> QED BY <2>3, <3>2, <3>3, Zenon
  <2> QED BY <2>4, <2>5
<1> QED BY <1>5, <1>6, <1>7

\* What becomes of the raw link and of the data of a value.
LEMMA DecryptRawType ==
  ASSUME NEW v \in Values
  PROVE  /\ DecryptRaw(v) \in Values
         /\ DecryptRaw(v).raw = IF v.raw = NoLink THEN NoLink ELSE DecryptLink(v.raw)
         /\ DecryptRaw(v).data = v.data /\ DecryptRaw(v).hash = v.hash
         /\ DecryptRaw(v).in = v.in /\ DecryptRaw(v).kind = v.kind
<1>1. CASE v.raw = NoLink
  BY <1>1 DEF DecryptRaw
<1>2. CASE v.raw # NoLink
  <2>1. PICK raw \in Link : raw = DecryptLink(v.raw)
    BY <1>2, DecryptedType DEF Values
  <2>2. DecryptRaw(v) = [v EXCEPT !.raw = raw]
    BY <1>2, <2>1 DEF DecryptRaw
  <2> QED BY <1>2, <2>1, <2>2 DEF Values
<1> QED BY <1>1, <1>2

LEMMA DecryptDataType ==
  ASSUME NEW v \in Values
  PROVE  /\ DecryptData(v) \in Values
         /\ DecryptData(v).data =
              IF DataOK(v) THEN [v.data EXCEPT !.layers = Front(v.data.layers)] ELSE v.data
         /\ DecryptData(v).raw = v.raw /\ DecryptData(v).hash = v.hash
         /\ DecryptData(v).in = v.in /\ DecryptData(v).kind = v.kind
<1>1. CASE ~ DataOK(v)
  BY <1>1 DEF DecryptData
<1>2. CASE DataOK(v)
  <2>1. PICK l \in Link : l = v.data
    BY <1>2 DEF Values, DataOK
  <2>2. l.layers \in Layers /\ l.layers # <<>>
    BY <1>2, <2>1 DEF DataOK, DecryptLinkDataOK, Link
  <2>3. PICK front : front = Front(l.layers)
    OBVIOUS
  <2>4. front \in Layers
    BY <2>2, <2>3, FrontIs DEF Layers
  <2>5. PICK data : data = [l EXCEPT !.layers = front]
    OBVIOUS
  <2>6. data \in Link
    BY <2>4, <2>5 DEF Link
  <2>7. DecryptData(v) = [v EXCEPT !.data = data]
    BY <1>2, <2>1, <2>3, <2>5 DEF DecryptData
  <2> QED BY <1>2, <2>1, <2>3, <2>5, <2>6, <2>7 DEF Values
<1> QED BY <1>1, <1>2

LEMMA ParsedType ==
  ASSUME NEW v \in Values
  PROVE  /\ parseAndDecryptLink(v) \in Values
         /\ parseAndDecryptLink(v).in = v.in /\ parseAndDecryptLink(v).kind = v.kind
         /\ parseAndDecryptLink(v).hash = v.hash
<1>1. PICK w \in Values : w = DecryptRaw(v) /\ w.in = v.in /\ w.kind = v.kind /\ w.hash = v.hash
  BY DecryptRawType
<1>2. PICK x \in Values : x = DecryptData(w) /\ x.in = w.in /\ x.kind = w.kind /\ x.hash = w.hash
  BY DecryptDataType
<1>3. parseAndDecryptLink(v) \in {v, x}
  BY <1>1, <1>2 DEF parseAndDecryptLink
<1> QED BY <1>1, <1>2, <1>3

LEMMA AnswerType ==
  ASSUME TypeInv, CallTraceGql \/ DecryptLinks
  PROVE  TypeInv'
<1>1. UNCHANGED <<groupVars, keys, steady, linkVars, trace, decryptor>>
  BY DEF CallTraceGql, DecryptLinks
<1>2. decrypted' \in BOOLEAN
  <2>1. CASE CallTraceGql
    BY <2>1 DEF CallTraceGql
  <2>2. CASE DecryptLinks
    BY <2>2, Zenon DEF DecryptLinks
  <2> QED BY <2>1, <2>2
<1>3. page' \in Seq(Values)
  <2>1. ASSUME NEW old \in Seq(Values), NEW new, DOMAIN new = DOMAIN old,
               new = [n \in DOMAIN new |-> new[n]],
               \A n \in DOMAIN old :
                 new[n] \in {old[n], DecryptRaw(old[n]), parseAndDecryptLink(old[n])}
        PROVE  new \in Seq(Values)
    <3>1. DOMAIN old = 1 .. Len(old) /\ Len(old) \in Nat
      BY LenProperties
    <3>2. ASSUME NEW n \in 1 .. Len(old) PROVE new[n] \in Values
      <4>1. old[n] \in Values
        BY ElementOfSeq
      <4>2. DecryptRaw(old[n]) \in Values /\ parseAndDecryptLink(old[n]) \in Values
        BY <4>1, DecryptRawType, ParsedType
      <4> QED BY <2>1, <3>1, <4>1, <4>2
    <3> QED BY <2>1, <3>1, <3>2, IsASeq
  <2>2. CASE CallTraceGql
    <3>1. PICK answer \in Answers : page' = IF decryptor THEN decryptLinks(answer) ELSE answer
      BY <2>2 DEF CallTraceGql
    <3>2. answer \in Seq(Values)
      BY AnswersType
    <3>3. decryptLinks(answer) \in Seq(Values)
      BY <2>1, <3>2 DEF decryptLinks
    <3> QED BY <3>1, <3>2, <3>3
  <2>3. CASE DecryptLinks
    <3>1. page \in Seq(Values)
      BY DEF TypeInv, TypeOK
    <3> QED BY <2>1, <2>3, <3>1 DEF DecryptLinks
  <2> QED BY <2>2, <2>3
<1>4. Built' = Built
  BY <1>1 DEF Built, linkVars
<1> QED BY <1>1, <1>2, <1>3, <1>4 DEF TypeInv, TypeOK, groupVars, linkVars, Recipients

LEMMA NextType ==
  ASSUME TypeInv, [Next]_vars
  PROVE  TypeInv'
<1>1. CASE UNCHANGED vars
  BY <1>1 DEF vars, groupVars, linkVars, pageVars, TypeInv, TypeOK, Built, Recipients
<1>2. CASE \/ \E o \in Owners : Join(o)
           \/ \E r \in group : Leave(r) \/ NewKey(r)
  <2>1. PICK new : GroupChanges(new) /\ new \subseteq Owners \X (0 .. changes + 2)
    <3>1. group \subseteq Owners \X (0 .. changes + 1) /\ changes \in Nat
      BY DEF TypeInv, TypeOK
    <3>2. group \subseteq Owners \X (0 .. changes + 2)
      BY <3>1
    <3>3. CASE \E o \in Owners : Join(o)
      <4>1. PICK o \in Owners, v \in {0, 1} : GroupChanges(group \cup {<<o, v>>})
        BY <3>3 DEF Join
      <4>2. <<o, v>> \in Owners \X (0 .. changes + 2)
        BY <3>1
      <4> QED BY <3>2, <4>1, <4>2
    <3>4. CASE \E r \in group : Leave(r)
      BY <3>2, <3>4 DEF Leave
    <3>5. CASE \E r \in group : NewKey(r)
      <4>1. PICK r \in group : GroupChanges((group \ {r}) \cup {<<r[1], r[2] + 1>>})
        BY <3>5 DEF NewKey
      <4>2. <<r[1], r[2] + 1>> \in Owners \X (0 .. changes + 2)
        BY <3>1
      <4> QED BY <3>2, <4>1, <4>2
    <3> QED BY <1>2, <3>3, <3>4, <3>5
  <2>2. /\ changes \in Nat /\ changes < MaxChanges /\ changes' = changes + 1 /\ group' = new
        /\ steady' = steady \cap new
        /\ UNCHANGED <<keys, links, readers, failed, changed, symKey>>
        /\ UNCHANGED <<trace, page, decrypted, decryptor>>
    BY <2>1 DEF GroupChanges, linkVars, pageVars, TypeInv, TypeOK
  <2>3. changes' \in 0 .. MaxChanges /\ group' \subseteq Owners \X (0 .. changes' + 1)
        /\ group' \subseteq Recipients
    BY <2>1, <2>2 DEF Recipients
  <2>4. Built' = Built /\ Recipients' = Recipients
    BY <2>2 DEF Built, Recipients
  <2> QED BY <2>2, <2>3, <2>4 DEF TypeInv, TypeOK
<1>3. CASE GetRecipientsPublicKeys \/ RecipientsNotFound
  BY <1>3 DEF GetRecipientsPublicKeys, RecipientsNotFound, groupVars, linkVars, pageVars, TypeInv,
              TypeOK, Built, Recipients
<1>4. CASE CallTraceGql \/ DecryptLinks
  BY <1>4, AnswerType
<1>5. CASE \E i \in Ids : NewLink(i) \/ EncryptLink(i) \/ EncryptLinkFails(i)
  BY <1>5, EncryptType
<1>6. CASE \E i \in Ids : Build(i) \/ SetData(i)
  BY <1>6, ClearType
<1>7. CASE \E ids \in SUBSET Ids : CreateLinks(ids) \/ CreateLinksFails(ids)
  BY <1>7, SignType
<1> QED BY <1>1, <1>2, <1>3, <1>4, <1>5, <1>6, <1>7 DEF Next

LEMMA TypeHolds == Spec => []TypeInv
<1>1. Init => TypeInv
  BY InitType
<1>2. TypeInv /\ [Next]_vars => TypeInv'
  BY NextType
<1> QED BY <1>1, <1>2, PTL DEF Spec

\* What the application, Trace and an answer hold are links with their layers, ring and
\* signature, wherever encrypting, signing and decrypting stopped, for any owners and bounds.
THEOREM TypeCorrect == Spec => []TypeOK
<1>1. TypeInv => TypeOK
  BY DEF TypeInv
<1> QED BY <1>1, TypeHolds, PTL

-----------------------------------------------------------------------------
(* What becomes of a link: its layers, its parent, and the copies of it.   *)

\* Each layer of a link has a key of its own, made after those under it, and a ring
\* with recipients is in metadata that can be read.
WellLayered(l, last) ==
  /\ \A m \in 1 .. Len(l.layers) : l.layers[m] <= last
  /\ \A m, n \in 1 .. Len(l.layers) : m < n => l.layers[m] < l.layers[n]
  /\ l.ring.for # {} => l.meta = "object"

\* KnownParent, in what Trace has.
KnownIn(l, accepted) ==
  l.parent # NoParent =>
    \E u \in accepted :
      /\ l.map = u.link.map
      /\ l.priority = u.link.priority + 1
      /\ \/ l.parent.hash = Hash(u.link)
         \/ /\ l.parent.computed
            /\ l.parent.hash = <<u.link.id, u.link.form, Front(u.link.layers)>>

\* What a value has of a link are copies of an accepted one, and its hash, if any.
CopyIn(v, accepted) ==
  \E t \in accepted :
    (\A l \in Held(v) : IsCopy(l, t.link)) /\ v.hash \in {<<>>, Hash(t.link)}

StoryInv ==
  /\ \A i \in Built : WellLayered(links[i], symKey) /\ KnownIn(links[i], trace)
  /\ \A t \in trace : WellLayered(t.link, symKey) /\ KnownIn(t.link, trace)
  /\ \A n \in DOMAIN page : page[n].in \subseteq DOMAIN page /\ CopyIn(page[n], trace)
  /\ NothingLeftEncrypted
  /\ DecryptedIsClear

\* Encrypting, with success or not, makes the last layer the newest, and leaves alone
\* what a link says of its parent.
LEMMA LayeredStory ==
  ASSUME NEW l \in Link, symKey \in Nat, symKey' = symKey + 1, symKey' \in 1 .. MaxEncryptions,
         WellLayered(l, symKey), NEW m, m = Layered(l) \/ m = Encrypted(l)
  PROVE  /\ WellLayered(m, symKey')
         /\ m.map = l.map /\ m.priority = l.priority /\ m.parent = l.parent
<1>1. PICK layers : layers = Append(l.layers, symKey')
  OBVIOUS
<1>2. l.layers \in Seq(Nat)
  BY DEF Link, Layers
<1>3. /\ \A k \in 1 .. Len(layers) : layers[k] <= symKey'
      /\ \A k, n \in 1 .. Len(layers) : k < n => layers[k] < layers[n]
  <2>1. Len(layers) = Len(l.layers) + 1 /\ Len(l.layers) \in Nat
    BY <1>1, <1>2
  <2>2. \A k \in 1 .. Len(layers) :
          layers[k] = (IF k = Len(layers) THEN symKey' ELSE l.layers[k])
    BY <1>1, <1>2, <2>1
  <2>3. \A k \in 1 .. Len(l.layers) : l.layers[k] \in Nat
    BY <1>2, ElementOfSeq
  <2>4. /\ \A k \in 1 .. Len(l.layers) : l.layers[k] <= symKey
        /\ \A k, n \in 1 .. Len(l.layers) : k < n => l.layers[k] < l.layers[n]
    BY DEF WellLayered
  <2>5. \A k \in 1 .. Len(layers) : layers[k] <= symKey'
    BY <2>1, <2>2, <2>3, <2>4
  <2>6. ASSUME NEW k \in 1 .. Len(layers), NEW n \in 1 .. Len(layers), k < n
        PROVE  layers[k] < layers[n]
    <3>1. k \in 1 .. Len(l.layers) /\ layers[k] = l.layers[k]
      BY <2>1, <2>2, <2>6
    <3> QED BY <2>1, <2>2, <2>3, <2>4, <2>6, <3>1
  <2> QED BY <2>5, <2>6
<1>4. PICK o : o = Layered(l)
  OBVIOUS
<1>5. o = [l EXCEPT !.layers = layers]
  BY <1>1, <1>4 DEF Layered
<1>6. /\ o.layers = layers /\ o.meta = l.meta /\ o.ring = l.ring
      /\ o.map = l.map /\ o.priority = l.priority /\ o.parent = l.parent
      /\ o \in Link
  BY <1>4, <1>5, LayeredType DEF Link
<1>7. CASE m = Layered(l)
  BY <1>3, <1>4, <1>6, <1>7 DEF WellLayered
<1>8. CASE m = Encrypted(l)
  <2>1. PICK ring : ring = [key |-> symKey', for |-> keys]
    OBVIOUS
  <2>2. m = [o EXCEPT !.meta = "object", !.ring = ring]
    BY <1>4, <1>8, <2>1 DEF Encrypted
  <2>3. /\ m.layers = o.layers /\ m.meta = "object"
        /\ m.map = o.map /\ m.priority = o.priority /\ m.parent = o.parent
    BY <1>6, <2>2 DEF Link
  <2> QED BY <1>3, <1>6, <2>3 DEF WellLayered
<1> QED BY <1>7, <1>8

\* A link without layers.
LEMMA ClearStory ==
  ASSUME NEW l, l.layers = <<>>, NEW last, l.ring.for # {} => l.meta = "object"
  PROVE  WellLayered(l, last)
<1>1. 1 .. Len(l.layers) = {}
  OBVIOUS
<1> QED BY <1>1 DEF WellLayered

\* A later key, more links in Trace.
LEMMA StoryGrows ==
  ASSUME symKey \in Nat, symKey' \in Nat, symKey <= symKey', trace \subseteq trace'
  PROVE  /\ \A l \in Link : WellLayered(l, symKey) => WellLayered(l, symKey')
         /\ \A l : KnownIn(l, trace) => KnownIn(l, trace')
         /\ \A v : CopyIn(v, trace) => CopyIn(v, trace')
<1>1. ASSUME NEW l \in Link, WellLayered(l, symKey) PROVE WellLayered(l, symKey')
  <2>1. l.layers \in Seq(1 .. MaxEncryptions)
    BY DEF Link, Layers
  <2>2. \A m \in 1 .. Len(l.layers) : l.layers[m] \in 1 .. MaxEncryptions
    BY <2>1, ElementOfSeq
  <2> QED BY <1>1, <2>2 DEF WellLayered
<1>2. \A l : KnownIn(l, trace) => KnownIn(l, trace')
  BY DEF KnownIn
<1>3. \A v : CopyIn(v, trace) => CopyIn(v, trace')
  BY DEF CopyIn
<1> QED BY <1>1, <1>2, <1>3

\* The top layer of a link is off, or nothing has changed.
LEMMA DecryptedIs ==
  ASSUME NEW l \in Link
  PROVE  \/ DecryptLink(l) = l /\ ~ (DecryptLinkOK(l) /\ IsBytes(l))
         \/ /\ DecryptLinkOK(l) /\ DecryptLinkDataOK(l) /\ l.layers # <<>>
            /\ DecryptLink(l) = [l EXCEPT !.layers = Front(l.layers)]
  BY DEF DecryptLink, DecryptLinkOK, DecryptLinkDataOK

\* What can be decrypted unmarshals, and is found to be data.
LEMMA DecryptableIs ==
  ASSUME NEW l \in Link, NEW last, WellLayered(l, last), DecryptLinkDataOK(l)
  PROVE  HasData(l) /\ IsBytes(l) /\ l.meta = "object" /\ DecryptLinkOK(l)
<1>1. l.layers # <<>> /\ MyKey \in l.ring.for
  BY DEF DecryptLinkDataOK
<1> QED BY <1>1 DEF HasData, IsBytes, DecryptLinkOK, WellLayered

\* The layer below has another key.
LEMMA DecryptsOnce ==
  ASSUME NEW l \in Link, NEW last, WellLayered(l, last)
  PROVE  ~ DecryptLinkDataOK(DecryptLink(l))
<1>1. CASE DecryptLinkDataOK(l)
  <2>1. l.layers # <<>> /\ Last(l.layers) = l.ring.key /\ MyKey \in l.ring.for
    BY <1>1 DEF DecryptLinkDataOK
  <2>2. DecryptLinkOK(l) /\ IsBytes(l)
    BY <1>1, DecryptableIs
  <2>3. PICK front : front = Front(l.layers)
    OBVIOUS
  <2>4. DecryptLink(l) = [l EXCEPT !.layers = front]
    BY <2>2, <2>3 DEF DecryptLink
  <2>5. DecryptLink(l).layers = front /\ DecryptLink(l).ring = l.ring
    BY <2>4 DEF Link
  <2>6. l.layers \in Seq(1 .. MaxEncryptions)
    BY DEF Link, Layers
  <2>7. /\ front \in Seq(1 .. MaxEncryptions) /\ Len(front) = Len(l.layers) - 1
        /\ \A i \in 1 .. Len(l.layers) - 1 : front[i] = l.layers[i]
    BY <2>1, <2>3, <2>6, FrontIs
  <2>8. front # <<>> => front[Len(front)] # l.layers[Len(l.layers)]
    <3> SUFFICES ASSUME front # <<>> PROVE front[Len(front)] # l.layers[Len(l.layers)]
      OBVIOUS
    <3>1. Len(front) \in Nat /\ Len(front) # 0
      BY <2>7, LenProperties, EmptySeq
    <3>2. Len(front) \in 1 .. Len(l.layers) /\ Len(l.layers) \in 1 .. Len(l.layers)
          /\ Len(front) < Len(l.layers) /\ front[Len(front)] = l.layers[Len(front)]
      <4>1. Len(l.layers) \in Nat /\ Len(front) + 1 = Len(l.layers)
        BY <2>6, <2>7, LenProperties
      <4>2. Len(front) \in 1 .. Len(l.layers) - 1
        BY <3>1, <4>1
      <4> QED BY <2>7, <4>1, <4>2
    <3>3. l.layers[Len(front)] < l.layers[Len(l.layers)]
      BY <3>2 DEF WellLayered
    <3>4. front[Len(front)] \in Int
      BY <2>7, <3>1, ElementOfSeq
    <3> QED BY <3>2, <3>3, <3>4
  <2> QED BY <2>1, <2>5, <2>8 DEF DecryptLinkDataOK, Last
<1>2. CASE ~ DecryptLinkDataOK(l)
  BY <1>2, DecryptedIs
<1> QED BY <1>1, <1>2

\* A copy from which a layer can be taken off still has all of them.
LEMMA WholeCopy ==
  ASSUME NEW t \in Link, NEW last, WellLayered(t, last), NEW l \in Link, IsCopy(l, t),
         DecryptLinkDataOK(l)
  PROVE  l.layers = t.layers
<1> SUFFICES ASSUME l.layers # t.layers PROVE FALSE
  OBVIOUS
<1>1. t.layers = Append(l.layers, l.ring.key) /\ l.layers \in Seq(1 .. MaxEncryptions)
  BY DEF IsCopy, Link, Layers
<1>2. l.layers # <<>> /\ l.layers[Len(l.layers)] = l.ring.key
  BY DEF DecryptLinkDataOK, Last
<1>3. PICK n \in Nat : n = Len(l.layers)
  BY <1>1, LenProperties
<1>4. n # 0
  BY <1>1, <1>2, <1>3, EmptySeq
<1>5. Len(t.layers) = n + 1 /\ t.layers[n] = l.ring.key /\ t.layers[n + 1] = l.ring.key
  BY <1>1, <1>2, <1>3, <1>4
<1>6. t.layers[n] < t.layers[n + 1]
  BY <1>4, <1>5 DEF WellLayered
<1>7. l.ring.key \in Int
  BY DEF Link, Rings
<1> QED BY <1>5, <1>6, <1>7

\* Decrypting makes a copy of a copy.
LEMMA CopyOfCopy ==
  ASSUME NEW t \in Link, NEW last, WellLayered(t, last), NEW l \in Link, IsCopy(l, t)
  PROVE  IsCopy(DecryptLink(l), t)
<1>1. CASE DecryptLink(l) = l
  BY <1>1
<1>2. CASE DecryptLinkDataOK(l) /\ DecryptLink(l) = [l EXCEPT !.layers = Front(l.layers)]
           /\ l.layers # <<>>
  <2>1. l.layers = t.layers
    BY <1>2, WholeCopy
  <2>2. l = t
    BY <2>1 DEF IsCopy, Link
  <2>3. PICK front, m : front = Front(t.layers) /\ m = DecryptLink(l)
    OBVIOUS
  <2>4. m = [t EXCEPT !.layers = front]
    BY <1>2, <2>2, <2>3
  <2>5. m.layers = front /\ m.ring = t.ring
    BY <2>4 DEF Link
  <2>6. MyKey \in t.ring.for /\ Last(t.layers) = t.ring.key
    BY <1>2, <2>2 DEF DecryptLinkDataOK
  <2>7. /\ t.layers = Append(front, t.ring.key) /\ Len(front) = Len(t.layers) - 1
        /\ t.layers \in Seq(1 .. MaxEncryptions)
    BY <1>2, <2>2, <2>3, <2>6, FrontIs DEF Link, Layers
  <2>8. IsPrefix(front, t.layers)
    <3>1. front \in Seq(1 .. MaxEncryptions) /\ SubSeq(t.layers, 1, Len(t.layers) - 1) = front
      BY <1>2, <2>2, <2>3, <2>7, FrontIs DEF Front
    <3>2. Len(front) <= Len(t.layers) /\ SubSeq(t.layers, 1, Len(front)) = front
      BY <2>7, <3>1, LenProperties
    <3>3. SubSeq(front, 1, Len(front)) = front
      BY <3>1, SubSeqFull
    <3> QED BY <3>2, <3>3 DEF IsPrefix
  <2> QED BY <2>3, <2>4, <2>5, <2>6, <2>7, <2>8 DEF IsCopy
<1> QED BY <1>1, <1>2, DecryptedIs

\* A link is a copy of itself.
LEMMA SelfCopy ==
  ASSUME NEW t \in Link
  PROVE  IsCopy(t, t)
<1>1. t = [t EXCEPT !.layers = t.layers]
  BY DEF Link
<1>2. IsPrefix(t.layers, t.layers)
  BY LenProperties DEF IsPrefix, Link, Layers
<1> QED BY <1>1, <1>2 DEF IsCopy

\* What the builder builds is in the clear; its parent is the accepted link that the
\* segment is a copy of.
LEMMA BuiltStory ==
  ASSUME TypeInv, StoryInv, NEW i \in Ids, NEW forms \in SUBSET Forms,
         NEW l \in BuiltLinks(i, forms), NEW last
  PROVE  WellLayered(l, last) /\ KnownIn(l, trace)
<1>1. CASE i = 1
  <2>1. PICK form \in Forms, meta \in {"none", "other"} : l = FirstLink(i, form, meta)
    BY <1>1 DEF BuiltLinks
  <2>2. l.layers = <<>> /\ l.ring = NoRing /\ l.parent = NoParent
    BY <2>1 DEF FirstLink
  <2> QED BY <2>2, ClearStory DEF KnownIn, NoRing
<1>2. CASE i # 1
  <2>1. PICK segment \in Segments, form \in Forms : l = LinkAfter(segment, i, form, "object")
    BY <1>2 DEF BuiltLinks, SomeForms
  <2>2. PICK n \in DOMAIN page :
          /\ segment = [link |-> page[n].raw, hash |-> page[n].hash] /\ page[n].raw # NoLink
          /\ segment.link \in Link
    BY SegmentType DEF TypeInv
  <2>3. PICK m : m = FirstLink(i, form, "object")
    OBVIOUS
  <2>4. PICK parent, map, priority :
          parent = ParentHash(segment) /\ map = segment.link.map
          /\ priority = segment.link.priority + 1
    OBVIOUS
  <2>5. l = [m EXCEPT !.map = map, !.priority = priority, !.parent = parent]
    BY <2>1, <2>3, <2>4 DEF LinkAfter
  <2>6. /\ l.layers = <<>> /\ l.ring = NoRing
        /\ l.map = map /\ l.priority = priority /\ l.parent = parent
    BY <2>3, <2>5 DEF FirstLink
  <2>7. PICK t \in trace : IsCopy(segment.link, t.link) /\ segment.hash \in {<<>>, Hash(t.link)}
    BY <2>2 DEF StoryInv, CopyIn, Held
  <2>8. t.link \in Link /\ segment.link \in Link
    BY <2>2 DEF TypeInv, TypeOK
  <2>9. /\ segment.link.map = t.link.map /\ segment.link.priority = t.link.priority
        /\ segment.link.id = t.link.id /\ segment.link.form = t.link.form
    BY <2>7, <2>8 DEF IsCopy, Link
  <2>10. \/ parent.hash = Hash(t.link)
         \/ /\ parent.computed
            /\ parent.hash = <<t.link.id, t.link.form, Front(t.link.layers)>>
    <3>1. CASE segment.hash # <<>>
      BY <2>4, <2>7, <3>1 DEF ParentHash
    <3>2. CASE segment.hash = <<>>
      <4>1. /\ parent.hash = <<t.link.id, t.link.form, segment.link.layers>>
            /\ parent.computed
        BY <2>4, <2>9, <3>2 DEF ParentHash, Hash
      <4>2. CASE segment.link.layers = t.link.layers
        BY <4>1, <4>2 DEF Hash
      <4>3. CASE segment.link.layers # t.link.layers
        <5>1. PICK q \in Seq(1 .. MaxEncryptions), k \in 0 .. MaxEncryptions :
                q = segment.link.layers /\ t.link.layers = Append(q, k)
          BY <2>7, <2>8, <4>3 DEF IsCopy, Link, Layers, Rings
        <5>2. Front(t.link.layers) = q
          <6>1. Append(q, k) \in Seq(0 .. MaxEncryptions) /\ Append(q, k) # <<>>
            <7>1. q \in Seq(0 .. MaxEncryptions)
              BY <5>1
            <7> QED BY <7>1, AppendProperties
          <6>2. PICK f \in Seq(0 .. MaxEncryptions) :
                  /\ f = Front(Append(q, k)) /\ Len(f) = Len(Append(q, k)) - 1
                  /\ \A j \in 1 .. Len(Append(q, k)) - 1 : f[j] = Append(q, k)[j]
            BY <6>1, FrontIs
          <6>3. Len(f) = Len(q) /\ \A j \in 1 .. Len(q) : f[j] = q[j]
            BY <5>1, <6>2, AppendProperties, LenProperties
          <6>4. q \in Seq(0 .. MaxEncryptions)
            BY <5>1
          <6>5. f = q
            BY <6>2, <6>3, <6>4, SeqEqual
          <6> QED BY <5>1, <6>2, <6>5
        <5> QED BY <4>1, <5>1, <5>2
      <4> QED BY <4>2, <4>3
    <3> QED BY <3>1, <3>2
  <2>11. KnownIn(l, trace)
    BY <2>4, <2>6, <2>7, <2>9, <2>10 DEF KnownIn
  <2>12. WellLayered(l, last)
    BY <2>6, ClearStory DEF NoRing
  <2> QED BY <2>11, <2>12
<1> QED BY <1>1, <1>2

LEMMA InitStory == Init => StoryInv
<1> SUFFICES ASSUME Init PROVE StoryInv
  OBVIOUS
<1>1. Built = {} /\ trace = {} /\ page = <<>>
  BY DEF Init, Built
<1>2. DOMAIN page = {}
  BY <1>1
<1> QED BY <1>1, <1>2 DEF StoryInv, NothingLeftEncrypted, DecryptedIsClear

\* Nothing new is answered, and what was said of the page stays true.
LEMMA PageStory ==
  ASSUME StoryInv, trace \subseteq trace', symKey \in Nat, symKey' \in Nat, symKey <= symKey',
         UNCHANGED <<pageVars, decryptor>>
  PROVE  /\ \A n \in DOMAIN page' :
              page'[n].in \subseteq DOMAIN page' /\ CopyIn(page'[n], trace')
         /\ NothingLeftEncrypted' /\ DecryptedIsClear'
<1>1. UNCHANGED <<page, decrypted, decryptor>>
  BY DEF pageVars
<1>2. \A n \in DOMAIN page' :
        page'[n].in \subseteq DOMAIN page' /\ CopyIn(page'[n], trace')
  BY <1>1, StoryGrows DEF StoryInv
<1>3. NothingLeftEncrypted'
  BY <1>1 DEF StoryInv, NothingLeftEncrypted
<1>4. DecryptedIsClear'
  BY <1>1 DEF StoryInv, DecryptedIsClear
<1> QED BY <1>2, <1>3, <1>4

LEMMA ChangeStory ==
  ASSUME TypeInv, TypeInv', StoryInv, NEW i \in Ids, NEW l, links' = [links EXCEPT ![i] = l],
         symKey <= symKey', WellLayered(l, symKey'), KnownIn(l, trace),
         UNCHANGED <<trace, pageVars, decryptor>>
  PROVE  StoryInv'
<1>1. symKey \in Nat /\ symKey' \in Nat /\ trace \subseteq trace'
  BY DEF TypeInv, TypeOK
<1>2. \A j \in Built' : j \in Ids /\ (j = i \/ (j \in Built /\ links'[j] = links[j]))
  BY DEF TypeInv, TypeOK, Built
<1>3. links'[i] = l
  BY DEF TypeInv, TypeOK
<1>4. ASSUME NEW j \in Built' PROVE WellLayered(links'[j], symKey') /\ KnownIn(links'[j], trace')
  <2>1. CASE j = i
    BY <1>3, <2>1
  <2>2. CASE j # i
    <3>1. j \in Built /\ links'[j] = links[j] /\ links[j] \in Link
      BY <1>2, <2>2 DEF TypeInv, TypeOK
    <3> QED BY <1>1, <3>1, StoryGrows DEF StoryInv
  <2> QED BY <2>1, <2>2
<1>5. \A t \in trace' : WellLayered(t.link, symKey') /\ KnownIn(t.link, trace')
  <2>1. \A t \in trace : t.link \in Link
    BY DEF TypeInv, TypeOK
  <2> QED BY <1>1, <2>1, StoryGrows DEF StoryInv
<1> QED BY <1>1, <1>4, <1>5, PageStory DEF StoryInv

LEMMA EncryptStory ==
  ASSUME TypeInv, TypeInv', StoryInv, NEW i \in Ids,
         EncryptLink(i) \/ NewLink(i) \/ EncryptLinkFails(i)
  PROVE  StoryInv'
<1>1. symKey \in Nat /\ symKey' = symKey + 1 /\ symKey' \in 1 .. MaxEncryptions
      /\ UNCHANGED <<trace, pageVars, decryptor>>
  BY DEF EncryptLink, NewLink, EncryptLinkFails, NextKey, TypeInv, TypeOK
<1>2. PICK b, l : /\ b \in Link /\ WellLayered(b, symKey) /\ KnownIn(b, trace)
                  /\ l = Layered(b) \/ l = Encrypted(b)
                  /\ links' = [links EXCEPT ![i] = l]
  <2>1. CASE EncryptLink(i)
    BY <2>1 DEF EncryptLink, TypeInv, TypeOK, StoryInv
  <2>2. CASE NewLink(i)
    <3>1. PICK b \in BuiltLinks(i, SomeForms) : links' = [links EXCEPT ![i] = Encrypted(b)]
      BY <2>2 DEF NewLink
    <3>2. b \in Link /\ WellLayered(b, symKey) /\ KnownIn(b, trace)
      BY BuiltLinksType, BuiltStory DEF TypeInv, SomeForms
    <3> QED BY <3>1, <3>2
  <2>3. CASE EncryptLinkFails(i)
    BY <2>3 DEF EncryptLinkFails, TypeInv, TypeOK, StoryInv
  <2> QED BY <2>1, <2>2, <2>3
<1>3. /\ WellLayered(l, symKey')
      /\ l.map = b.map /\ l.priority = b.priority /\ l.parent = b.parent
  BY <1>1, <1>2, LayeredStory
<1>4. KnownIn(l, trace)
  BY <1>2, <1>3 DEF KnownIn
<1>5. symKey <= symKey'
  BY <1>1
<1> QED BY ONLY TypeInv, TypeInv', StoryInv, i \in Ids, <1>1, <1>2, <1>3, <1>4, <1>5, ChangeStory

LEMMA ClearInStory ==
  ASSUME TypeInv, TypeInv', StoryInv, NEW i \in Ids, Build(i) \/ SetData(i)
  PROVE  StoryInv'
<1>1. symKey \in Nat /\ symKey' = symKey /\ UNCHANGED <<trace, pageVars, decryptor>>
  <2>1. symKey \in Nat
    BY DEF TypeInv, TypeOK
  <2>2. UNCHANGED <<symKey, trace, pageVars, decryptor>>
    BY DEF Build, SetData
  <2> QED BY <2>1, <2>2
<1>5. symKey <= symKey'
  BY <1>1
<1>2. CASE Build(i)
  <2>1. PICK l \in BuiltLinks(i, Forms) : links' = [links EXCEPT ![i] = l]
    BY <1>2 DEF Build
  <2>2. WellLayered(l, symKey') /\ KnownIn(l, trace)
    BY BuiltStory
  <2> QED BY <1>1, <1>5, <2>1, <2>2, ChangeStory
<1>3. CASE SetData(i)
  <2>1. PICK old, empty :
          /\ old \in Link /\ empty = <<>> /\ old = links[i] /\ i \in Built
          /\ links' = [links EXCEPT ![i] = [old EXCEPT !.layers = empty]]
    BY <1>3 DEF SetData, TypeInv, TypeOK
  <2>2. PICK l : l = [old EXCEPT !.layers = empty]
    OBVIOUS
  <2>3. /\ l.layers = <<>> /\ l.ring = old.ring /\ l.meta = old.meta
        /\ l.map = old.map /\ l.priority = old.priority /\ l.parent = old.parent
    BY <2>1, <2>2 DEF Link
  <2>4. WellLayered(old, symKey) /\ KnownIn(old, trace)
    BY <2>1 DEF StoryInv
  <2>5. WellLayered(l, symKey')
    BY <2>3, <2>4, ClearStory DEF WellLayered
  <2>6. KnownIn(l, trace)
    BY <2>3, <2>4 DEF KnownIn
  <2> QED BY <1>1, <1>5, <2>1, <2>2, <2>5, <2>6, ChangeStory
<1> QED BY <1>2, <1>3

\* Signing changes nothing of this; what Trace accepts has the story of its link.
LEMMA SignStory ==
  ASSUME TypeInv, StoryInv, NEW ids \in SUBSET Ids, CreateLinks(ids) \/ CreateLinksFails(ids)
  PROVE  StoryInv'
<1>1. /\ ids \subseteq Built
      /\ links' = SignAll(ids)
      /\ UNCHANGED <<symKey, pageVars, decryptor>>
      /\ \/ trace' = trace
         \/ trace' = trace \cup {Accepted(i) : i \in ids}
  BY DEF CreateLinks, CreateLinksFails
<1>2. \A i \in Ids : links'[i] = IF i \in ids THEN SignLink(links[i]) ELSE links[i]
  BY <1>1 DEF SignAll
<1>3. symKey \in Nat /\ symKey' \in Nat /\ symKey <= symKey' /\ trace \subseteq trace'
  BY <1>1 DEF TypeInv, TypeOK
<1>4. ASSUME NEW l \in Link, WellLayered(l, symKey), KnownIn(l, trace)
      PROVE  WellLayered(SignLink(l), symKey') /\ KnownIn(SignLink(l), trace')
  <2>1. /\ SignLink(l).layers = l.layers /\ SignLink(l).ring = l.ring
        /\ SignLink(l).meta = l.meta /\ SignLink(l).map = l.map
        /\ SignLink(l).priority = l.priority /\ SignLink(l).parent = l.parent
    BY DEF SignLink, Link
  <2>2. WellLayered(l, symKey') /\ KnownIn(l, trace')
    BY <1>3, <1>4, StoryGrows
  <2> QED BY <2>1, <2>2 DEF WellLayered, KnownIn
<1>5. Built' \subseteq Built
  BY <1>1, <1>2 DEF Built
<1>6. ASSUME NEW i \in Built
      PROVE  WellLayered(links'[i], symKey') /\ KnownIn(links'[i], trace')
  <2>1. links[i] \in Link /\ WellLayered(links[i], symKey) /\ KnownIn(links[i], trace) /\ i \in Ids
    BY DEF StoryInv, TypeInv, TypeOK, Built
  <2>2. WellLayered(links[i], symKey') /\ KnownIn(links[i], trace')
    BY <1>3, <2>1, StoryGrows
  <2> QED BY <1>2, <1>4, <2>1, <2>2
<1>7. ASSUME NEW t \in trace'
      PROVE  WellLayered(t.link, symKey') /\ KnownIn(t.link, trace')
  <2>1. CASE t \in trace
    <3>1. t.link \in Link /\ WellLayered(t.link, symKey) /\ KnownIn(t.link, trace)
      BY <2>1 DEF StoryInv, TypeInv, TypeOK
    <3> QED BY <1>3, <3>1, StoryGrows
  <2>2. CASE t \notin trace
    <3>1. PICK i \in ids : t = Accepted(i)
      BY <1>1, <2>2
    <3>2. t.link = links'[i] /\ i \in Built
      BY <1>1, <3>1 DEF Accepted
    <3> QED BY <1>6, <3>2
  <2> QED BY <2>1, <2>2
<1>8. \A i \in Built' : WellLayered(links'[i], symKey') /\ KnownIn(links'[i], trace')
  BY <1>5, <1>6
<1> QED BY <1>1, <1>3, <1>7, <1>8, PageStory DEF StoryInv

\* parseAndDecryptLink, on what Trace has of a link, leaves nothing it could decrypt.
LEMMA ParsedStory ==
  ASSUME NEW t, t.link \in Link, NEW last, WellLayered(t.link, last), NEW v \in Fresh(t)
  PROVE  \A l \in Held(parseAndDecryptLink(v)) :
           l \in {t.link, DecryptLink(t.link)} /\ ~ DecryptLinkDataOK(l)
<1>1. v \in Values
  BY FreshType
<1>2. \A l \in Held(v) : l = t.link /\ v.kind = "object"
  BY DEF Fresh, Held
<1>3. t.link # NoLink
  <2>1. \A l \in Link : l # NoLink
    BY DEF Link, NoLink
  <2> QED BY <2>1
<1>4. CASE v.kind = "object" /\ Unmarshals(v) /\ RawOK(v)
  <2>1. PICK w \in Values :
          /\ w = DecryptRaw(v) /\ w.data = v.data
          /\ w.raw = IF v.raw = NoLink THEN NoLink ELSE DecryptLink(v.raw)
    BY <1>1, DecryptRawType
  <2>2. PICK x \in Values :
          /\ x = DecryptData(w) /\ x.raw = w.raw
          /\ x.data = IF DataOK(w) THEN [w.data EXCEPT !.layers = Front(w.data.layers)] ELSE w.data
    BY DecryptDataType
  <2>3. parseAndDecryptLink(v) = x
    BY <1>4, <2>1, <2>2 DEF parseAndDecryptLink
  <2>4. ~ DecryptLinkDataOK(DecryptLink(t.link))
    BY DecryptsOnce
  <2>5. x.raw # NoLink => x.raw = DecryptLink(t.link)
    BY <1>2, <2>1, <2>2 DEF Held
  <2>6. x.data # NoLink => x.data = DecryptLink(t.link)
    <3>1. CASE v.data = NoLink
      BY <2>1, <2>2, <3>1 DEF DataOK
    <3>2. CASE v.data # NoLink
      <4>1. w.data = t.link
        BY <1>2, <2>1, <3>2 DEF Held
      <4>2. CASE DecryptLinkDataOK(t.link)
        <5>1. DecryptLink(t.link) = [t.link EXCEPT !.layers = Front(t.link.layers)]
          BY <4>2, DecryptableIs DEF DecryptLink
        <5>2. DataOK(w)
          BY <1>3, <4>1, <4>2 DEF DataOK
        <5> QED BY <2>2, <4>1, <5>1, <5>2
      <4>3. CASE ~ DecryptLinkDataOK(t.link)
        BY <2>2, <4>1, <4>3, DecryptedIs DEF DataOK
      <4> QED BY <4>2, <4>3
    <3> QED BY <3>1, <3>2
  <2> QED BY <2>3, <2>4, <2>5, <2>6 DEF Held
<1>5. CASE ~ (v.kind = "object" /\ Unmarshals(v) /\ RawOK(v))
  <2>1. parseAndDecryptLink(v) = v
    BY <1>5 DEF parseAndDecryptLink
  <2>2. ASSUME Held(v) # {}, DecryptLinkDataOK(t.link) PROVE FALSE
    <3>1. HasData(t.link) /\ IsBytes(t.link) /\ t.link.meta = "object" /\ DecryptLinkOK(t.link)
      BY <2>2, DecryptableIs
    <3>2. v.kind = "object"
      BY <1>2, <2>2
    <3>3. Unmarshals(v)
      BY <1>2, <3>1 DEF Unmarshals, Held
    <3>4. RawOK(v)
      BY <1>2, <3>1 DEF RawOK, Held
    <3> QED BY <1>5, <3>2, <3>3, <3>4
  <2> QED BY <1>2, <2>1, <2>2
<1> QED BY <1>4, <1>5

\* An answer is made of accepted links; the client of a decryptor takes one layer off.
LEMMA CallStory ==
  ASSUME TypeInv, StoryInv, CallTraceGql
  PROVE  StoryInv'
<1>1. UNCHANGED <<linkVars, trace, decryptor>> /\ decrypted' = FALSE
  BY DEF CallTraceGql
<1>2. UNCHANGED <<links, symKey, trace, decryptor>> /\ Built' = Built
  BY <1>1 DEF linkVars, Built
<1>3. PICK answer \in Answers : page' = IF decryptor THEN decryptLinks(answer) ELSE answer
  BY DEF CallTraceGql
<1>4. \A n \in DOMAIN answer :
        answer[n].in \subseteq DOMAIN answer /\ \E t \in trace : answer[n] \in Fresh(t)
  BY AnswersType
<1>5. \A t \in trace : t.link \in Link /\ WellLayered(t.link, symKey)
  BY DEF TypeInv, TypeOK, StoryInv
<1>6. DOMAIN page' = DOMAIN answer
  BY <1>3 DEF decryptLinks
<1>7. \A n \in DOMAIN answer : answer[n] \in Values
  BY <1>4, <1>5, FreshType
<1>8. \A n \in DOMAIN answer :
        page'[n] = IF decryptor /\ Reached(answer, n) THEN parseAndDecryptLink(answer[n])
                                                      ELSE answer[n]
  BY <1>3 DEF decryptLinks
<1>9. ASSUME NEW n \in DOMAIN answer
      PROVE  /\ page'[n].in = answer[n].in /\ page'[n].kind = answer[n].kind
             /\ CopyIn(page'[n], trace)
             /\ decryptor /\ Reached(answer, n) =>
                  \A l \in Held(page'[n]) : ~ DecryptLinkDataOK(l)
  <2>1. PICK t \in trace : answer[n] \in Fresh(t)
    BY <1>4
  <2>2. IsCopy(t.link, t.link) /\ IsCopy(DecryptLink(t.link), t.link)
    BY <1>5, SelfCopy, CopyOfCopy
  <2>3. answer[n].hash \in {<<>>, Hash(t.link)} /\ \A l \in Held(answer[n]) : l = t.link
    BY <2>1 DEF Fresh, Held
  <2>4. CASE decryptor /\ Reached(answer, n)
    <3>1. PICK v \in Values : v = answer[n]
      BY <1>7
    <3>2. PICK w : w = parseAndDecryptLink(v)
      OBVIOUS
    <3>3. w.in = v.in /\ w.kind = v.kind /\ w.hash = v.hash
      BY <3>1, <3>2, ParsedType
    <3>4. \A l \in Held(w) : l \in {t.link, DecryptLink(t.link)} /\ ~ DecryptLinkDataOK(l)
      BY <1>5, <2>1, <3>1, <3>2, ParsedStory
    <3>5. page'[n] = w
      BY <1>8, <2>4, <3>1, <3>2
    <3> QED BY <2>2, <2>3, <3>1, <3>3, <3>4, <3>5 DEF CopyIn
  <2>5. CASE ~ (decryptor /\ Reached(answer, n))
    <3>1. page'[n] = answer[n]
      BY <1>8, <2>5
    <3> QED BY <2>2, <2>3, <2>5, <3>1 DEF CopyIn
  <2> QED BY <2>4, <2>5
<1>10. \A n \in DOMAIN page' :
         page'[n].in \subseteq DOMAIN page' /\ CopyIn(page'[n], trace')
  BY <1>2, <1>4, <1>6, <1>9
<1>11. NothingLeftEncrypted'
  <2> SUFFICES ASSUME decryptor', NEW n \in DOMAIN page', Reached(page', n)
               PROVE  \A l \in Held(page'[n]) : ~ DecryptLinkDataOK(l)
    BY DEF NothingLeftEncrypted
  <2>1. n \in DOMAIN answer /\ decryptor
    BY <1>2, <1>6
  <2>2. PICK p : p = page'
    OBVIOUS
  <2>3. Reached(answer, n)
    <3> SUFFICES ASSUME NEW m \in answer[n].in PROVE answer[m].kind # "other"
      BY DEF Reached
    <3>1. page'[n].in = answer[n].in
      BY <1>9, <2>1
    <3>2. m \in p[n].in /\ p[m].kind # "other"
      BY <2>2, <3>1 DEF Reached
    <3>3. m \in DOMAIN answer
      BY <1>4, <2>1
    <3> QED BY <1>9, <2>2, <3>2, <3>3
  <2> QED BY <1>9, <2>1, <2>3
<1>12. DecryptedIsClear'
  BY <1>1 DEF DecryptedIsClear
<1> QED BY <1>2, <1>10, <1>11, <1>12 DEF StoryInv

\* DecryptLinks, on links that it finds decryptable or not.
LEMMA DecryptStory ==
  ASSUME TypeInv, StoryInv, DecryptLinks
  PROVE  StoryInv'
<1> DEFINE OK(n) == \A m \in 1 .. n : RawOK(page[m])
<1>1. /\ UNCHANGED <<linkVars, trace, decryptor>>
      /\ page' = [n \in DOMAIN page |-> IF OK(n - 1) THEN DecryptRaw(page[n]) ELSE page[n]]
      /\ decrypted' = OK(Len(page))
  BY DEF DecryptLinks
<1>2. UNCHANGED <<links, symKey, trace, decryptor>> /\ Built' = Built
  BY <1>1 DEF linkVars, Built
<1>3. page \in Seq(Values)
  BY DEF TypeInv, TypeOK
<1>4. DOMAIN page = 1 .. Len(page) /\ Len(page) \in Nat
      /\ \A n \in DOMAIN page : page[n] \in Values
  BY <1>3, ElementOfSeq, LenProperties
<1>5. \A t \in trace : t.link \in Link /\ WellLayered(t.link, symKey)
  BY DEF TypeInv, TypeOK, StoryInv
<1>6. DOMAIN page' = DOMAIN page
  BY <1>1
<1>7. ASSUME NEW n \in DOMAIN page
      PROVE  /\ page'[n].in = page[n].in /\ page'[n].kind = page[n].kind
             /\ CopyIn(page'[n], trace)
             /\ decryptor /\ Reached(page, n) =>
                  \A l \in Held(page'[n]) : ~ DecryptLinkDataOK(l)
             /\ OK(Len(page)) /\ page'[n].raw # NoLink =>
                  LET l == page'[n].raw
                  IN  \/ l.layers = <<>> /\ (DecryptLinkOK(l) \/ l.form \in ByteForms \cup {NoForm})
                      \/ \E t \in trace : t.link.id = l.id /\ Len(t.link.layers) >= 2
  <2>1. PICK t \in trace :
          (\A l \in Held(page[n]) : IsCopy(l, t.link)) /\ page[n].hash \in {<<>>, Hash(t.link)}
    BY DEF StoryInv, CopyIn
  <2>2. PICK v \in Values : v = page[n]
    BY <1>4
  <2>3. PICK w : w = page'[n]
    OBVIOUS
  <2>4. /\ w.in = v.in /\ w.kind = v.kind /\ w.hash = v.hash /\ w.data = v.data
        /\ w.raw = IF OK(n - 1) /\ v.raw # NoLink THEN DecryptLink(v.raw) ELSE v.raw
    <3>1. w = IF OK(n - 1) THEN DecryptRaw(v) ELSE v
      BY <1>1, <2>2, <2>3
    <3> QED BY <3>1, DecryptRawType
  <2>5. v.raw # NoLink => v.raw \in Link /\ IsCopy(v.raw, t.link)
    BY <2>1, <2>2 DEF Held, Values
  <2>6. \A l \in Held(w) : IsCopy(l, t.link)
    BY <1>5, <2>1, <2>2, <2>4, <2>5, CopyOfCopy DEF Held
  <2>7. CopyIn(w, trace)
    BY <2>1, <2>2, <2>4, <2>6 DEF CopyIn
  <2>8. ASSUME decryptor, Reached(page, n), NEW l \in Held(w) PROVE ~ DecryptLinkDataOK(l)
    <3>1. \A old \in Held(v) : ~ DecryptLinkDataOK(old)
      BY <2>2, <2>8 DEF StoryInv, NothingLeftEncrypted
    <3>2. l \in Held(v)
      <4>1. v.raw # NoLink => DecryptLink(v.raw) = v.raw
        BY <2>5, <3>1, DecryptedIs DEF Held
      <4> QED BY <2>4, <4>1 DEF Held
    <3> QED BY <3>1, <3>2
  <2>9. ASSUME OK(Len(page)), w.raw # NoLink
        PROVE  \/ /\ w.raw.layers = <<>>
                  /\ DecryptLinkOK(w.raw) \/ w.raw.form \in ByteForms \cup {NoForm}
               \/ \E u \in trace : u.link.id = w.raw.id /\ Len(u.link.layers) >= 2
    <3>1. PICK old, l : old \in Link /\ old = v.raw /\ l = w.raw /\ v.raw # NoLink
      BY <2>4, <2>5, <2>9
    <3>2. OK(n - 1) /\ RawOK(v)
      <4>1. n \in 1 .. Len(page) /\ 1 .. n - 1 \subseteq 1 .. Len(page)
        BY <1>4
      <4> QED BY <2>2, <2>9, <4>1
    <3>3. DecryptLinkOK(old) /\ l = DecryptLink(old)
      BY <2>4, <3>1, <3>2 DEF RawOK
    <3>4. CASE ~ IsBytes(old)
      <4>1. l = old
        BY <3>3, <3>4 DEF DecryptLink
      <4> QED BY <3>1, <3>3, <3>4, <4>1 DEF IsBytes
    <3>5. CASE IsBytes(old)
      <4>1. DecryptLinkDataOK(old) /\ old.layers # <<>> /\ old.meta = "object"
        BY <3>3, <3>5 DEF DecryptLinkOK, DecryptLinkDataOK
      <4>2. PICK front : front = Front(old.layers)
        OBVIOUS
      <4>3. l = [old EXCEPT !.layers = front]
        BY <3>3, <3>5, <4>2 DEF DecryptLink
      <4>4. l.layers = front /\ l.meta = old.meta /\ l.form = old.form /\ l.id = old.id
        BY <4>3 DEF Link
      <4>5. /\ front \in Seq(1 .. MaxEncryptions) /\ Len(front) = Len(old.layers) - 1
            /\ Len(old.layers) \in Nat
        BY <3>1, <4>1, <4>2, FrontIs, LenProperties DEF Link, Layers
      <4>6. CASE front = <<>>
        BY <3>1, <4>1, <4>4, <4>6 DEF DecryptLinkOK, HasData, IsBytes
      <4>7. CASE front # <<>>
        <5>1. Len(front) \in Nat /\ Len(front) # 0
          BY <4>5, <4>7, LenProperties, EmptySeq
        <5>2. Len(old.layers) >= 2
          <6>1. ASSUME NEW k \in Nat, NEW m \in Nat, k # 0, k = m - 1 PROVE m >= 2
            BY <6>1
          <6> QED BY <4>5, <5>1, <6>1
        <5>3. Len(old.layers) <= Len(t.link.layers) /\ old.id = t.link.id
              /\ Len(t.link.layers) \in Nat
          BY <1>5, <2>5, <3>1, LenProperties DEF IsCopy, IsPrefix, Link, Layers
        <5> QED BY <3>1, <4>4, <4>5, <5>2, <5>3
      <4> QED BY <4>6, <4>7
    <3> QED BY <3>4, <3>5
  <2> QED BY <2>2, <2>3, <2>4, <2>7, <2>8, <2>9
<1> HIDE DEF OK
<1>8. \A n \in DOMAIN page' : page'[n].in \subseteq DOMAIN page' /\ CopyIn(page'[n], trace')
  BY <1>2, <1>6, <1>7 DEF StoryInv
<1>9. NothingLeftEncrypted'
  <2> SUFFICES ASSUME decryptor', NEW n \in DOMAIN page', Reached(page', n)
               PROVE  \A l \in Held(page'[n]) : ~ DecryptLinkDataOK(l)
    BY DEF NothingLeftEncrypted
  <2>1. Reached(page, n)
    BY <1>6, <1>7 DEF Reached, StoryInv
  <2> QED BY <1>2, <1>6, <1>7, <2>1
<1>10. DecryptedIsClear'
  BY <1>1, <1>2, <1>6, <1>7 DEF DecryptedIsClear
<1> QED BY <1>2, <1>8, <1>9, <1>10 DEF StoryInv

\* Each step.
LEMMA NextStory ==
  ASSUME TypeInv, TypeInv', StoryInv, [Next]_vars
  PROVE  StoryInv'
<1>1. CASE UNCHANGED vars
  <2>1. UNCHANGED <<links, symKey, trace, page, decryptor, decrypted>>
    BY <1>1 DEF vars, linkVars, pageVars
  <2> QED BY <2>1 DEF StoryInv, NothingLeftEncrypted, DecryptedIsClear, Built
<1>2. CASE \/ \E o \in Owners : Join(o)
           \/ \E r \in group : Leave(r) \/ NewKey(r)
           \/ GetRecipientsPublicKeys \/ RecipientsNotFound
  <2>1. UNCHANGED <<links, symKey, trace, page, decryptor, decrypted>>
    BY <1>2 DEF Join, Leave, NewKey, GroupChanges, GetRecipientsPublicKeys, RecipientsNotFound,
                linkVars, pageVars
  <2> QED BY <2>1 DEF StoryInv, NothingLeftEncrypted, DecryptedIsClear, Built
<1>3. CASE CallTraceGql
  BY <1>3, CallStory
<1>4. CASE DecryptLinks
  BY <1>4, DecryptStory
<1>5. CASE \E i \in Ids : NewLink(i) \/ EncryptLink(i) \/ EncryptLinkFails(i)
  BY <1>5, EncryptStory
<1>6. CASE \E i \in Ids : Build(i) \/ SetData(i)
  BY <1>6, ClearInStory
<1>7. CASE \E ids \in SUBSET Ids : CreateLinks(ids) \/ CreateLinksFails(ids)
  BY <1>7, SignStory
<1> QED BY <1>1, <1>2, <1>3, <1>4, <1>5, <1>6, <1>7 DEF Next

LEMMA StoryHolds == Spec => []StoryInv
<1>1. Init => StoryInv
  BY InitStory
<1>2. TypeInv /\ TypeInv' /\ StoryInv /\ [Next]_vars => StoryInv'
  BY NextStory
<1> QED BY <1>1, <1>2, TypeHolds, PTL DEF Spec

\* What a service sees of a link, as raw or as data, is what Trace accepted, with at most
\* one layer off, and that one ours: decrypting with success or not, once or again, does no
\* other harm.
THEOREM FaithfulCopies == Spec => []CopiesAreFaithful
<1>1. StoryInv => CopiesAreFaithful
  BY DEF StoryInv, CopyIn, CopiesAreFaithful
<1> QED BY <1>1, StoryHolds, PTL

\* A client with a decryptor returns nothing that this decryptor could decrypt, in an
\* object or in what is in it, though an error ends parseAndDecryptLink before the data:
\* the object's data is of the link that failed.
THEOREM AnswersDecrypted == Spec => []NothingLeftEncrypted
<1>1. StoryInv => NothingLeftEncrypted
  BY DEF StoryInv
<1> QED BY <1>1, StoryHolds, PTL

\* Where DecryptLinks returned nil, the links are in the clear; only what was encrypted twice
\* or more keeps a layer, and only forms that read as bytes, or no data, would not be taken
\* again.
THEOREM ClearOnceDecrypted == Spec => []DecryptedIsClear
<1>1. StoryInv => DecryptedIsClear
  BY DEF StoryInv
<1> QED BY <1>1, StoryHolds, PTL

\* The parent of an accepted link is an accepted link, one step behind in its map.
THEOREM KnownParents == Spec => []ParentIsKnown
<1>1. StoryInv => ParentIsKnown
  BY DEF StoryInv, ParentIsKnown, KnownParent, KnownIn
<1> QED BY <1>1, StoryHolds, PTL
=============================================================================
