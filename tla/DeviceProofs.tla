---------------------------- MODULE DeviceProofs ----------------------------
(***************************************************************************)
(* Proofs about what a device does with the edits of its user.             *)
(*                                                                         *)
(* Publishing, for every bound: the types, that a snapshot extends the one *)
(* it links to, and that no edit is forgotten.                             *)
(*                                                                         *)
(* LocalStore, for every set of tabs, every set of channels, every number  *)
(* of old updates and of tabs opened: the identity of the release before   *)
(* is kept, and a replay shows what the migration found.                   *)
(***************************************************************************)
EXTENDS Publishing, LocalStore, FiniteSetTheorems, TLAPS

(***************************************************************************)
(* Sequences of publications.                                              *)
(***************************************************************************)
LEMMA RemovedPush ==
  ASSUME NEW s \in Seq(Push), NEW i \in DOMAIN s
  PROVE  /\ RemoveAt(s, i) \in Seq(Push)
         /\ Len(RemoveAt(s, i)) = Len(s) - 1
         /\ \A j \in DOMAIN RemoveAt(s, i) :
              \E k \in DOMAIN s : RemoveAt(s, i)[j] = s[k]
         /\ \A k \in DOMAIN s : k # i =>
              \E j \in DOMAIN RemoveAt(s, i) : RemoveAt(s, i)[j] = s[k]
<1> DEFINE u == SubSeq(s, 1, i - 1)
           v == SubSeq(s, i + 1, Len(s))
           r == RemoveAt(s, i)
<1>1. u \in Seq(Push) /\ Len(u) = i - 1 /\ \A j \in 1..i - 1 : u[j] = s[j]
  OBVIOUS
<1>2. v \in Seq(Push) /\ Len(v) = Len(s) - i /\ \A j \in 1..Len(s) - i : v[j] = s[i + j]
  OBVIOUS
<1>3. r = u \o v
  BY DEF RemoveAt
<1> HIDE DEF u, v, r
<1>4. /\ r \in Seq(Push)
      /\ Len(r) = Len(s) - 1
      /\ \A j \in 1..Len(s) - 1 : r[j] = IF j < i THEN s[j] ELSE s[j + 1]
  BY <1>1, <1>2, <1>3
<1>5. \A j \in DOMAIN r : \E k \in DOMAIN s : r[j] = s[k]
  BY <1>4
<1>6. ASSUME NEW k \in DOMAIN s, k # i
      PROVE  \E j \in DOMAIN r : r[j] = s[k]
  <2>1. CASE k < i
    <3>1. k \in DOMAIN r /\ r[k] = s[k]
      BY <1>4, <2>1
    <3> QED BY <3>1
  <2>2. CASE k > i
    <3>1. k - 1 \in DOMAIN r /\ r[k - 1] = s[k]
      BY <1>4, <2>2
    <3> QED BY <3>1
  <2> QED BY <1>6, <2>1, <2>2
<1> QED BY <1>4, <1>5, <1>6 DEF r

LEMMA ContentsOfAppend ==
  ASSUME NEW s \in Seq(Push), NEW p \in Push
  PROVE  Contents(Append(s, p)) = Contents(s) \cup p.content
<1>1. DOMAIN Append(s, p) = DOMAIN s \cup {Len(s) + 1}
  OBVIOUS
<1>2. Append(s, p)[Len(s) + 1] = p /\ \A i \in DOMAIN s : Append(s, p)[i] = s[i]
  OBVIOUS
<1>3. Contents(Append(s, p)) \subseteq Contents(s) \cup p.content
  <2> SUFFICES ASSUME NEW e \in Contents(Append(s, p))
               PROVE  e \in Contents(s) \cup p.content
    OBVIOUS
  <2>1. PICK i \in DOMAIN Append(s, p) : e \in Append(s, p)[i].content
    BY DEF Contents
  <2>2. CASE i \in DOMAIN s
    <3>1. e \in s[i].content
      BY <1>2, <2>1, <2>2
    <3> QED BY <2>2, <3>1 DEF Contents
  <2>3. CASE i = Len(s) + 1
    <3>1. e \in p.content
      BY <1>2, <2>1, <2>3
    <3> QED BY <3>1
  <2> QED BY <1>1, <2>1, <2>2, <2>3
<1>4. Contents(s) \subseteq Contents(Append(s, p))
  <2> SUFFICES ASSUME NEW e \in Contents(s)
               PROVE  e \in Contents(Append(s, p))
    OBVIOUS
  <2>1. PICK i \in DOMAIN s : e \in s[i].content
    BY DEF Contents
  <2>2. i \in DOMAIN Append(s, p) /\ Append(s, p)[i] = s[i]
    BY <1>1, <1>2, <2>1
  <2> QED BY <2>1, <2>2 DEF Contents
<1>5. p.content \subseteq Contents(Append(s, p))
  <2>1. Len(s) + 1 \in DOMAIN Append(s, p) /\ Append(s, p)[Len(s) + 1] = p
    BY <1>1, <1>2
  <2> QED BY <2>1 DEF Contents
<1> QED BY <1>3, <1>4, <1>5

LEMMA ContentsOfRemoved ==
  ASSUME NEW s \in Seq(Push), NEW i \in DOMAIN s
  PROVE  Contents(s) \subseteq Contents(RemoveAt(s, i)) \cup s[i].content
<1> DEFINE r == RemoveAt(s, i)
<1>1. \A k \in DOMAIN s : k # i => \E j \in DOMAIN r : r[j] = s[k]
  BY RemovedPush
<1> HIDE DEF r
<1>2. ASSUME NEW e \in Contents(s)
      PROVE  e \in Contents(r) \cup s[i].content
  <2>1. PICK k \in DOMAIN s : e \in s[k].content
    BY DEF Contents
  <2>2. CASE k # i
    <3>1. PICK j \in DOMAIN r : r[j] = s[k]
      BY <1>1, <2>2
    <3> QED BY <2>1, <3>1 DEF Contents
  <2> QED BY <2>1, <2>2
<1> QED BY <1>2 DEF r
-----------------------------------------------------------------------------
(***************************************************************************)
(* Types.  Publications in progress count against the bound, so that each  *)
(* finds a free identifier when it ends.                                   *)
(***************************************************************************)
TypeInv == PublishingTypeOK /\ Len(snaps) + Len(pushes) <= MaxSnapshots

LEMMA ShownType ==
  ASSUME NEW f
  PROVE  DeriveSaveState(f) \in SaveState
BY DEF DeriveSaveState, SaveState

LEMMA ReduceType ==
  ASSUME NEW s \in Flags, NEW fact \in Fact
  PROVE  Reduce(s, fact) \in Flags
BY DEF Reduce, Flags, Fact

LEMMA StartPushType ==
  ASSUME TypeInv, StartPush
  PROVE  /\ pushes' \in Seq(Push)
         /\ Len(snaps) + Len(pushes') <= MaxSnapshots
         /\ missed' \subseteq EditId
         /\ local' \in Flags
         /\ feed' \in SaveState
         /\ queue' \in Seq(Fact)
<1> DEFINE p == [prev |-> codec.prev, seq |-> codec.seq, content |-> content]
<1>1. p \in Push
  BY DEF TypeInv, PublishingTypeOK, Push
<1>2. pushes \in Seq(Push) /\ snaps \in Seq(Push) /\ pushes' = Append(pushes, p)
  BY DEF TypeInv, PublishingTypeOK, StartPush
<1>3. Len(snaps) + Len(pushes) < MaxSnapshots
  BY DEF StartPush
<1> HIDE DEF p
<1>4. pushes' \in Seq(Push) /\ Len(snaps) + Len(pushes') <= MaxSnapshots
  BY <1>1, <1>2, <1>3, PublishingAssumption
<1>5. local' \in Flags
  BY DEF StartPush, TypeInv, PublishingTypeOK, Flags
<1>6. feed' \in SaveState
  BY ShownType DEF StartPush, Shown
<1>7. queue' \in Seq(Fact)
  <2>1. queue \in Seq(Fact) /\ "publish-started" \in Fact
    BY DEF TypeInv, PublishingTypeOK, Fact
  <2> QED BY <2>1 DEF StartPush
<1>8. missed' \subseteq EditId
  BY DEF StartPush, TypeInv, PublishingTypeOK
<1> QED BY <1>4, <1>5, <1>6, <1>7, <1>8

\* One fact more, or the two of a publication.
LEMMA QueueType ==
  ASSUME PublishingTypeOK, NEW f \in Fact, NEW g \in Fact
  PROVE  Append(queue, f) \in Seq(Fact) /\ queue \o <<f, g>> \in Seq(Fact)
<1>1. queue \in Seq(Fact)
  BY DEF PublishingTypeOK
<1> QED BY <1>1

LEMMA SnapIdBound ==
  ASSUME TypeInv
  PROVE  /\ DOMAIN snaps \subseteq SnapId
         /\ pushes # <<>> => Len(snaps) + 1 \in SnapId
<1>1. snaps \in Seq(Push) /\ pushes \in Seq(Push)
  BY DEF TypeInv, PublishingTypeOK
<1>2. Len(snaps) + Len(pushes) <= MaxSnapshots
  BY DEF TypeInv
<1> QED BY <1>1, <1>2, PublishingAssumption DEF SnapId

LEMMA PushedType ==
  ASSUME TypeInv, NEW i \in DOMAIN pushes, Pushed(i)
  PROVE  TypeInv'
<1> DEFINE p == pushes[i]
           id == Len(snaps) + 1
<1>1. pushes \in Seq(Push) /\ snaps \in Seq(Push) /\ p \in Push
  BY DEF TypeInv, PublishingTypeOK
<1>2. pushes' = RemoveAt(pushes, i) /\ snaps' = Append(snaps, p)
  BY DEF Pushed
<1>3. pushes' \in Seq(Push) /\ Len(pushes') = Len(pushes) - 1
  BY <1>1, <1>2, RemovedPush
<1> HIDE DEF p
<1>4. snaps' \in Seq(Push) /\ Len(snaps') = Len(snaps) + 1
  BY <1>1, <1>2
<1>5. Len(snaps') + Len(pushes') <= MaxSnapshots
  BY <1>1, <1>3, <1>4, PublishingAssumption DEF TypeInv
<1>6. codec' \in [prev : SnapId \cup {NoSnap}, seq : Nat \ {0}]
  <2>1. id \in SnapId
    BY <1>1, SnapIdBound
  <2>2. codec.seq + 1 \in Nat \ {0}
    BY DEF TypeInv, PublishingTypeOK
  <2>3. codec' = [prev |-> id, seq |-> codec.seq + 1]
    BY DEF Pushed
  <2> HIDE DEF id
  <2> QED BY <2>1, <2>2, <2>3
<1>7. local' \in Flags /\ feed' \in SaveState
  BY ShownType DEF Pushed, SetLocal, Shown, TypeInv, PublishingTypeOK, Flags
<1>8. queue' \in Seq(Fact)
  <2>1. queue' = queue \/ queue' = queue \o <<"tip-advanced", "publish-succeeded">>
    BY DEF Pushed
  <2>2. "tip-advanced" \in Fact /\ "publish-succeeded" \in Fact
    BY DEF Fact
  <2>3. queue \in Seq(Fact) /\ PublishingTypeOK
    BY DEF TypeInv, PublishingTypeOK
  <2> QED BY <2>1, <2>2, <2>3, QueueType
<1>9. UNCHANGED <<docVars, missed, placed, failures, interp, running, timer>>
  BY DEF Pushed
<1> QED BY <1>3, <1>4, <1>5, <1>6, <1>7, <1>8, <1>9 DEF TypeInv, PublishingTypeOK, docVars

LEMMA PushFailedType ==
  ASSUME TypeInv, NEW i \in DOMAIN pushes, PushFailed(i)
  PROVE  TypeInv'
<1>1. pushes \in Seq(Push) /\ snaps \in Seq(Push)
  BY DEF TypeInv, PublishingTypeOK
<1>2. pushes' \in Seq(Push) /\ Len(pushes') = Len(pushes) - 1
  BY <1>1, RemovedPush DEF PushFailed
<1>3. Len(snaps) + Len(pushes') <= MaxSnapshots
  BY <1>1, <1>2, PublishingAssumption DEF TypeInv
<1>4. local' \in Flags /\ feed' \in SaveState
  BY ShownType DEF PushFailed, SetLocal, Shown, TypeInv, PublishingTypeOK, Flags
<1>5. queue' \in Seq(Fact)
  <2>1. queue' = Append(queue, "publish-failed") /\ "publish-failed" \in Fact
    BY DEF PushFailed, Fact
  <2> QED BY <2>1, QueueType DEF TypeInv
<1>6. failures' \in Nat
  BY DEF PushFailed, TypeInv, PublishingTypeOK
<1>7. UNCHANGED <<docVars, snaps, missed, codec, placed, interp, running, timer>>
  BY DEF PushFailed
<1> QED BY <1>2, <1>3, <1>4, <1>5, <1>6, <1>7 DEF TypeInv, PublishingTypeOK, docVars

LEMMA MergeType ==
  ASSUME TypeInv, NEW i \in DOMAIN snaps, Merge(i)
  PROVE  TypeInv'
<1>1. i \in SnapId /\ snaps[i] \in Push
  BY SnapIdBound DEF TypeInv, PublishingTypeOK
<1>2. content' \subseteq EditId /\ surface' \subseteq EditId /\ placed' \subseteq SnapId
  BY <1>1 DEF Merge, TypeInv, PublishingTypeOK, Push
<1>3. codec' \in [prev : SnapId \cup {NoSnap}, seq : Nat \ {0}]
  BY <1>1 DEF Merge, TypeInv, PublishingTypeOK, Push
<1>4. queue' \in Seq(Fact)
  <2>1. queue' = Append(queue, "tip-advanced") /\ "tip-advanced" \in Fact
    BY DEF Merge, Fact
  <2> QED BY <2>1, QueueType DEF TypeInv
<1>5. UNCHANGED <<edits, signing, replayed, snaps, pushes, missed, failures, local, interp,
                  running, feed, timer>>
  BY DEF Merge
<1> QED BY <1>2, <1>3, <1>4, <1>5 DEF TypeInv, PublishingTypeOK

\* What a peer publishes.
FromPeer(i) ==
  IF i = NoSnap THEN [prev |-> NoSnap, seq |-> 1, content |-> {edits + 1}]
  ELSE [prev |-> i, seq |-> snaps[i].seq + 1,
        content |-> snaps[i].content \cup {edits + 1}]

LEMMA FromPeerType ==
  ASSUME TypeInv, NEW i \in DOMAIN snaps \cup {NoSnap}, Peer(i)
  PROVE  FromPeer(i) \in Push /\ edits + 1 \in EditId
<1>1. edits + 1 \in EditId
  BY PublishingAssumption DEF Peer, TypeInv, PublishingTypeOK, EditId
<1>2. CASE i = NoSnap
  BY <1>1, <1>2 DEF FromPeer, Push
<1>3. CASE i # NoSnap
  <2>1. i \in SnapId /\ snaps[i] \in Push
    BY <1>3, SnapIdBound DEF TypeInv, PublishingTypeOK
  <2> QED BY <1>1, <1>3, <2>1 DEF FromPeer, Push
<1> QED BY <1>1, <1>2, <1>3

LEMMA PeerType ==
  ASSUME TypeInv, NEW i \in DOMAIN snaps \cup {NoSnap}, Peer(i)
  PROVE  TypeInv'
<1>1. FromPeer(i) \in Push /\ edits + 1 \in EditId
  BY FromPeerType
<1>2. snaps' = Append(snaps, FromPeer(i)) /\ edits' = edits + 1
  BY DEF Peer, FromPeer
<1>3. snaps \in Seq(Push) /\ pushes \in Seq(Push)
  BY DEF TypeInv, PublishingTypeOK
<1>4. Len(snaps) + Len(pushes) < MaxSnapshots
  BY DEF Peer
<1>5. snaps' \in Seq(Push) /\ Len(snaps') + Len(pushes) <= MaxSnapshots
  BY <1>1, <1>2, <1>3, <1>4, PublishingAssumption
<1>6. UNCHANGED <<surface, content, signing, replayed, pushes, missed, codec, placed,
                  failures, statusVars>>
  BY DEF Peer
<1> QED BY <1>1, <1>2, <1>5, <1>6 DEF TypeInv, PublishingTypeOK, statusVars

LEMMA TypeInvariant == PublishingSpec => []TypeInv
<1>1. PublishingInit => TypeInv
  <2> SUFFICES ASSUME PublishingInit PROVE TypeInv
    OBVIOUS
  <2>1. queue \in Seq(Fact)
    BY DEF PublishingInit, Fact
  <2>2. edits \in EditId /\ content \subseteq EditId /\ surface \subseteq EditId
    BY PublishingAssumption DEF PublishingInit, EditId
  <2>3. snaps \in Seq(Push) /\ pushes \in Seq(Push) /\ Len(snaps) + Len(pushes) <= MaxSnapshots
    BY PublishingAssumption DEF PublishingInit
  <2> QED BY <2>1, <2>2, <2>3 DEF PublishingInit, TypeInv, PublishingTypeOK, Flags, SaveState
<1>2. TypeInv /\ [PublishingNext]_publishingVars => TypeInv'
  <2> SUFFICES ASSUME TypeInv, [PublishingNext]_publishingVars PROVE TypeInv'
    OBVIOUS
  <2>1. CASE EditMade \/ PluginEdit \/ Replayed
    <3>1. NewEdit
      BY <2>1 DEF EditMade, PluginEdit, Replayed
    <3>2. edits' \in EditId /\ surface' \subseteq EditId
      BY <3>1, PublishingAssumption DEF NewEdit, TypeInv, PublishingTypeOK, EditId
    <3>3. edits + 1 \in EditId
      BY <3>1, PublishingAssumption DEF NewEdit, TypeInv, PublishingTypeOK, EditId
    <3>4. content' \subseteq EditId /\ signing' \subseteq EditId /\ replayed' \subseteq EditId
      BY <2>1, <3>3 DEF EditMade, PluginEdit, Replayed, TypeInv, PublishingTypeOK
    <3>5. local' \in Flags /\ feed' \in SaveState
      BY <3>1, ShownType DEF NewEdit, MarkContentDirty, SetLocal, Shown, TypeInv, PublishingTypeOK, Flags
    <3>6. queue' \in Seq(Fact)
      <4>1. queue' = Append(queue, "content-dirty") /\ "content-dirty" \in Fact
        BY <3>1 DEF NewEdit, MarkContentDirty, Fact
      <4> QED BY <4>1, QueueType DEF TypeInv
    <3>7. timer' \in BOOLEAN /\ UNCHANGED <<chainVars, interp, running>>
      BY <3>1 DEF NewEdit, MarkContentDirty
    <3> QED BY <3>2, <3>4, <3>5, <3>6, <3>7 DEF TypeInv, PublishingTypeOK, chainVars
  <2>11. CASE \E e \in signing : Signed(e)
    <3>1. PICK e \in signing : Signed(e)
      BY <2>11
    <3>2. content' \subseteq EditId /\ signing' \subseteq EditId
      BY <3>1 DEF Signed, TypeInv, PublishingTypeOK
    <3>3. UNCHANGED <<edits, surface, replayed, chainVars, statusVars>>
      BY <3>1 DEF Signed
    <3> QED BY <3>2, <3>3 DEF TypeInv, PublishingTypeOK, chainVars, statusVars
  <2>2. CASE Publish
    BY <2>2, StartPushType DEF Publish, TypeInv, PublishingTypeOK, docVars
  <2>3. CASE SaveDue
    <3>1. CASE StartPush
      BY <2>3, <3>1, StartPushType DEF SaveDue, TypeInv, PublishingTypeOK, docVars
    <3>2. CASE UNCHANGED <<pushes, missed, local, feed, queue>>
      BY <2>3, <3>2 DEF SaveDue, TypeInv, PublishingTypeOK, docVars
    <3> QED BY <2>3, <3>1, <3>2 DEF SaveDue
  <2>4. CASE SaveHidden
    BY <2>4, StartPushType DEF SaveHidden, TypeInv, PublishingTypeOK, docVars
  <2>5. CASE Encoding
    BY <2>5, PushedType, PushFailedType DEF Encoding
  <2>6. CASE StartRuntime
    BY <2>6, ShownType DEF StartRuntime, TypeInv, PublishingTypeOK, docVars, chainVars
  <2>7. CASE Take
    <3>1. queue \in Seq(Fact) /\ queue # <<>>
      BY <2>7 DEF Take, TypeInv, PublishingTypeOK
    <3>2. Head(queue) \in Fact /\ Tail(queue) \in Seq(Fact)
      BY <3>1
    <3>3. interp' \in Flags /\ feed' \in SaveState
      BY <2>7, <3>2, ReduceType, ShownType DEF Take, TypeInv, PublishingTypeOK
    <3> QED BY <2>7, <3>2, <3>3 DEF Take, TypeInv, PublishingTypeOK, docVars, chainVars
  <2>8. CASE \E i \in DOMAIN snaps : Merge(i)
    BY <2>8, MergeType
  <2>9. CASE \E i \in DOMAIN snaps \cup {NoSnap} : Peer(i)
    BY <2>9, PeerType
  <2>10. CASE UNCHANGED publishingVars
    BY <2>10 DEF TypeInv, PublishingTypeOK, publishingVars, docVars, chainVars, statusVars
  <2> QED BY <2>1, <2>2, <2>3, <2>4, <2>5, <2>6, <2>7, <2>8, <2>9, <2>10, <2>11 DEF PublishingNext
<1> QED BY <1>1, <1>2, PTL DEF PublishingSpec

\* Every variable keeps its type.
THEOREM PublishingTypeCorrect == PublishingSpec => []PublishingTypeOK
<1>1. TypeInv => PublishingTypeOK
  BY DEF TypeInv
<1> QED BY <1>1, TypeInvariant, PTL
-----------------------------------------------------------------------------
(***************************************************************************)
(* A snapshot extends its parent.  The strengthening says the same of the  *)
(* publications in progress, whose parent was captured before the await,   *)
(* and that the base is part of the document.                              *)
(***************************************************************************)
Extends(p, s) ==
  p.prev # NoSnap =>
    /\ p.prev \in DOMAIN s
    /\ s[p.prev].content \subseteq p.content
    /\ s[p.prev].seq < p.seq

BaseInv ==
  /\ \A i \in DOMAIN snaps : Extends(snaps[i], snaps)
  /\ \A i \in DOMAIN pushes :
       /\ Extends(pushes[i], snaps)
       /\ pushes[i].content \subseteq content
       /\ pushes[i].seq <= codec.seq
  /\ Extends([prev |-> codec.prev, seq |-> codec.seq, content |-> content], snaps)

LEMMA SeqNumbers ==
  ASSUME NEW s \in Seq(Push), NEW k \in DOMAIN s
  PROVE  s[k].seq \in Nat
<1>1. s[k] \in Push
  OBVIOUS
<1> QED BY <1>1 DEF Push

LEMMA ExtendsLonger ==
  ASSUME NEW s \in Seq(Push), NEW q \in Push, NEW p, Extends(p, s)
  PROVE  Extends(p, Append(s, q))
<1>1. \A k \in DOMAIN s : k \in DOMAIN Append(s, q) /\ Append(s, q)[k] = s[k]
  OBVIOUS
<1> QED BY <1>1 DEF Extends

LEMMA StartPushBase ==
  ASSUME TypeInv, BaseInv, StartPush, UNCHANGED <<content, snaps, codec>>
  PROVE  BaseInv'
<1> DEFINE p == [prev |-> codec.prev, seq |-> codec.seq, content |-> content]
<1>1. pushes \in Seq(Push) /\ pushes' = Append(pushes, p)
  BY DEF StartPush, TypeInv, PublishingTypeOK
<1>2. Extends(p, snaps) /\ p.content \subseteq content /\ p.seq <= codec.seq
  BY DEF BaseInv, TypeInv, PublishingTypeOK
<1> HIDE DEF p
<1>3. \A j \in DOMAIN pushes' : pushes'[j] = p \/ \E k \in DOMAIN pushes : pushes'[j] = pushes[k]
  BY <1>1
<1>4. \A j \in DOMAIN pushes' :
        /\ Extends(pushes'[j], snaps)
        /\ pushes'[j].content \subseteq content
        /\ pushes'[j].seq <= codec.seq
  BY <1>2, <1>3 DEF BaseInv
<1> QED BY <1>4 DEF BaseInv

LEMMA PushedBase ==
  ASSUME TypeInv, BaseInv, NEW i \in DOMAIN pushes, Pushed(i)
  PROVE  BaseInv'
<1> DEFINE p == pushes[i]
           id == Len(snaps) + 1
<1>1. pushes \in Seq(Push) /\ snaps \in Seq(Push) /\ p \in Push
  BY DEF TypeInv, PublishingTypeOK
<1>2. /\ pushes' = RemoveAt(pushes, i)
      /\ snaps' = Append(snaps, p)
      /\ codec' = [prev |-> id, seq |-> codec.seq + 1]
      /\ content' = content
  BY DEF Pushed, docVars
<1>3. Extends(p, snaps) /\ p.content \subseteq content /\ p.seq <= codec.seq
  BY DEF BaseInv
<1>4. \A j \in DOMAIN pushes' : \E k \in DOMAIN pushes : pushes'[j] = pushes[k]
  BY <1>1, <1>2, RemovedPush
<1>5. codec.seq \in Nat /\ \A k \in DOMAIN pushes : pushes[k].seq \in Nat
  BY <1>1, SeqNumbers DEF TypeInv, PublishingTypeOK
<1> HIDE DEF p
<1>6. \A q : Extends(q, snaps) => Extends(q, snaps')
  BY <1>1, <1>2, ExtendsLonger
<1>7. \A j \in DOMAIN snaps' : snaps'[j] = p \/ (j \in DOMAIN snaps /\ snaps'[j] = snaps[j])
  BY <1>1, <1>2
<1>8. \A j \in DOMAIN snaps' : Extends(snaps'[j], snaps')
  BY <1>3, <1>6, <1>7 DEF BaseInv
<1>9. \A j \in DOMAIN pushes' :
        /\ Extends(pushes'[j], snaps')
        /\ pushes'[j].content \subseteq content
        /\ pushes'[j].seq <= codec.seq + 1
  BY <1>4, <1>5, <1>6 DEF BaseInv
<1>10. id \in DOMAIN snaps' /\ snaps'[id] = p
  BY <1>1, <1>2
<1>11. p.seq < codec.seq + 1
  BY <1>1, <1>3, <1>5 DEF Push
<1>12. Extends([prev |-> id, seq |-> codec.seq + 1, content |-> content], snaps')
  BY <1>3, <1>10, <1>11 DEF Extends
<1> HIDE DEF id
<1> QED BY <1>2, <1>8, <1>9, <1>12 DEF BaseInv

LEMMA MergeBase ==
  ASSUME TypeInv, BaseInv, NEW i \in DOMAIN snaps, Merge(i)
  PROVE  BaseInv'
<1>1. snaps[i] \in Push /\ codec.seq \in Nat /\ codec \in [prev : SnapId \cup {NoSnap}, seq : Nat \ {0}]
  BY DEF TypeInv, PublishingTypeOK
<1>2. content' = content \cup snaps[i].content /\ UNCHANGED <<snaps, pushes>>
  BY DEF Merge
<1>3. codec' = IF snaps[i].seq >= codec.seq
               THEN [prev |-> i, seq |-> snaps[i].seq + 1] ELSE codec
  BY DEF Merge
<1>4. codec'.seq \in Nat /\ codec.seq <= codec'.seq
  BY <1>1, <1>3 DEF Push
<1>5. Extends([prev |-> codec'.prev, seq |-> codec'.seq, content |-> content'], snaps)
  <2>1. CASE snaps[i].seq >= codec.seq
    BY <1>1, <1>2, <1>3, <2>1 DEF Extends, Push
  <2>2. CASE ~(snaps[i].seq >= codec.seq)
    BY <1>1, <1>2, <1>3, <2>2 DEF Extends, BaseInv
  <2> QED BY <2>1, <2>2
<1>6. \A j \in DOMAIN pushes : pushes[j].seq \in Nat
  BY SeqNumbers DEF TypeInv, PublishingTypeOK
<1>7. \A j \in DOMAIN pushes :
        pushes[j].content \subseteq content' /\ pushes[j].seq <= codec'.seq
  BY <1>1, <1>2, <1>4, <1>6 DEF BaseInv
<1> QED BY <1>2, <1>5, <1>7 DEF BaseInv

LEMMA PeerBase ==
  ASSUME TypeInv, BaseInv, NEW i \in DOMAIN snaps \cup {NoSnap}, Peer(i)
  PROVE  BaseInv'
<1> DEFINE q == FromPeer(i)
<1>1. q \in Push /\ snaps \in Seq(Push)
  BY FromPeerType DEF TypeInv, PublishingTypeOK
<1>2. snaps' = Append(snaps, q)
  BY DEF Peer, FromPeer
<1>3. Extends(q, snaps)
  <2>1. \A k \in DOMAIN snaps : k # NoSnap /\ snaps[k].seq \in Nat
    BY <1>1, SeqNumbers DEF NoSnap
  <2> QED BY <2>1 DEF FromPeer, Extends
<1> HIDE DEF q
<1>4. \A p : Extends(p, snaps) => Extends(p, snaps')
  BY <1>1, <1>2, ExtendsLonger
<1>5. \A j \in DOMAIN snaps' : snaps'[j] = q \/ (j \in DOMAIN snaps /\ snaps'[j] = snaps[j])
  BY <1>1, <1>2
<1>6. \A j \in DOMAIN snaps' : Extends(snaps'[j], snaps')
  BY <1>3, <1>4, <1>5 DEF BaseInv
<1>7. UNCHANGED <<content, pushes, codec>>
  BY DEF Peer
<1> QED BY <1>4, <1>6, <1>7 DEF BaseInv

\* A snapshot contains its parent and has a greater sequence number.
THEOREM ParentsCorrect == PublishingSpec => []SnapshotExtendsParent
<1>1. PublishingInit => BaseInv
  BY DEF PublishingInit, BaseInv, Extends
<1>2. TypeInv /\ BaseInv /\ [PublishingNext]_publishingVars => BaseInv'
  <2> SUFFICES ASSUME TypeInv, BaseInv, [PublishingNext]_publishingVars PROVE BaseInv'
    OBVIOUS
  <2>1. CASE EditMade \/ PluginEdit \/ Replayed \/ \E e \in signing : Signed(e)
    <3>1. content \subseteq content' /\ UNCHANGED <<snaps, pushes, codec>>
      BY <2>1 DEF EditMade, PluginEdit, Replayed, NewEdit, Signed, chainVars
    <3>2. Extends([prev |-> codec.prev, seq |-> codec.seq, content |-> content'], snaps)
      BY <3>1 DEF BaseInv, Extends
    <3> QED BY <3>1, <3>2 DEF BaseInv
  <2>2. CASE Publish
    BY <2>2, StartPushBase DEF Publish, docVars
  <2>3. CASE SaveDue
    <3>1. CASE StartPush
      BY <2>3, <3>1, StartPushBase DEF SaveDue, docVars
    <3>2. CASE UNCHANGED <<pushes, missed, local, feed, queue>>
      BY <2>3, <3>2 DEF SaveDue, docVars, BaseInv
    <3> QED BY <2>3, <3>1, <3>2 DEF SaveDue
  <2>4. CASE SaveHidden
    BY <2>4, StartPushBase DEF SaveHidden, docVars
  <2>5. ASSUME NEW i \in DOMAIN pushes, PushFailed(i)
        PROVE  BaseInv'
    <3>1. pushes \in Seq(Push) /\ pushes' = RemoveAt(pushes, i)
      BY <2>5 DEF PushFailed, TypeInv, PublishingTypeOK
    <3>2. \A j \in DOMAIN pushes' : \E k \in DOMAIN pushes : pushes'[j] = pushes[k]
      BY <3>1, RemovedPush
    <3>3. UNCHANGED <<content, snaps, codec>>
      BY <2>5 DEF PushFailed, docVars
    <3> QED BY <3>2, <3>3 DEF BaseInv
  <2>6. CASE StartRuntime \/ Take \/ UNCHANGED publishingVars
    BY <2>6 DEF StartRuntime, Take, publishingVars, docVars, chainVars, BaseInv
  <2> QED BY <2>1, <2>2, <2>3, <2>4, <2>5, <2>6, PushedBase, MergeBase, PeerBase
          DEF PublishingNext, Encoding
<1>3. BaseInv => SnapshotExtendsParent
  BY DEF BaseInv, Extends, SnapshotExtendsParent
<1> QED BY <1>1, <1>2, <1>3, TypeInvariant, PTL DEF PublishingSpec
-----------------------------------------------------------------------------
(***************************************************************************)
(* Edits.  A publication folds the tree in the step that clears the flag.  *)
(* What the tree may lack of the surface is signing or replayed, so what   *)
(* the publication does not fold is missed.                                *)
(***************************************************************************)
TreeInv == surface \subseteq content \cup signing \cup replayed

EditsInv == TreeInv /\ EditsAreAccountedFor

LEMMA StartPushEdits ==
  ASSUME TypeInv, TreeInv, StartPush, UNCHANGED <<docVars, snaps, failures>>
  PROVE  EditsInv'
<1> DEFINE p == [prev |-> codec.prev, seq |-> codec.seq, content |-> content]
<1>1. p \in Push /\ pushes \in Seq(Push)
  BY DEF TypeInv, PublishingTypeOK, Push
<1>2. pushes' = Append(pushes, p) /\ missed' = (signing \cup replayed) \ content
  BY DEF StartPush
<1>3. p.content = content
  OBVIOUS
<1> HIDE DEF p
<1>4. content \subseteq Contents(pushes')
  BY <1>1, <1>2, <1>3, ContentsOfAppend
<1>5. surface \ missed' \subseteq content
  BY <1>2 DEF TreeInv
<1>6. TreeInv'
  BY DEF TreeInv, docVars
<1>7. EditsAreAccountedFor'
  BY <1>4, <1>5 DEF EditsAreAccountedFor, docVars
<1> QED BY <1>6, <1>7 DEF EditsInv

LEMMA PushedEdits ==
  ASSUME TypeInv, EditsInv, NEW i \in DOMAIN pushes, Pushed(i)
  PROVE  EditsInv'
<1> DEFINE p == pushes[i]
<1>1. p \in Push /\ pushes \in Seq(Push) /\ snaps \in Seq(Push)
  BY DEF TypeInv, PublishingTypeOK
<1>2. pushes' = RemoveAt(pushes, i) /\ snaps' = Append(snaps, p)
  BY DEF Pushed
<1>3. Contents(snaps') = Contents(snaps) \cup p.content
  BY <1>1, <1>2, ContentsOfAppend
<1>4. Contents(pushes) \subseteq Contents(pushes') \cup p.content
  BY <1>1, <1>2, ContentsOfRemoved
<1>5. local'.dirty = local.dirty /\ UNCHANGED <<docVars, missed, failures>>
  BY DEF Pushed, SetLocal, TypeInv, PublishingTypeOK, Flags
<1> HIDE DEF p
<1>6. TreeInv'
  BY <1>5 DEF EditsInv, TreeInv, docVars
<1>7. EditsAreAccountedFor'
  BY <1>3, <1>4, <1>5 DEF EditsInv, EditsAreAccountedFor, docVars
<1> QED BY <1>6, <1>7 DEF EditsInv

\* No edit is forgotten: it is published, being published, marked dirty, or one
\* the tree lacked when the last publication began.
THEOREM EditsCorrect == PublishingSpec => []EditsAreAccountedFor
<1>1. PublishingInit => EditsInv
  BY DEF PublishingInit, EditsInv, TreeInv, EditsAreAccountedFor
<1>2. TypeInv /\ EditsInv /\ [PublishingNext]_publishingVars => EditsInv'
  <2> SUFFICES ASSUME TypeInv, EditsInv, [PublishingNext]_publishingVars
               PROVE  EditsInv'
    OBVIOUS
  <2>1. CASE EditMade \/ PluginEdit \/ Replayed
    <3>1. NewEdit
      BY <2>1 DEF EditMade, PluginEdit, Replayed
    <3>2. local'.dirty
      BY <3>1 DEF NewEdit, MarkContentDirty, SetLocal, TypeInv, PublishingTypeOK, Flags
    <3>3. surface' = surface \cup {edits + 1}
      BY <3>1 DEF NewEdit
    <3>4. TreeInv'
      BY <2>1, <3>3 DEF EditMade, PluginEdit, Replayed, EditsInv, TreeInv
    <3> QED BY <3>2, <3>4 DEF EditsInv, EditsAreAccountedFor
  <2>2. CASE \E e \in signing : Signed(e)
    <3>1. PICK e \in signing : Signed(e)
      BY <2>2
    <3>2. signing' = signing \ {e} /\ content' = content \cup {e}
          /\ UNCHANGED <<surface, replayed>>
      BY <3>1 DEF Signed
    <3>3. UNCHANGED <<surface, missed, snaps, pushes, failures, local>>
      BY <3>1 DEF Signed, chainVars, statusVars
    <3>4. TreeInv'
      BY <3>2 DEF EditsInv, TreeInv
    <3>5. EditsAreAccountedFor'
      BY <3>3 DEF EditsInv, EditsAreAccountedFor
    <3> QED BY <3>4, <3>5 DEF EditsInv
  <2>3. CASE Publish
    BY <2>3, StartPushEdits DEF Publish, EditsInv
  <2>4. CASE SaveDue
    <3>1. CASE StartPush
      BY <2>4, <3>1, StartPushEdits DEF SaveDue, EditsInv
    <3>2. CASE UNCHANGED <<pushes, missed, local, feed, queue>>
      BY <2>4, <3>2 DEF SaveDue, docVars, EditsInv, TreeInv, EditsAreAccountedFor
    <3> QED BY <2>4, <3>1, <3>2 DEF SaveDue
  <2>5. CASE SaveHidden
    BY <2>5, StartPushEdits DEF SaveHidden, EditsInv
  <2>6. ASSUME NEW i \in DOMAIN pushes, PushFailed(i)
        PROVE  EditsInv'
    <3>1. failures' # 0 /\ UNCHANGED docVars
      BY <2>6 DEF PushFailed, TypeInv, PublishingTypeOK
    <3>2. TreeInv'
      BY <3>1 DEF EditsInv, TreeInv, docVars
    <3> QED BY <3>1, <3>2 DEF EditsInv, EditsAreAccountedFor
  <2>7. ASSUME NEW i \in DOMAIN snaps, Merge(i)
        PROVE  EditsInv'
    <3>1. snaps[i].content \subseteq Contents(snaps)
      BY DEF Contents
    <3>2. content' = content \cup snaps[i].content /\ surface' = surface \cup snaps[i].content
          /\ UNCHANGED <<signing, replayed, snaps, pushes, missed, failures, local>>
      BY <2>7 DEF Merge
    <3>3. TreeInv'
      BY <3>2 DEF EditsInv, TreeInv
    <3>4. EditsAreAccountedFor'
      BY <3>1, <3>2 DEF EditsInv, EditsAreAccountedFor
    <3> QED BY <3>3, <3>4 DEF EditsInv
  <2>8. ASSUME NEW i \in DOMAIN snaps \cup {NoSnap}, Peer(i)
        PROVE  EditsInv'
    <3>1. FromPeer(i) \in Push /\ snaps \in Seq(Push)
      BY <2>8, FromPeerType DEF TypeInv, PublishingTypeOK
    <3>2. snaps' = Append(snaps, FromPeer(i))
      BY <2>8 DEF Peer, FromPeer
    <3>3. Contents(snaps) \subseteq Contents(snaps')
      BY <3>1, <3>2, ContentsOfAppend
    <3>4. UNCHANGED <<surface, content, signing, replayed, pushes, missed, failures, local>>
      BY <2>8 DEF Peer, statusVars
    <3>5. TreeInv'
      BY <3>4 DEF EditsInv, TreeInv
    <3>6. EditsAreAccountedFor'
      BY <3>3, <3>4 DEF EditsInv, EditsAreAccountedFor
    <3> QED BY <3>5, <3>6 DEF EditsInv
  <2>9. CASE StartRuntime \/ Take \/ UNCHANGED publishingVars
    BY <2>9 DEF StartRuntime, Take, publishingVars, docVars, chainVars, statusVars,
                EditsInv, TreeInv, EditsAreAccountedFor
  <2> QED BY <2>1, <2>2, <2>3, <2>4, <2>5, <2>6, <2>7, <2>8, <2>9, PushedEdits
          DEF PublishingNext, Encoding
<1>3. EditsInv => EditsAreAccountedFor
  BY DEF EditsInv
<1> QED BY <1>1, <1>2, <1>3, TypeInvariant, PTL DEF PublishingSpec

-----------------------------------------------------------------------------
\* The invariant.

\* The start of a tab is past the migration of the identity.
PastIdentity(t) ==
    tab[t].at \in {"mark identity", "flag doc-cache", "copy doc-cache", "mark doc-cache", "created"}

\* The old seed is copied before anything says so, and where it is copied no
\* tab finds the record empty: none makes a seed of its own, as long as every tab
\* that copies can read the old seed.
SeedIsCopied ==
    before # NoSeed /\ ~unread =>
        /\ seed \in {before, NoSeed}
        /\ "identity" \in flags => seed = before
        /\ \A t \in Tab : /\ PastIdentity(t) => seed = before
                          /\ tab[t].key \in {before, NoSeed}
                          /\ tab[t].saving = NoSeed

\* The keys of a database of y-indexeddb that was never rewritten have no gaps.
Initial(S) == \E k \in Nat : S = 1 .. k

\* What is copied of an old database is what it began with.
CopiesArePrefixes ==
    \A g \in Guid \ trimmed : Initial(old[g]) /\ Initial(copies[g])

\* The database that tab t is busy with.
Working(t) == tab[t].step \in {"count", "write", "version", "close"}

\* Tab t read g and has neither counted nor copied what it read.
Pending(t, g) == tab[t].step \in {"count", "write"} /\ tab[t].guid = g

\* What a tab read of an old database is in the store, unless the copy is still
\* under way, failed or hangs; and what it replayed without a failure shows it.
MigrationIsExact ==
    \A t \in Tab :
        /\ Working(t) => tab[t].guid \in Guid
        /\ tab[t].replayed # {} => tab[t].step = "done"
        /\ \A g \in Guid \ trimmed :
            /\ Initial(tab[t].read[g])
            /\ g \in tab[t].failed \/ tab[t].step = "hung" \/ Pending(t, g)
                 \/ tab[t].read[g] \subseteq copies[g]
            /\ g \in tab[t].failed \/ g \in tab[t].unplayed \/ g \notin tab[t].replayed
                 \/ {g} \X tab[t].read[g] \subseteq tab[t].shown

\* A tab that does anything was opened.
OpenedIsCounted == \A t \in Tab : tab[t].at # "closed" => opens > 0

IInv ==
    /\ TypeOK
    /\ OpenedIsCounted
    /\ SeedIsCopied
    /\ CopiesArePrefixes
    /\ MigrationIsExact
-----------------------------------------------------------------------------
\* Types.

Fields == {"at", "step", "todo", "guid", "read", "version", "failed", "key", "saving",
           "replayed", "unplayed", "shown"}

\* Tab t changes in the fields of S only, and the other tabs do not.
Kept(t, S) ==
    /\ tab' \in [Tab -> TabState]
    /\ \A f \in Fields \ S : tab'[t][f] = tab[t][f]
    /\ \A u \in Tab \ {t} : tab'[u] = tab[u]

LEMMA Domain == ASSUME NEW r \in TabState PROVE DOMAIN r = Fields
BY DEF TabState, Fields

\* The fields that an action sets can have any value of their types.
LEMMA RecordTypes ==
    ASSUME NEW r \in TabState
    PROVE  /\ \A at \in Start : [r EXCEPT !.at = at] \in TabState
           /\ \A step \in Step : [r EXCEPT !.step = step] \in TabState
           /\ \A step \in Step, T \in SUBSET Guid : [r EXCEPT !.step = step, !.todo = T] \in TabState
           /\ \A step \in Step, v \in Nat : [r EXCEPT !.step = step, !.version = v] \in TabState
           /\ \A step \in Step, T \in SUBSET Guid : [r EXCEPT !.step = step, !.failed = T] \in TabState
           /\ \A k \in Seed \cup {NoSeed} : [r EXCEPT !.key = k] \in TabState
           /\ \A k \in Seed \cup {NoSeed} : [r EXCEPT !.saving = k] \in TabState
           /\ \A k \in Seed \cup {NoSeed}, n \in Seed \cup {NoSeed} : [r EXCEPT !.key = k, !.saving = n] \in TabState
           /\ \A T \in SUBSET Guid, S \in SUBSET (Guid \X Update) : [r EXCEPT !.replayed = T, !.shown = S] \in TabState
           /\ \A T \in SUBSET Guid, U \in SUBSET Guid, S \in SUBSET (Guid \X Update) :
                [r EXCEPT !.replayed = T, !.unplayed = U, !.shown = S] \in TabState
           /\ \A T \in SUBSET Guid : [r EXCEPT !.todo = T] \in TabState
           /\ \A at \in Start, k \in Seed \cup {NoSeed} : [r EXCEPT !.at = at, !.saving = k] \in TabState
<1> USE DEF TabState
<1>1. \A at \in Start : [r EXCEPT !.at = at] \in TabState
  OBVIOUS
<1>2. \A step \in Step : [r EXCEPT !.step = step] \in TabState
  OBVIOUS
<1>3. \A step \in Step, T \in SUBSET Guid : [r EXCEPT !.step = step, !.todo = T] \in TabState
  OBVIOUS
<1>4. \A step \in Step, v \in Nat : [r EXCEPT !.step = step, !.version = v] \in TabState
  OBVIOUS
<1>5. \A step \in Step, T \in SUBSET Guid : [r EXCEPT !.step = step, !.failed = T] \in TabState
  OBVIOUS
<1>6. \A k \in Seed \cup {NoSeed} : [r EXCEPT !.key = k] \in TabState
  OBVIOUS
<1>7. \A k \in Seed \cup {NoSeed} : [r EXCEPT !.saving = k] \in TabState
  OBVIOUS
<1>8. \A k \in Seed \cup {NoSeed}, n \in Seed \cup {NoSeed} : [r EXCEPT !.key = k, !.saving = n] \in TabState
  OBVIOUS
<1>9. \A T \in SUBSET Guid, S \in SUBSET (Guid \X Update) : [r EXCEPT !.replayed = T, !.shown = S] \in TabState
  OBVIOUS
<1>10. \A T \in SUBSET Guid, U \in SUBSET Guid, S \in SUBSET (Guid \X Update) :
         [r EXCEPT !.replayed = T, !.unplayed = U, !.shown = S] \in TabState
  OBVIOUS
<1>11. \A T \in SUBSET Guid : [r EXCEPT !.todo = T] \in TabState
  OBVIOUS
<1>12. \A at \in Start, k \in Seed \cup {NoSeed} : [r EXCEPT !.at = at, !.saving = k] \in TabState
  OBVIOUS
<1> HIDE DEF TabState
<1> QED BY <1>1, <1>2, <1>3, <1>4, <1>5, <1>6, <1>7, <1>8, <1>9, <1>10, <1>11, <1>12

\* What each kind of step does to the tab it is a step of.

LEMMA SetsAt ==
    ASSUME tab \in [Tab -> TabState], NEW t \in Tab, NEW at \in Start,
           tab' = [tab EXCEPT ![t].at = at]
    PROVE  tab'[t].at = at /\ Kept(t, {"at"})
<1> DEFINE r == [tab[t] EXCEPT !.at = at]
<1>1. tab[t] \in TabState /\ r \in TabState
  BY RecordTypes
<1>2. tab' \in [Tab -> TabState] /\ tab'[t] = r /\ \A u \in Tab \ {t} : tab'[u] = tab[u]
  BY <1>1
<1>3. \A f \in Fields \ {"at"} : r[f] = tab[t][f]
  BY <1>1, Domain DEF Fields
<1>4. r.at = at
  BY <1>1, Domain DEF Fields
<1> HIDE DEF r
<1> QED BY <1>2, <1>3, <1>4 DEF Kept

LEMMA SetsStep ==
    ASSUME tab \in [Tab -> TabState], NEW t \in Tab, NEW step \in Step,
           tab' = [tab EXCEPT ![t].step = step]
    PROVE  tab'[t].step = step /\ Kept(t, {"step"})
<1> DEFINE r == [tab[t] EXCEPT !.step = step]
<1>1. tab[t] \in TabState /\ r \in TabState
  BY RecordTypes
<1>2. tab' \in [Tab -> TabState] /\ tab'[t] = r /\ \A u \in Tab \ {t} : tab'[u] = tab[u]
  BY <1>1
<1>3. \A f \in Fields \ {"step"} : r[f] = tab[t][f]
  BY <1>1, Domain DEF Fields
<1>4. r.step = step
  BY <1>1, Domain DEF Fields
<1> HIDE DEF r
<1> QED BY <1>2, <1>3, <1>4 DEF Kept

LEMMA SetsTodo ==
    ASSUME tab \in [Tab -> TabState], NEW t \in Tab, NEW step \in Step, NEW T \in SUBSET Guid,
           tab' = [tab EXCEPT ![t].step = step, ![t].todo = T]
    PROVE  tab'[t].step = step /\ tab'[t].todo = T /\ Kept(t, {"step", "todo"})
<1> DEFINE r == [tab[t] EXCEPT !.step = step, !.todo = T]
<1>1. tab[t] \in TabState /\ r \in TabState
  BY RecordTypes
<1>2. tab' \in [Tab -> TabState] /\ tab'[t] = r /\ \A u \in Tab \ {t} : tab'[u] = tab[u]
  BY <1>1
<1>3. \A f \in Fields \ {"step", "todo"} : r[f] = tab[t][f]
  BY <1>1, Domain DEF Fields
<1>4. r.step = step /\ r.todo = T
  BY <1>1, Domain DEF Fields
<1> HIDE DEF r
<1> QED BY <1>2, <1>3, <1>4 DEF Kept

LEMMA SetsVersion ==
    ASSUME tab \in [Tab -> TabState], NEW t \in Tab, NEW step \in Step, NEW v \in Nat,
           tab' = [tab EXCEPT ![t].step = step, ![t].version = v]
    PROVE  tab'[t].step = step /\ tab'[t].version = v /\ Kept(t, {"step", "version"})
<1> DEFINE r == [tab[t] EXCEPT !.step = step, !.version = v]
<1>1. tab[t] \in TabState /\ r \in TabState
  BY RecordTypes
<1>2. tab' \in [Tab -> TabState] /\ tab'[t] = r /\ \A u \in Tab \ {t} : tab'[u] = tab[u]
  BY <1>1
<1>3. \A f \in Fields \ {"step", "version"} : r[f] = tab[t][f]
  BY <1>1, Domain DEF Fields
<1>4. r.step = step /\ r.version = v
  BY <1>1, Domain DEF Fields
<1> HIDE DEF r
<1> QED BY <1>2, <1>3, <1>4 DEF Kept

LEMMA SetsFailed ==
    ASSUME tab \in [Tab -> TabState], NEW t \in Tab, NEW step \in Step, NEW T \in SUBSET Guid,
           tab' = [tab EXCEPT ![t].step = step, ![t].failed = T]
    PROVE  tab'[t].step = step /\ tab'[t].failed = T /\ Kept(t, {"step", "failed"})
<1> DEFINE r == [tab[t] EXCEPT !.step = step, !.failed = T]
<1>1. tab[t] \in TabState /\ r \in TabState
  BY RecordTypes
<1>2. tab' \in [Tab -> TabState] /\ tab'[t] = r /\ \A u \in Tab \ {t} : tab'[u] = tab[u]
  BY <1>1
<1>3. \A f \in Fields \ {"step", "failed"} : r[f] = tab[t][f]
  BY <1>1, Domain DEF Fields
<1>4. r.step = step /\ r.failed = T
  BY <1>1, Domain DEF Fields
<1> HIDE DEF r
<1> QED BY <1>2, <1>3, <1>4 DEF Kept

LEMMA SetsKey ==
    ASSUME tab \in [Tab -> TabState], NEW t \in Tab, NEW k \in Seed \cup {NoSeed},
           tab' = [tab EXCEPT ![t].key = k]
    PROVE  tab'[t].key = k /\ Kept(t, {"key"})
<1> DEFINE r == [tab[t] EXCEPT !.key = k]
<1>1. tab[t] \in TabState /\ r \in TabState
  BY RecordTypes
<1>2. tab' \in [Tab -> TabState] /\ tab'[t] = r /\ \A u \in Tab \ {t} : tab'[u] = tab[u]
  BY <1>1
<1>3. \A f \in Fields \ {"key"} : r[f] = tab[t][f]
  BY <1>1, Domain DEF Fields
<1>4. r.key = k
  BY <1>1, Domain DEF Fields
<1> HIDE DEF r
<1> QED BY <1>2, <1>3, <1>4 DEF Kept

LEMMA SetsSaving ==
    ASSUME tab \in [Tab -> TabState], NEW t \in Tab, NEW k \in Seed \cup {NoSeed},
           tab' = [tab EXCEPT ![t].saving = k]
    PROVE  tab'[t].saving = k /\ Kept(t, {"saving"})
<1> DEFINE r == [tab[t] EXCEPT !.saving = k]
<1>1. tab[t] \in TabState /\ r \in TabState
  BY RecordTypes
<1>2. tab' \in [Tab -> TabState] /\ tab'[t] = r /\ \A u \in Tab \ {t} : tab'[u] = tab[u]
  BY <1>1
<1>3. \A f \in Fields \ {"saving"} : r[f] = tab[t][f]
  BY <1>1, Domain DEF Fields
<1>4. r.saving = k
  BY <1>1, Domain DEF Fields
<1> HIDE DEF r
<1> QED BY <1>2, <1>3, <1>4 DEF Kept

LEMMA SetsSaved ==
    ASSUME tab \in [Tab -> TabState], NEW t \in Tab, NEW k \in Seed \cup {NoSeed}, NEW n \in Seed \cup {NoSeed},
           tab' = [tab EXCEPT ![t].key = k, ![t].saving = n]
    PROVE  tab'[t].key = k /\ tab'[t].saving = n /\ Kept(t, {"key", "saving"})
<1> DEFINE r == [tab[t] EXCEPT !.key = k, !.saving = n]
<1>1. tab[t] \in TabState /\ r \in TabState
  BY RecordTypes
<1>2. tab' \in [Tab -> TabState] /\ tab'[t] = r /\ \A u \in Tab \ {t} : tab'[u] = tab[u]
  BY <1>1
<1>3. \A f \in Fields \ {"key", "saving"} : r[f] = tab[t][f]
  BY <1>1, Domain DEF Fields
<1>4. r.key = k /\ r.saving = n
  BY <1>1, Domain DEF Fields
<1> HIDE DEF r
<1> QED BY <1>2, <1>3, <1>4 DEF Kept

LEMMA SetsShown ==
    ASSUME tab \in [Tab -> TabState], NEW t \in Tab, NEW T \in SUBSET Guid, NEW S \in SUBSET (Guid \X Update),
           tab' = [tab EXCEPT ![t].replayed = T, ![t].shown = S]
    PROVE  tab'[t].replayed = T /\ tab'[t].shown = S /\ Kept(t, {"replayed", "shown"})
<1> DEFINE r == [tab[t] EXCEPT !.replayed = T, !.shown = S]
<1>1. tab[t] \in TabState /\ r \in TabState
  BY RecordTypes
<1>2. tab' \in [Tab -> TabState] /\ tab'[t] = r /\ \A u \in Tab \ {t} : tab'[u] = tab[u]
  BY <1>1
<1>3. \A f \in Fields \ {"replayed", "shown"} : r[f] = tab[t][f]
  BY <1>1, Domain DEF Fields
<1>4. r.replayed = T /\ r.shown = S
  BY <1>1, Domain DEF Fields
<1> HIDE DEF r
<1> QED BY <1>2, <1>3, <1>4 DEF Kept

LEMMA SetsPassed ==
    ASSUME tab \in [Tab -> TabState], NEW t \in Tab, NEW T \in SUBSET Guid,
           tab' = [tab EXCEPT ![t].todo = T]
    PROVE  tab'[t].todo = T /\ Kept(t, {"todo"})
<1> DEFINE r == [tab[t] EXCEPT !.todo = T]
<1>1. tab[t] \in TabState /\ r \in TabState
  BY RecordTypes
<1>2. tab' \in [Tab -> TabState] /\ tab'[t] = r /\ \A u \in Tab \ {t} : tab'[u] = tab[u]
  BY <1>1
<1>3. \A f \in Fields \ {"todo"} : r[f] = tab[t][f]
  BY <1>1, Domain DEF Fields
<1>4. r.todo = T
  BY <1>1, Domain DEF Fields
<1> HIDE DEF r
<1> QED BY <1>2, <1>3, <1>4 DEF Kept

LEMMA SetsKeyless ==
    ASSUME tab \in [Tab -> TabState], NEW t \in Tab, NEW at \in Start, NEW k \in Seed \cup {NoSeed},
           tab' = [tab EXCEPT ![t].at = at, ![t].saving = k]
    PROVE  tab'[t].at = at /\ tab'[t].saving = k /\ Kept(t, {"at", "saving"})
<1> DEFINE r == [tab[t] EXCEPT !.at = at, !.saving = k]
<1>1. tab[t] \in TabState /\ r \in TabState
  BY RecordTypes
<1>2. tab' \in [Tab -> TabState] /\ tab'[t] = r /\ \A u \in Tab \ {t} : tab'[u] = tab[u]
  BY <1>1
<1>3. \A f \in Fields \ {"at", "saving"} : r[f] = tab[t][f]
  BY <1>1, Domain DEF Fields
<1>4. r.at = at /\ r.saving = k
  BY <1>1, Domain DEF Fields
<1> HIDE DEF r
<1> QED BY <1>2, <1>3, <1>4 DEF Kept

LEMMA SetsUnplayed ==
    ASSUME tab \in [Tab -> TabState], NEW t \in Tab, NEW T \in SUBSET Guid, NEW U \in SUBSET Guid,
           NEW S \in SUBSET (Guid \X Update),
           tab' = [tab EXCEPT ![t].replayed = T, ![t].unplayed = U, ![t].shown = S]
    PROVE  tab'[t].replayed = T /\ tab'[t].unplayed = U /\ tab'[t].shown = S /\ Kept(t, {"replayed", "unplayed", "shown"})
<1> DEFINE r == [tab[t] EXCEPT !.replayed = T, !.unplayed = U, !.shown = S]
<1>1. tab[t] \in TabState /\ r \in TabState
  BY RecordTypes
<1>2. tab' \in [Tab -> TabState] /\ tab'[t] = r /\ \A u \in Tab \ {t} : tab'[u] = tab[u]
  BY <1>1
<1>3. \A f \in Fields \ {"replayed", "unplayed", "shown"} : r[f] = tab[t][f]
  BY <1>1, Domain DEF Fields
<1>4. r.replayed = T /\ r.unplayed = U /\ r.shown = S
  BY <1>1, Domain DEF Fields
<1> HIDE DEF r
<1> QED BY <1>2, <1>3, <1>4 DEF Kept

\* Tab t has read the updates n of g.
HasRead(t, g, n) ==
    tab' = [tab EXCEPT ![t].todo = @ \ {g}, ![t].guid = g, ![t].read[g] = n, ![t].step = "count"]

LEMMA SetsRead ==
    ASSUME tab \in [Tab -> TabState], NEW t \in Tab, NEW g \in tab[t].todo, NEW n \in SUBSET Update,
           HasRead(t, g, n)
    PROVE  /\ g \in Guid
           /\ tab'[t].step = "count" /\ tab'[t].guid = g
           /\ tab'[t].read = [tab[t].read EXCEPT ![g] = n]
           /\ Kept(t, {"todo", "guid", "read", "step"})
<1> DEFINE r == [tab[t] EXCEPT !.todo = @ \ {g}, !.guid = g, !.read[g] = n, !.step = "count"]
<1>1. tab[t] \in TabState /\ g \in Guid
  BY DEF TabState
<1>2. ASSUME NEW q \in TabState
      PROVE  [q EXCEPT !.todo = @ \ {g}, !.guid = g, !.read[g] = n, !.step = "count"] \in TabState
  <2> DEFINE T == q.todo \ {g}
             R == [q.read EXCEPT ![g] = n]
  <2>1. q.todo \subseteq Guid /\ q.read \in [Guid -> SUBSET Update]
    BY DEF TabState
  <2>2. T \in SUBSET Guid /\ R \in [Guid -> SUBSET Update]
    BY <1>1, <2>1
  <2>3. "count" \in Step
    BY DEF Step
  <2>4. [q EXCEPT !.todo = T, !.guid = g, !.read = R, !.step = "count"]
          = [q EXCEPT !.todo = @ \ {g}, !.guid = g, !.read[g] = n, !.step = "count"]
    OBVIOUS
  <2> HIDE DEF T, R
  <2>5. [q EXCEPT !.todo = T, !.guid = g, !.read = R, !.step = "count"] \in TabState
    BY <1>1, <2>2, <2>3 DEF TabState
  <2> QED BY <2>4, <2>5
<1>3. r \in TabState
  BY <1>1, <1>2
<1>4. tab' \in [Tab -> TabState] /\ tab'[t] = r /\ \A u \in Tab \ {t} : tab'[u] = tab[u]
  BY <1>1, <1>3 DEF HasRead
<1>5. r.step = "count" /\ r.guid = g /\ r.read = [tab[t].read EXCEPT ![g] = n]
  BY <1>1, Domain DEF Fields
<1>6. \A f \in Fields \ {"todo", "guid", "read", "step"} : r[f] = tab[t][f]
  BY <1>1, Domain DEF Fields
<1> QED BY <1>1, <1>4, <1>5, <1>6 DEF Kept

-----------------------------------------------------------------------------
\* What a tab has, whatever it is doing.
LEMMA FieldTypes ==
    ASSUME TypeOK, NEW t \in Tab
    PROVE  /\ tab[t] \in TabState
           /\ tab[t].at \in Start /\ tab[t].step \in Step
           /\ tab[t].todo \subseteq Guid /\ tab[t].failed \subseteq Guid
           /\ tab[t].guid \in Guid \cup {MetaGuid}
           /\ tab[t].read \in [Guid -> SUBSET Update] /\ tab[t].version \in Nat
           /\ tab[t].key \in Seed \cup {NoSeed} /\ tab[t].saving \in Seed \cup {NoSeed}
           /\ tab[t].replayed \subseteq Guid /\ tab[t].unplayed \subseteq Guid
           /\ tab[t].shown \subseteq Guid \X Update
BY DEF TypeOK, TabState

\* A tab that is closed has the state of a new one.
LEMMA ClosedType == ASSUME StoreAssumption PROVE Closed \in TabState
BY SMTT(30) DEF StoreAssumption, Closed, TabState, Start, Step

\* The initial states have the types.
LEMMA InitType == ASSUME StoreAssumption, Init PROVE TypeOK
<1>1. tab \in [Tab -> TabState]
  BY ClosedType DEF Init
<1>2. seed \in Seed \cup {NoSeed} /\ before \in {OldSeed, NoSeed}
  BY DEF Init, Seed
<1>3. copies \in [Guid -> SUBSET Update] /\ epoch0 \in [Guid -> Nat] /\ old \in [Guid -> SUBSET Update]
  BY DEF Init, StoreAssumption, Update
<1>4. version \in {0, 2, 3} /\ flags \subseteq Migration /\ versions \subseteq Nat
  BY DEF Init, StoreAssumption
<1>5. trimmed \subseteq Guid /\ opens \in 0 .. MaxOpens /\ faults \in 0 .. MaxFaults
  BY DEF Init, StoreAssumption
<1>6. unread \in BOOLEAN /\ oldTab \in BOOLEAN
  BY DEF Init
<1> QED BY <1>1, <1>2, <1>3, <1>4, <1>5, <1>6 DEF TypeOK

\* The steps of a start change where the tab stands.
LEMMA Starts ==
    ASSUME TypeOK, NEW t \in Tab,
           OpenTab(t) \/ OpenDb(t) \/ StartFails(t) \/ SkipIdentity(t) \/ SkipDocCache(t) \/ MigrateSmall(t)
    PROVE  Kept(t, {"at"})
<1>0. tab \in [Tab -> TabState]
  BY DEF TypeOK
<1>1. ASSUME NEW at \in Start, tab' = [tab EXCEPT ![t].at = at] PROVE Kept(t, {"at"})
  BY <1>0, <1>1, SetsAt
<1>2. CASE OpenTab(t) \/ OpenDb(t) \/ StartFails(t)
  BY <1>1, <1>2 DEF OpenTab, OpenDb, StartFails, Start
<1>3. CASE CopyIdentity(t) \/ SkipIdentity(t) \/ CopyDocCache(t) \/ SkipDocCache(t)
  BY <1>1, <1>3 DEF CopyIdentity, SkipIdentity, CopyDocCache, SkipDocCache, Start
<1>4. ASSUME NEW m, NEW here, NEW copy \in Start, NEW next \in Start,
             CheckFlag(t, m, here, copy, next) \/ Mark(t, m, here, next)
      PROVE  Kept(t, {"at"})
  <2>1. CASE m \in flags \/ Mark(t, m, here, next)
    BY <1>1, <1>4, <2>1 DEF CheckFlag, Mark
  <2>2. CASE m \notin flags /\ CheckFlag(t, m, here, copy, next)
    BY <1>1, <2>2 DEF CheckFlag
  <2> QED BY <1>4, <2>1, <2>2
<1> QED BY <1>2, <1>3, <1>4 DEF MigrateSmall, Created, Start

\* Where they leave it.
LEMMA Positions ==
    ASSUME TypeOK, NEW t \in Tab
    PROVE  /\ OpenTab(t) => tab'[t].at = "opening"
           /\ OpenDb(t) => tab'[t].at = "flag identity"
           /\ StartFails(t) => tab'[t].at = "rejected"
           /\ \A m, here : \A copy \in Start, next \in Start :
                CheckFlag(t, m, here, copy, next) => tab'[t].at = IF m \in flags THEN next ELSE copy
<1>0. tab \in [Tab -> TabState]
  BY DEF TypeOK
<1>1. ASSUME NEW at \in Start, tab' = [tab EXCEPT ![t].at = at] PROVE tab'[t].at = at
  BY <1>0, <1>1, SetsAt
<1>2. OpenTab(t) => tab'[t].at = "opening"
  BY <1>1 DEF OpenTab, Start
<1>3. OpenDb(t) => tab'[t].at = "flag identity"
  BY <1>1 DEF OpenDb, Start
<1>4. StartFails(t) => tab'[t].at = "rejected"
  BY <1>1 DEF StartFails, Start
<1>5. ASSUME NEW m, NEW here, NEW copy \in Start, NEW next \in Start, CheckFlag(t, m, here, copy, next)
      PROVE  tab'[t].at = IF m \in flags THEN next ELSE copy
  BY <1>1, <1>5 DEF CheckFlag
<1> QED BY <1>2, <1>3, <1>4, <1>5

\* The start changes the seed, the flags and the versions too.
LEMMA StartType ==
    ASSUME StoreAssumption, TypeOK, NEW t \in Tab, faults' \in 0 .. MaxFaults,
           OpenTab(t) \/ OpenDb(t) \/ StartFails(t) \/ SkipIdentity(t) \/ SkipDocCache(t) \/ MigrateSmall(t)
    PROVE  TypeOK'
<1> USE DEF database, oldVars
<1>0. tab' \in [Tab -> TabState]
  BY Starts DEF Kept
<1>1. CASE OpenTab(t)
  BY <1>0, <1>1 DEF OpenTab, TypeOK, StoreAssumption
<1>2. CASE OpenDb(t)
  BY <1>0, <1>2 DEF OpenDb, TypeOK
<1>3. CASE StartFails(t) \/ SkipDocCache(t)
  BY <1>0, <1>3 DEF StartFails, SkipDocCache, TypeOK
<1>4. ASSUME NEW m \in Migration, NEW here, NEW copy, NEW next,
             CheckFlag(t, m, here, copy, next) \/ Mark(t, m, here, next)
      PROVE  TypeOK'
  BY <1>0, <1>4 DEF CheckFlag, Mark, TypeOK
<1>5. CASE CopyIdentity(t)
  <2>1. before \in Seed \cup {NoSeed}
    BY DEF TypeOK, Seed
  <2> QED BY <1>0, <1>5, <2>1 DEF CopyIdentity, TypeOK
<1>6. CASE CopyDocCache(t)
  BY <1>0, <1>6 DEF CopyDocCache, TypeOK, StoreAssumption
<1>7. CASE SkipIdentity(t)
  BY <1>0, <1>7 DEF SkipIdentity, TypeOK
<1> QED BY <1>1, <1>2, <1>3, <1>4, <1>5, <1>6, <1>7 DEF MigrateSmall, Created, Migration

\* What each step of the background migration does to the tab.
LEMMA Migrates ==
    ASSUME TypeOK, MigrationIsExact, NEW t \in Tab
    PROVE  /\ Working(t) => tab[t].guid \in Guid
           /\ Discover(t) => tab'[t].step = "next" /\ Kept(t, {"step", "todo"})
           /\ CountExisting(t) => /\ tab'[t].step = IF UpToDate(t) THEN "next" ELSE "write"
                                  /\ Kept(t, {"step"})
           /\ WriteEdits(t) => tab'[t].step \in {"next", "version"} /\ Kept(t, {"step"})
           /\ LatestVersion(t) => tab'[t].step \in {"next", "close"} /\ Kept(t, {"step", "version"})
           /\ CloseEpoch(t) => tab'[t].step = "next" /\ Kept(t, {"step"})
           /\ Migrated(t) => tab'[t].step = "done" /\ Kept(t, {"step"})
           /\ SkipOld(t) => Kept(t, {"todo"})
           /\ Hang(t) => tab'[t].step = "hung" /\ Kept(t, {"step"})
           /\ Fail(t) => /\ tab'[t].step = "next" /\ tab'[t].failed = tab[t].failed \cup {tab[t].guid}
                         /\ Kept(t, {"step", "failed"})
<1>0. tab \in [Tab -> TabState]
  BY DEF TypeOK
<1>1. Working(t) => tab[t].guid \in Guid
  BY DEF MigrationIsExact
<1>2. ASSUME Discover(t) PROVE tab'[t].step = "next" /\ Kept(t, {"step", "todo"})
  <2>1. PICK names \in {Guid, {}} : tab' = [tab EXCEPT ![t].step = "next", ![t].todo = names]
    BY <1>2 DEF Discover
  <2>2. names \in SUBSET Guid /\ "next" \in Step
    BY DEF Step
  <2> QED BY <1>0, <2>1, <2>2, SetsTodo
<1>3. ASSUME NEW step \in Step, tab' = [tab EXCEPT ![t].step = step]
      PROVE  tab'[t].step = step /\ Kept(t, {"step"})
  BY <1>0, <1>3, SetsStep
<1>4. ASSUME CountExisting(t)
      PROVE  tab'[t].step = (IF UpToDate(t) THEN "next" ELSE "write") /\ Kept(t, {"step"})
  <2>1. (IF UpToDate(t) THEN "next" ELSE "write") \in Step
    BY DEF Step
  <2> QED BY <1>3, <1>4, <2>1 DEF CountExisting
<1>5. ASSUME WriteEdits(t) PROVE tab'[t].step \in {"next", "version"} /\ Kept(t, {"step"})
  BY <1>3, <1>5 DEF WriteEdits, Step
<1>6. ASSUME LatestVersion(t) PROVE tab'[t].step \in {"next", "close"} /\ Kept(t, {"step", "version"})
  <2>1. CASE versions = {}
    BY <1>3, <1>6, <2>1 DEF LatestVersion, Step, Kept
  <2>2. CASE versions # {}
    <3>1. PICK v \in versions : tab' = [tab EXCEPT ![t].step = "close", ![t].version = v]
      BY <1>6, <2>2 DEF LatestVersion
    <3>2. v \in Nat /\ "close" \in Step
      BY DEF TypeOK, Step
    <3> QED BY <1>0, <3>1, <3>2, SetsVersion
  <2> QED BY <2>1, <2>2
<1>7. ASSUME CloseEpoch(t) PROVE tab'[t].step = "next" /\ Kept(t, {"step"})
  BY <1>3, <1>7 DEF CloseEpoch, Step
<1>8. ASSUME Migrated(t) PROVE tab'[t].step = "done" /\ Kept(t, {"step"})
  BY <1>3, <1>8 DEF Migrated, Step
<1>9. ASSUME Fail(t)
      PROVE  tab'[t].step = "next" /\ tab'[t].failed = tab[t].failed \cup {tab[t].guid} /\ Kept(t, {"step", "failed"})
  <2> DEFINE T == tab[t].failed \cup {tab[t].guid}
  <2>1. T \in SUBSET Guid /\ "next" \in Step
    BY <1>1, <1>9, FieldTypes DEF Fail, Busy, Working, Step
  <2>2. tab' = [tab EXCEPT ![t].step = "next", ![t].failed = T]
    BY <1>9 DEF Fail
  <2> HIDE DEF T
  <2>3. tab'[t].step = "next" /\ tab'[t].failed = T /\ Kept(t, {"step", "failed"})
    BY <1>0, <2>1, <2>2, SetsFailed
  <2> QED BY <2>3 DEF T
<1>10. ASSUME SkipOld(t) PROVE Kept(t, {"todo"})
  <2>1. PICK g \in tab[t].todo : tab' = [tab EXCEPT ![t].todo = @ \ {g}]
    BY <1>10 DEF SkipOld
  <2> DEFINE T == tab[t].todo \ {g}
  <2>2. T \in SUBSET Guid
    BY FieldTypes
  <2>3. tab' = [tab EXCEPT ![t].todo = T]
    BY <2>1
  <2> HIDE DEF T
  <2> QED BY <1>0, <2>2, <2>3, SetsPassed
<1>11. ASSUME Hang(t) PROVE tab'[t].step = "hung" /\ Kept(t, {"step"})
  BY <1>3, <1>11 DEF Hang, Step
<1> QED BY <1>1, <1>2, <1>4, <1>5, <1>6, <1>7, <1>8, <1>9, <1>10, <1>11

\* And what a read of the next old database does.
LEMMA Reads ==
    ASSUME TypeOK, NEW t \in Tab, ReadOld(t)
    PROVE  \E g \in Guid : /\ tab'[t].step = "count" /\ tab'[t].guid = g
                           /\ tab'[t].read = [tab[t].read EXCEPT ![g] = old[g]]
                           /\ Kept(t, {"todo", "guid", "read", "step"})
<1>1. PICK g \in tab[t].todo : HasRead(t, g, old[g])
  BY DEF ReadOld, HasRead
<1>2. tab \in [Tab -> TabState] /\ g \in Guid /\ old[g] \in SUBSET Update
  BY FieldTypes DEF TypeOK
<1> QED BY <1>1, <1>2, SetsRead

\* The background migration changes the copies and epoch 0 too.
LEMMA BackgroundType ==
    ASSUME StoreAssumption, TypeOK, MigrationIsExact, NEW t \in Tab, faults' \in 0 .. MaxFaults,
           Background(t) \/ SkipOld(t) \/ Fail(t) \/ Hang(t)
    PROVE  TypeOK'
<1> USE DEF database, oldVars
<1>0. tab' \in [Tab -> TabState]
  BY Migrates, Reads DEF Background, Kept
<1>1. CASE Discover(t) \/ ReadOld(t) \/ SkipOld(t) \/ CountExisting(t) \/ LatestVersion(t) \/ Migrated(t)
          \/ Fail(t) \/ Hang(t)
  <2>1. UNCHANGED <<database, oldVars, opens>>
    BY <1>1 DEF Discover, ReadOld, SkipOld, CountExisting, LatestVersion, Migrated, Fail, Hang
  <2> QED BY <1>0, <2>1 DEF TypeOK
<1>2. CASE WriteEdits(t)
  <2>1. tab[t].guid \in Guid
    BY <1>2, Migrates DEF WriteEdits, Busy, Working
  <2>2. tab[t].read[tab[t].guid] \subseteq Update
    BY <2>1, FieldTypes
  <2>4. copies' \in [Guid -> SUBSET Update]
    BY <1>2, <2>1, <2>2 DEF WriteEdits, TypeOK
  <2> QED BY <1>0, <1>2, <2>4 DEF WriteEdits, TypeOK
<1>3. CASE CloseEpoch(t)
  <2>1. tab[t].version \in Nat
    BY FieldTypes
  <2> QED BY <1>0, <1>3, <2>1 DEF CloseEpoch, TypeOK
<1> QED BY <1>1, <1>2, <1>3 DEF Background

\* What the steps of the application do to the tab.
LEMMA Applies ==
    ASSUME StoreAssumption, TypeOK, OpenedIsCounted, NEW t \in Tab
    PROVE  /\ LoadIdentity(t) => IF seed # NoSeed THEN tab'[t].key = seed /\ Kept(t, {"key"})
                                                  ELSE Kept(t, {"saving"})
           /\ SaveIdentity(t) => /\ tab'[t].key = tab[t].saving /\ tab'[t].saving = NoSeed
                                 /\ Kept(t, {"key", "saving"})
           /\ \A g \in Guid : Replay(t, g) =>
                /\ tab'[t].replayed = tab[t].replayed \cup {g}
                /\ tab'[t].shown = tab[t].shown \cup ({g} \X copies[g])
                /\ Kept(t, {"replayed", "shown"})
           /\ \A g \in Guid : ReplayFails(t, g) =>
                /\ tab'[t].replayed = tab[t].replayed \cup {g}
                /\ tab'[t].unplayed = tab[t].unplayed \cup {g}
                /\ tab[t].shown \subseteq tab'[t].shown
                /\ Kept(t, {"replayed", "unplayed", "shown"})
           /\ IdentityFails(t) => /\ tab'[t].at = "keyless" /\ tab'[t].saving = NoSeed
                                  /\ Kept(t, {"at", "saving"})
<1>0. tab \in [Tab -> TabState] /\ NoSeed \in Seed \cup {NoSeed}
  BY DEF TypeOK
<1>1. ASSUME LoadIdentity(t)
      PROVE  IF seed # NoSeed THEN tab'[t].key = seed /\ Kept(t, {"key"}) ELSE Kept(t, {"saving"})
  <2>1. CASE seed # NoSeed
    <3>1. tab' = [tab EXCEPT ![t].key = seed] /\ seed \in Seed \cup {NoSeed}
      BY <1>1, <2>1 DEF LoadIdentity, TypeOK
    <3> QED BY <1>0, <2>1, <3>1, SetsKey
  <2>2. CASE seed = NoSeed
    <3>1. <<t, opens>> \in Seed \cup {NoSeed}
      BY <1>1 DEF LoadIdentity, OpenedIsCounted, TypeOK, Seed, StoreAssumption
    <3>2. tab' = [tab EXCEPT ![t].saving = <<t, opens>>]
      BY <1>1, <2>2 DEF LoadIdentity
    <3> QED BY <1>0, <2>2, <3>1, <3>2, SetsSaving
  <2> QED BY <2>1, <2>2
<1>2. ASSUME SaveIdentity(t)
      PROVE  tab'[t].key = tab[t].saving /\ tab'[t].saving = NoSeed /\ Kept(t, {"key", "saving"})
  <2>1. tab' = [tab EXCEPT ![t].key = tab[t].saving, ![t].saving = NoSeed]
    BY <1>2 DEF SaveIdentity
  <2>2. tab[t].saving \in Seed \cup {NoSeed}
    BY FieldTypes
  <2> QED BY <1>0, <2>1, <2>2, SetsSaved
<1>3. ASSUME NEW g \in Guid, Replay(t, g)
      PROVE  /\ tab'[t].replayed = tab[t].replayed \cup {g}
             /\ tab'[t].shown = tab[t].shown \cup ({g} \X copies[g])
             /\ Kept(t, {"replayed", "shown"})
  <2> DEFINE T == tab[t].replayed \cup {g}
             S == tab[t].shown \cup ({g} \X copies[g])
  <2>1. tab' = [tab EXCEPT ![t].replayed = T, ![t].shown = S]
    BY <1>3 DEF Replay
  <2>2. T \in SUBSET Guid
    BY FieldTypes
  <2>3. {g} \X copies[g] \subseteq Guid \X Update
    BY DEF TypeOK
  <2>4. S \in SUBSET (Guid \X Update)
    BY <2>3, FieldTypes
  <2> HIDE DEF T, S
  <2>5. tab'[t].replayed = T /\ tab'[t].shown = S /\ Kept(t, {"replayed", "shown"})
    BY <1>0, <2>1, <2>2, <2>4, SetsShown
  <2> QED BY <2>5 DEF T, S
<1>4. ASSUME NEW g \in Guid, ReplayFails(t, g)
      PROVE  /\ tab'[t].replayed = tab[t].replayed \cup {g}
             /\ tab'[t].unplayed = tab[t].unplayed \cup {g}
             /\ tab[t].shown \subseteq tab'[t].shown
             /\ Kept(t, {"replayed", "unplayed", "shown"})
  <2>1. PICK n \in 0 .. MaxUpdates :
          tab' = [tab EXCEPT ![t].replayed = @ \cup {g}, ![t].unplayed = @ \cup {g},
                             ![t].shown = @ \cup ({g} \X {i \in copies[g] : i <= n})]
    BY <1>4 DEF ReplayFails
  <2> DEFINE T == tab[t].replayed \cup {g}
             U == tab[t].unplayed \cup {g}
             S == tab[t].shown \cup ({g} \X {i \in copies[g] : i <= n})
  <2>2. tab' = [tab EXCEPT ![t].replayed = T, ![t].unplayed = U, ![t].shown = S]
    BY <2>1
  <2>3. T \in SUBSET Guid /\ U \in SUBSET Guid
    BY FieldTypes
  <2>4. {g} \X {i \in copies[g] : i <= n} \subseteq Guid \X Update
    BY DEF TypeOK
  <2>5. S \in SUBSET (Guid \X Update)
    BY <2>4, FieldTypes
  <2>6. tab[t].shown \subseteq S
    OBVIOUS
  <2> HIDE DEF T, U, S
  <2>7. /\ tab'[t].replayed = T /\ tab'[t].unplayed = U /\ tab'[t].shown = S
        /\ Kept(t, {"replayed", "unplayed", "shown"})
    BY <1>0, <2>2, <2>3, <2>5, SetsUnplayed
  <2> QED BY <2>6, <2>7 DEF T, U
<1>5. ASSUME IdentityFails(t)
      PROVE  tab'[t].at = "keyless" /\ tab'[t].saving = NoSeed /\ Kept(t, {"at", "saving"})
  <2>1. "keyless" \in Start
    BY DEF Start
  <2>2. tab' = [tab EXCEPT ![t].at = "keyless", ![t].saving = NoSeed]
    BY <1>5 DEF IdentityFails
  <2> QED BY <1>0, <2>1, <2>2, SetsKeyless
<1> QED BY <1>1, <1>2, <1>3, <1>4, <1>5

\* The application changes the seed and the versions too.
LEMMA ApplicationType ==
    ASSUME StoreAssumption, TypeOK, OpenedIsCounted, NEW t \in Tab, faults' \in 0 .. MaxFaults,
           \/ Application(t) \/ PersistSnapshot(t) \/ IdentityFails(t)
           \/ \E g \in Guid : ReplayFails(t, g)
    PROVE  TypeOK'
<1> USE DEF database, oldVars
<1>1. CASE LoadIdentity(t)
  <2>1. tab' \in [Tab -> TabState]
    BY <1>1, Applies DEF Kept
  <2> QED BY <1>1, <2>1 DEF LoadIdentity, TypeOK
<1>2. CASE SaveIdentity(t)
  <2>1. tab' \in [Tab -> TabState] /\ tab[t].saving \in Seed \cup {NoSeed}
    BY <1>2, Applies, FieldTypes DEF Kept
  <2> QED BY <1>2, <2>1 DEF SaveIdentity, TypeOK
<1>3. ASSUME NEW g \in Guid, Replay(t, g) \/ ReplayFails(t, g) PROVE TypeOK'
  <2>1. tab' \in [Tab -> TabState]
    BY <1>3, Applies DEF Kept
  <2> QED BY <1>3, <2>1 DEF Replay, ReplayFails, TypeOK
<1>5. CASE IdentityFails(t)
  <2>1. tab' \in [Tab -> TabState]
    BY <1>5, Applies DEF Kept
  <2> QED BY <1>5, <2>1 DEF IdentityFails, TypeOK
<1>4. CASE PersistSnapshot(t)
  <2>1. Cardinality(OldVersions) + 1 \in Nat
    BY FS_CardinalityType DEF StoreAssumption
  <2> QED BY <1>4, <2>1 DEF PersistSnapshot, TypeOK
<1> QED BY <1>1, <1>2, <1>3, <1>4, <1>5 DEF Application

\* The environment changes the old databases and which tabs there are.
LEMMA EnvironmentType ==
    ASSUME StoreAssumption, TypeOK, faults' \in 0 .. MaxFaults,
           OldTabCloses \/ (\E g \in Guid : OldTabWrites(g) \/ OldTabTrims(g)) \/ (\E t \in Tab : CloseTab(t))
    PROVE  TypeOK'
<1> USE DEF database, oldVars
<1>1. CASE OldTabCloses
  BY <1>1 DEF OldTabCloses, TypeOK
<1>2. ASSUME NEW g \in Guid, OldTabWrites(g) \/ OldTabTrims(g) PROVE TypeOK'
  <2>1. old' \in [Guid -> SUBSET Update]
    BY <1>2 DEF OldTabWrites, OldTabTrims, TypeOK
  <2>2. trimmed' \subseteq Guid
    BY <1>2 DEF OldTabWrites, OldTabTrims, TypeOK
  <2> QED BY <1>2, <2>1, <2>2 DEF OldTabWrites, OldTabTrims, TypeOK
<1>3. ASSUME NEW t \in Tab, CloseTab(t) PROVE TypeOK'
  <2>1. tab' \in [Tab -> TabState]
    BY <1>3, ClosedType DEF CloseTab, TypeOK
  <2> QED BY <1>3, <2>1 DEF CloseTab, TypeOK
<1> QED BY <1>1, <1>2, <1>3

\* The types are kept by every step.
LEMMA TypeStep ==
    ASSUME StoreAssumption, TypeOK, OpenedIsCounted, MigrationIsExact, [Next]_vars
    PROVE  TypeOK'
<1>1. CASE UNCHANGED vars
  BY <1>1 DEF vars, store, database, oldVars, TypeOK
<1>2. CASE Works /\ UNCHANGED faults
  <2>1. faults' \in 0 .. MaxFaults
    BY <1>2 DEF TypeOK
  <2> QED
    BY <1>2, <2>1, StartType, BackgroundType, ApplicationType, EnvironmentType DEF Works
<1>3. ASSUME NEW t \in Tab, Fault(t) PROVE TypeOK'
  <2>1. faults' \in 0 .. MaxFaults
    BY <1>3 DEF Fault, TypeOK, StoreAssumption
  <2> QED
    BY <1>3, <2>1, StartType, BackgroundType, ApplicationType DEF Fault
<1> QED BY <1>1, <1>2, <1>3 DEF Next

-----------------------------------------------------------------------------
\* A tab that does anything was opened.

LEMMA OpenedStep ==
    ASSUME StoreAssumption, TypeOK, OpenedIsCounted, MigrationIsExact, [Next]_vars
    PROVE  OpenedIsCounted'
<1>0. opens \in Nat /\ \A t \in Tab : tab[t].at # "closed" => opens > 0
  BY DEF TypeOK, OpenedIsCounted, StoreAssumption
<1>1. CASE UNCHANGED <<tab, opens>>
  BY <1>0, <1>1 DEF OpenedIsCounted
<1>2. ASSUME NEW t \in Tab, OpenTab(t) PROVE OpenedIsCounted'
  BY <1>0, <1>2 DEF OpenTab, OpenedIsCounted
<1>3. ASSUME NEW t \in Tab, UNCHANGED opens, Kept(t, {"at"}), tab[t].at # "closed" PROVE OpenedIsCounted'
  BY <1>0, <1>3 DEF OpenedIsCounted, Kept
<1>4. ASSUME NEW t \in Tab,
             OpenDb(t) \/ StartFails(t) \/ SkipIdentity(t) \/ SkipDocCache(t) \/ MigrateSmall(t)
      PROVE  OpenedIsCounted'
  <2>1. UNCHANGED opens
    BY <1>4 DEF OpenDb, StartFails, MigrateSmall, Created, CheckFlag, Mark,
                CopyIdentity, SkipIdentity, CopyDocCache, SkipDocCache
  <2>2. tab[t].at # "closed"
    BY <1>4 DEF OpenDb, StartFails, MigrateSmall, Created, CheckFlag, Mark,
                CopyIdentity, SkipIdentity, CopyDocCache, SkipDocCache
  <2>3. Kept(t, {"at"})
    BY <1>4, Starts
  <2> QED BY <1>3, <2>1, <2>2, <2>3
<1>5. ASSUME NEW t \in Tab, UNCHANGED opens, NEW S, Kept(t, S), "at" \notin S PROVE OpenedIsCounted'
  <2>1. \A u \in Tab : tab'[u].at = tab[u].at
    BY <1>5 DEF Kept, Fields
  <2> QED BY <1>0, <1>5, <2>1 DEF OpenedIsCounted
<1>6. ASSUME NEW t \in Tab, Background(t) \/ SkipOld(t) \/ Fail(t) \/ Hang(t) PROVE OpenedIsCounted'
  <2>1. UNCHANGED opens
    BY <1>6 DEF Background, Fail, Hang, Discover, ReadOld, SkipOld, CountExisting, WriteEdits, LatestVersion, CloseEpoch, Migrated
  <2> QED BY <1>5, <1>6, <2>1, Migrates, Reads DEF Background
<1>9. ASSUME NEW t \in Tab, IdentityFails(t) PROVE OpenedIsCounted'
  <2>1. tab[t].at # "closed" /\ UNCHANGED opens
    BY <1>9 DEF IdentityFails
  <2>2. \A u \in Tab \ {t} : tab'[u] = tab[u]
    BY <1>9, Applies DEF Kept
  <2> QED BY <1>0, <2>1, <2>2 DEF OpenedIsCounted
<1>7. ASSUME NEW t \in Tab, Application(t) \/ \E g \in Guid : ReplayFails(t, g) PROVE OpenedIsCounted'
  <2>1. UNCHANGED opens
    BY <1>7 DEF Application, LoadIdentity, SaveIdentity, Replay, ReplayFails
  <2> QED BY <1>5, <1>7, <2>1, Applies DEF Application
<1>8. ASSUME NEW t \in Tab, CloseTab(t) PROVE OpenedIsCounted'
  <2>1. \A u \in Tab : tab'[u].at # "closed" => tab[u].at # "closed"
    BY <1>8 DEF CloseTab, TypeOK
  <2> QED BY <1>0, <1>8, <2>1 DEF CloseTab, OpenedIsCounted
<1> QED
  BY <1>1, <1>2, <1>4, <1>6, <1>7, <1>8, <1>9
     DEF Next, Works, Fault, OldTabCloses, OldTabWrites, OldTabTrims, PersistSnapshot, vars, store

-----------------------------------------------------------------------------
\* What the steps leave alone.

\* The old seed stays, what could not be read is known, and only the old release
\* and the copying of edits change the old databases and their copies.
LEMMA Frame ==
    ASSUME [Next]_vars
    PROVE  /\ before' = before /\ (unread => unread')
           /\ \/ UNCHANGED <<copies, old, trimmed>>
              \/ \E g \in Guid : OldTabWrites(g) \/ OldTabTrims(g)
              \/ \E t \in Tab : WriteEdits(t)
<1> USE DEF database, oldVars
<1>1. CASE OldTabCloses \/ UNCHANGED vars
  BY <1>1 DEF OldTabCloses, vars, store
<1>2. ASSUME NEW g \in Guid, OldTabWrites(g) \/ OldTabTrims(g) PROVE UNCHANGED <<before, unread>>
  BY <1>2 DEF OldTabWrites, OldTabTrims
<1>3. ASSUME NEW t \in Tab, OpenTab(t) \/ CloseTab(t) \/ OpenDb(t)
      PROVE  UNCHANGED <<before, unread, copies, old, trimmed>>
  BY <1>3 DEF OpenTab, CloseTab, OpenDb
<1>4. ASSUME NEW t \in Tab, MigrateSmall(t)
      PROVE  UNCHANGED <<before, unread, copies, old, trimmed>>
  <2>1. CASE CopyIdentity(t) \/ CopyDocCache(t)
    BY <2>1 DEF CopyIdentity, CopyDocCache
  <2>2. ASSUME NEW m, NEW here, NEW copy, NEW next, CheckFlag(t, m, here, copy, next) \/ Mark(t, m, here, next)
        PROVE  UNCHANGED <<before, unread, copies, old, trimmed>>
    BY <2>2 DEF CheckFlag, Mark
  <2> QED BY <1>4, <2>1, <2>2 DEF MigrateSmall, Created
<1>5. ASSUME NEW t \in Tab, WriteEdits(t) PROVE UNCHANGED <<before, unread>>
  BY <1>5 DEF WriteEdits
<1>6. ASSUME NEW t \in Tab, Background(t), ~WriteEdits(t)
      PROVE  UNCHANGED <<before, unread, copies, old, trimmed>>
  <2>1. CASE Discover(t) \/ ReadOld(t) \/ CountExisting(t)
    BY <2>1 DEF Discover, ReadOld, CountExisting
  <2>2. CASE LatestVersion(t) \/ CloseEpoch(t) \/ Migrated(t)
    BY <2>2 DEF LatestVersion, CloseEpoch, Migrated
  <2> QED BY <1>6, <2>1, <2>2 DEF Background
<1>7. ASSUME NEW t \in Tab, Application(t) \/ PersistSnapshot(t)
      PROVE  UNCHANGED <<before, unread, copies, old, trimmed>>
  BY <1>7 DEF Application, LoadIdentity, SaveIdentity, Replay, PersistSnapshot
<1>8. ASSUME NEW t \in Tab, Fault(t)
      PROVE  (unread => unread') /\ UNCHANGED <<before, copies, old, trimmed>>
  <2>1. CASE SkipIdentity(t)
    <3>1. unread' = TRUE /\ UNCHANGED <<before, copies, old, trimmed>>
      BY <2>1 DEF SkipIdentity
    <3> QED BY <3>1
  <2>2. CASE ~SkipIdentity(t)
    <3>1. UNCHANGED <<before, unread, copies, old, trimmed>>
      BY <1>8, <2>2 DEF Fault, StartFails, SkipDocCache, SkipOld, Fail, Hang, IdentityFails, ReplayFails
    <3> QED BY <3>1
  <2> QED BY <2>1, <2>2
<1> QED BY <1>1, <1>2, <1>3, <1>4, <1>5, <1>6, <1>7, <1>8 DEF Next, Works

-----------------------------------------------------------------------------
\* The identity.

LEMMA SeedStep ==
    ASSUME StoreAssumption, TypeOK, OpenedIsCounted, SeedIsCopied, MigrationIsExact, [Next]_vars
    PROVE  SeedIsCopied'
<1>0. before' = before /\ (unread => unread')
  BY Frame
<1> SUFFICES ASSUME before # NoSeed, ~unread, ~unread' PROVE SeedIsCopied'
  BY <1>0 DEF SeedIsCopied
<1>1. /\ seed \in {before, NoSeed}
      /\ "identity" \in flags => seed = before
      /\ \A t \in Tab : /\ PastIdentity(t) => seed = before
                        /\ tab[t].key \in {before, NoSeed}
                        /\ tab[t].saving = NoSeed
  BY DEF SeedIsCopied
\* A step is harmless if it changes neither what is known of the seed nor where a tab stands.
<1>2. ASSUME UNCHANGED <<seed, flags>>,
             \A u \in Tab : /\ PastIdentity(u)' => PastIdentity(u) \/ seed = before
                            /\ tab'[u].key \in {tab[u].key, seed, NoSeed}
                            /\ tab'[u].saving \in {tab[u].saving, NoSeed}
      PROVE  SeedIsCopied'
  BY <1>0, <1>1, <1>2 DEF SeedIsCopied
<1>3. ASSUME NEW t \in Tab, UNCHANGED <<seed, flags>>, NEW S, Kept(t, S), "key" \notin S, "saving" \notin S,
             "at" \in S => (PastIdentity(t)' => PastIdentity(t) \/ seed = before)
      PROVE  SeedIsCopied'
  <2>1. \A u \in Tab : tab'[u].key = tab[u].key /\ tab'[u].saving = tab[u].saving
    BY <1>3 DEF Kept, Fields
  <2>2. \A u \in Tab : PastIdentity(u)' => PastIdentity(u) \/ seed = before
    BY <1>3 DEF Kept, Fields, PastIdentity
  <2> QED BY <1>2, <1>3, <2>1, <2>2
<1>4. ASSUME NEW t \in Tab, Kept(t, {"at"}), seed' = before, flags \subseteq flags'
      PROVE  SeedIsCopied'
  <2>1. \A u \in Tab : tab'[u].key = tab[u].key /\ tab'[u].saving = tab[u].saving
    BY <1>4 DEF Kept, Fields
  <2> QED BY <1>0, <1>1, <1>4, <2>1 DEF SeedIsCopied
<1> USE DEF database, oldVars
<1>5. CASE UNCHANGED <<seed, flags, tab>>
  BY <1>2, <1>5 DEF PastIdentity
<1>6. ASSUME NEW t \in Tab, OpenTab(t) \/ OpenDb(t) \/ StartFails(t) PROVE SeedIsCopied'
  <2>1. ~PastIdentity(t)' \/ PastIdentity(t)
    BY <1>6, Positions DEF PastIdentity
  <2>2. UNCHANGED <<seed, flags>>
    BY <1>6 DEF OpenTab, OpenDb, StartFails
  <2>3. Kept(t, {"at"})
    BY <1>6, Starts
  <2> QED BY <1>3, <2>1, <2>2, <2>3
<1>7. ASSUME NEW t \in Tab, CloseTab(t) PROVE SeedIsCopied'
  <2>1. \A u \in Tab : tab'[u] = tab[u] \/ tab'[u] = Closed
    BY <1>7 DEF CloseTab, TypeOK
  <2>2. Closed.at = "closed" /\ Closed.key = NoSeed /\ Closed.saving = NoSeed
    BY DEF Closed
  <2> QED BY <1>2, <1>7, <2>1, <2>2 DEF CloseTab, PastIdentity
<1>8. ASSUME NEW t \in Tab, MigrateSmall(t) \/ SkipIdentity(t) \/ SkipDocCache(t) PROVE SeedIsCopied'
  <2>1. Kept(t, {"at"})
    BY <1>8, Starts
  <2>2. CASE CheckFlag(t, "identity", "flag identity", "copy identity", "flag doc-cache")
    <3>a. "flag doc-cache" \in Start /\ "copy identity" \in Start
      BY DEF Start
    <3>b. \A m, here : \A copy \in Start, next \in Start :
            CheckFlag(t, m, here, copy, next) => tab'[t].at = IF m \in flags THEN next ELSE copy
      BY Positions
    <3>0. tab'[t].at = IF "identity" \in flags THEN "flag doc-cache" ELSE "copy identity"
      BY <2>2, <3>a, <3>b
    <3>1. PastIdentity(t)' => seed = before
      BY <1>1, <3>0 DEF PastIdentity
    <3>2. UNCHANGED <<seed, flags>>
      BY <2>2 DEF CheckFlag
    <3> QED BY <1>3, <2>1, <3>1, <3>2
  <2>3. CASE CopyIdentity(t)
    <3>1. seed' = before /\ flags' = flags
      BY <1>1, <2>3 DEF CopyIdentity
    <3> QED BY <1>4, <2>1, <3>1
  <2>4. CASE Mark(t, "identity", "mark identity", "flag doc-cache")
    <3>1. seed' = before
      BY <1>1, <2>4 DEF Mark, PastIdentity
    <3> QED BY <1>4, <2>1, <2>4, <3>1 DEF Mark
  <2>6. CASE SkipIdentity(t)
    BY <2>6 DEF SkipIdentity
  <2>5. CASE CopyDocCache(t) \/ SkipDocCache(t) \/ Created(t)
    <3>1. seed' = before /\ flags \subseteq flags'
      BY <1>1, <2>5 DEF CopyDocCache, SkipDocCache, Created, CheckFlag, Mark, PastIdentity
    <3> QED BY <1>4, <2>1, <3>1
  <2> QED BY <1>8, <2>2, <2>3, <2>4, <2>5, <2>6 DEF MigrateSmall
<1>9. ASSUME NEW t \in Tab, Background(t) \/ SkipOld(t) \/ Fail(t) \/ Hang(t) PROVE SeedIsCopied'
  <2>1. UNCHANGED <<seed, flags>>
    BY <1>9 DEF Background, Fail, Hang, Discover, ReadOld, SkipOld, CountExisting, WriteEdits, LatestVersion, CloseEpoch, Migrated
  <2> QED BY <1>3, <1>9, <2>1, Migrates, Reads DEF Background
<1>10. ASSUME NEW t \in Tab, LoadIdentity(t) PROVE SeedIsCopied'
  <2>1. seed = before
    BY <1>1, <1>10 DEF LoadIdentity, PastIdentity
  <2>2. tab'[t].key = seed /\ Kept(t, {"key"})
    BY <1>10, <2>1, Applies
  <2>3. \A u \in Tab : tab'[u].key \in {tab[u].key, seed} /\ tab'[u].saving = tab[u].saving
    BY <2>2 DEF Kept, Fields
  <2> QED BY <1>2, <1>10, <2>1, <2>3 DEF LoadIdentity
<1>11. ASSUME NEW t \in Tab, SaveIdentity(t) PROVE FALSE
  BY <1>1, <1>11 DEF SaveIdentity
<1>12. ASSUME NEW t \in Tab, NEW g \in Guid, Replay(t, g) \/ ReplayFails(t, g) PROVE SeedIsCopied'
  <2>1. UNCHANGED <<seed, flags>>
    BY <1>12 DEF Replay, ReplayFails
  <2> QED BY <1>3, <1>12, <2>1, Applies
<1>13. ASSUME NEW t \in Tab, IdentityFails(t) PROVE SeedIsCopied'
  <2>1. tab'[t].at = "keyless" /\ tab'[t].saving = NoSeed /\ Kept(t, {"at", "saving"})
    BY <1>13, Applies
  <2>2. \A u \in Tab : tab'[u].key = tab[u].key /\ tab'[u].saving \in {tab[u].saving, NoSeed}
    BY <2>1 DEF Kept, Fields
  <2>3. \A u \in Tab : PastIdentity(u)' => PastIdentity(u)
    BY <2>1 DEF Kept, PastIdentity
  <2>4. UNCHANGED <<seed, flags>>
    BY <1>13 DEF IdentityFails
  <2> QED BY <1>2, <2>2, <2>3, <2>4
<1> QED
  BY <1>5, <1>6, <1>7, <1>8, <1>9, <1>10, <1>11, <1>12, <1>13
     DEF Next, Works, Fault, Application, OldTabCloses, OldTabWrites, OldTabTrims, PersistSnapshot, vars, store

-----------------------------------------------------------------------------
\* The edits.

\* The copies of an old database are counted right, and completed without gaps.
LEMMA CountOfPrefix ==
    ASSUME NEW k \in Nat
    PROVE  Cardinality(1 .. k) = k
BY FS_Interval

\* So are two of them told apart.
LEMMA EqualCounts ==
    ASSUME NEW S, NEW T, Initial(S), Initial(T), Cardinality(S) = Cardinality(T)
    PROVE  S = T
<1>1. PICK k \in Nat : S = 1 .. k
  BY DEF Initial
<1>2. PICK n \in Nat : T = 1 .. n
  BY DEF Initial
<1>3. k = n
  BY <1>1, <1>2, CountOfPrefix
<1> QED BY <1>1, <1>2, <1>3

LEMMA UnionOfInitial ==
    ASSUME NEW S, NEW T, Initial(S), Initial(T)
    PROVE  Initial(S \cup T)
<1>1. PICK k \in Nat : S = 1 .. k
  BY DEF Initial
<1>2. PICK n \in Nat : T = 1 .. n
  BY DEF Initial
<1>3. S \cup T = 1 .. (IF k < n THEN n ELSE k)
  BY <1>1, <1>2
<1> QED BY <1>3 DEF Initial

LEMMA NextOfInitial ==
    ASSUME NEW S, Initial(S), NEW k \in Nat, k - 1 \in S, \A i \in S : i < k
    PROVE  Initial(S \cup {k})
<1>1. PICK n \in Nat : S = 1 .. n
  BY DEF Initial
<1>2. k - 1 \in 1 .. n
  BY <1>1
<1>3. n \in 1 .. n
  BY <1>2
<1>4. k = n + 1
  BY <1>1, <1>2, <1>3
<1>5. S \cup {k} = 1 .. (n + 1)
  BY <1>1, <1>4
<1> QED BY <1>5 DEF Initial

LEMMA CopiesStep ==
    ASSUME StoreAssumption, TypeOK, CopiesArePrefixes, MigrationIsExact, [Next]_vars
    PROVE  /\ CopiesArePrefixes'
           /\ trimmed \subseteq trimmed'
           /\ \A g \in Guid : copies[g] \subseteq copies'[g]
<1> USE DEF database, oldVars
<1>1. CASE UNCHANGED <<copies, old, trimmed>>
  BY <1>1 DEF CopiesArePrefixes
<1>2. ASSUME NEW g \in Guid, OldTabWrites(g)
      PROVE  /\ CopiesArePrefixes' /\ trimmed \subseteq trimmed'
             /\ \A h \in Guid : copies[h] \subseteq copies'[h]
  <2>1. PICK k \in Update : NextKey(g, k) /\ old' = [old EXCEPT ![g] = @ \cup {k}]
    BY <1>2 DEF OldTabWrites
  <2>2. old'[g] = old[g] \cup {k} /\ \A h \in Guid \ {g} : old'[h] = old[h]
    BY <2>1 DEF TypeOK
  <2>3. UNCHANGED <<copies, trimmed>>
    BY <1>2 DEF OldTabWrites
  <2>4. k \in Nat
    BY DEF Update, StoreAssumption
  <2>5. Initial(old[g]) => Initial(old'[g])
    BY <2>1, <2>2, <2>4, NextOfInitial DEF NextKey
  <2>6. ASSUME NEW h \in Guid \ trimmed PROVE Initial(old'[h]) /\ Initial(copies[h])
    BY <2>2, <2>5 DEF CopiesArePrefixes
  <2> QED BY <2>3, <2>6 DEF CopiesArePrefixes
<1>3. ASSUME NEW g \in Guid, OldTabTrims(g)
      PROVE  /\ CopiesArePrefixes' /\ trimmed \subseteq trimmed'
             /\ \A h \in Guid : copies[h] \subseteq copies'[h]
  <2>1. trimmed' = trimmed \cup {g} /\ copies' = copies
    BY <1>3 DEF OldTabTrims
  <2>2. \A h \in Guid \ {g} : old'[h] = old[h]
    BY <1>3 DEF OldTabTrims, TypeOK
  <2> QED BY <2>1, <2>2 DEF CopiesArePrefixes
<1>4. ASSUME NEW t \in Tab, WriteEdits(t)
      PROVE  /\ CopiesArePrefixes' /\ trimmed \subseteq trimmed'
             /\ \A h \in Guid : copies[h] \subseteq copies'[h]
  <2> DEFINE g == tab[t].guid
             n == tab[t].read[g]
  <2>1. g \in Guid
    BY <1>4, Migrates DEF WriteEdits, Busy, Working
  <2>2. copies'[g] = copies[g] \cup n /\ \A h \in Guid \ {g} : copies'[h] = copies[h]
    BY <1>4, <2>1 DEF WriteEdits, TypeOK
  <2>3. UNCHANGED <<old, trimmed>>
    BY <1>4 DEF WriteEdits
  <2>4. g \notin trimmed => Initial(n)
    BY <2>1 DEF MigrationIsExact
  <2> HIDE DEF g, n
  <2>5. g \notin trimmed => Initial(copies'[g])
    BY <2>1, <2>2, <2>4, UnionOfInitial DEF CopiesArePrefixes
  <2>6. ASSUME NEW h \in Guid \ trimmed PROVE Initial(old[h]) /\ Initial(copies'[h])
    BY <2>2, <2>5 DEF CopiesArePrefixes
  <2>7. \A h \in Guid : copies[h] \subseteq copies'[h]
    BY <2>1, <2>2
  <2> QED BY <2>3, <2>6, <2>7 DEF CopiesArePrefixes
<1> QED BY <1>1, <1>2, <1>3, <1>4, Frame

\* What MigrationIsExact says of one tab.
Exact(t) ==
    /\ Working(t) => tab[t].guid \in Guid
    /\ tab[t].replayed # {} => tab[t].step = "done"
    /\ \A g \in Guid \ trimmed :
        /\ Initial(tab[t].read[g])
        /\ g \in tab[t].failed \/ tab[t].step = "hung" \/ Pending(t, g)
             \/ tab[t].read[g] \subseteq copies[g]
        /\ g \in tab[t].failed \/ g \in tab[t].unplayed \/ g \notin tab[t].replayed
             \/ {g} \X tab[t].read[g] \subseteq tab[t].shown

LEMMA EmptyIsInitial == Initial({})
<1>1. {} = 1 .. 0 /\ 0 \in Nat
  OBVIOUS
<1> QED BY <1>1 DEF Initial

\* A new tab has read nothing.
LEMMA ClosedIsExact ==
    ASSUME NEW t \in Tab, tab[t] = Closed
    PROVE  Exact(t)
<1>1. /\ tab[t].step = "idle" /\ tab[t].replayed = {}
      /\ \A g \in Guid : tab[t].read[g] = {}
  BY DEF Closed
<1> QED BY <1>1, EmptyIsInitial DEF Exact, Working

\* A step that leaves what a tab read, replayed and failed alone keeps it exact,
\* unless it takes the tab further.
LEMMA ExactKept ==
    ASSUME NEW t \in Tab, Exact(t), trimmed \subseteq trimmed',
           \A g \in Guid : copies[g] \subseteq copies'[g],
           \A f \in {"guid", "read", "failed", "replayed", "unplayed", "shown"} : tab'[t][f] = tab[t][f],
           \/ tab'[t].step = tab[t].step
           \/ /\ tab[t].step \notin {"done", "hung"}
              /\ \/ ~Working(t)'
                 \/ Working(t)
              /\ \A g \in Guid \ trimmed : Pending(t, g) =>
                    Pending(t, g)' \/ tab'[t].step = "hung" \/ tab[t].read[g] \subseteq copies'[g]
    PROVE  Exact(t)'
<1>1. /\ tab'[t].guid = tab[t].guid /\ tab'[t].read = tab[t].read /\ tab'[t].failed = tab[t].failed
      /\ tab'[t].replayed = tab[t].replayed /\ tab'[t].unplayed = tab[t].unplayed
      /\ tab'[t].shown = tab[t].shown
  OBVIOUS
<1>3. CASE tab'[t].step = tab[t].step
  BY <1>1, <1>3 DEF Exact, Working, Pending
<1>4. CASE tab'[t].step # tab[t].step
  <2>1. tab[t].replayed = {}
    BY <1>4 DEF Exact
  <2>2. Working(t)' => tab'[t].guid \in Guid
    BY <1>1, <1>4 DEF Exact
  <2>3. \A g \in Guid \ trimmed' : Initial(tab'[t].read[g])
    BY <1>1 DEF Exact
  <2>4. \A g \in Guid \ trimmed' :
          g \in tab'[t].failed \/ tab'[t].step = "hung" \/ Pending(t, g)' \/ tab'[t].read[g] \subseteq copies'[g]
    BY <1>1, <1>4 DEF Exact
  <2> QED BY <1>1, <2>1, <2>2, <2>3, <2>4 DEF Exact
<1> QED BY <1>3, <1>4

LEMMA ExactStep ==
    ASSUME StoreAssumption, IInv, [Next]_vars, TypeOK'
    PROVE  MigrationIsExact'
<1> USE DEF IInv
<1>0. /\ \A t \in Tab : Exact(t)
      /\ trimmed \subseteq trimmed'
      /\ \A g \in Guid : copies[g] \subseteq copies'[g]
  BY CopiesStep DEF MigrationIsExact, Exact
<1> SUFFICES ASSUME NEW u \in Tab PROVE Exact(u)'
  BY DEF MigrationIsExact, Exact
<1>1. CASE tab'[u] = tab[u]
  BY <1>0, <1>1, ExactKept
<1>2. ASSUME NEW t \in Tab, NEW S, Kept(t, S),
             S \cap {"step", "guid", "read", "failed", "replayed", "unplayed", "shown"} = {}
      PROVE  Exact(u)'
  <2>1. \A f \in {"step", "guid", "read", "failed", "replayed", "unplayed", "shown"} : tab'[u][f] = tab[u][f]
    BY <1>2 DEF Kept, Fields
  <2> QED BY <1>0, <2>1, ExactKept
<1>3. ASSUME NEW t \in Tab,
             OpenTab(t) \/ OpenDb(t) \/ StartFails(t) \/ SkipIdentity(t) \/ SkipDocCache(t) \/ MigrateSmall(t)
      PROVE  Exact(u)'
  <2>1. Kept(t, {"at"})
    BY <1>3, Starts
  <2> QED BY <1>2, <2>1
<1>4. ASSUME NEW t \in Tab, CloseTab(t) PROVE Exact(u)'
  <2>1. tab'[u] = tab[u] \/ tab'[u] = Closed
    BY <1>4 DEF CloseTab, TypeOK
  <2>2. ASSUME tab'[u] = Closed PROVE Exact(u)'
    <3>1. /\ tab'[u].step = "idle" /\ tab'[u].replayed = {}
          /\ \A g \in Guid : tab'[u].read[g] = {}
      BY <2>2 DEF Closed
    <3> QED BY <3>1, EmptyIsInitial DEF Exact, Working
  <2> QED BY <1>1, <2>1, <2>2
\* A step of the background migration that takes tab t to another step.
<1>5. ASSUME NEW t \in Tab, NEW S \in SUBSET {"step", "todo", "version"}, Kept(t, S),
             tab[t].step \notin {"done", "hung"},
             Working(t)' => Working(t),
             \A g \in Guid \ trimmed : Pending(t, g) =>
                 Pending(t, g)' \/ tab'[t].step = "hung" \/ tab[t].read[g] \subseteq copies'[g]
      PROVE  Exact(u)'
  <2>1. CASE u = t
    <3>1. \A f \in {"guid", "read", "failed", "replayed", "unplayed", "shown"} : tab'[t][f] = tab[t][f]
      BY <1>5 DEF Kept, Fields
    <3> QED BY <1>0, <1>5, <2>1, <3>1, ExactKept
  <2> QED BY <1>1, <1>5, <2>1 DEF Kept
<1>6. ASSUME NEW t \in Tab, Discover(t) \/ SkipOld(t) \/ LatestVersion(t) \/ CloseEpoch(t) \/ Migrated(t)
      PROVE  Exact(u)'
  <2>1. tab[t].step \in {"idle", "version", "close", "next"} /\ \A g \in Guid : ~Pending(t, g)
    BY <1>6 DEF Discover, SkipOld, LatestVersion, CloseEpoch, Migrated, Busy, Pending
  <2>2. CASE SkipOld(t)
    BY <1>2, <2>2, Migrates
  <2>3. CASE ~SkipOld(t)
    <3>1. Working(t)' => Working(t)
      BY <1>6, <2>3, Migrates DEF Discover, LatestVersion, CloseEpoch, Migrated, Busy, Working
    <3>2. \E S \in SUBSET {"step", "todo", "version"} : Kept(t, S)
      BY <1>6, <2>3, Migrates
    <3> QED BY <1>5, <2>1, <3>1, <3>2
  <2> QED BY <2>2, <2>3
<1>7. ASSUME NEW t \in Tab, ReadOld(t) PROVE Exact(u)'
  <2>1. PICK g \in Guid : /\ tab'[t].step = "count" /\ tab'[t].guid = g
                          /\ tab'[t].read = [tab[t].read EXCEPT ![g] = old[g]]
                          /\ Kept(t, {"todo", "guid", "read", "step"})
    BY <1>7, Reads
  <2>2. CASE u = t
    <3>1. tab[t].step = "next" /\ tab[t].replayed = {}
      BY <1>0, <1>7 DEF ReadOld, Busy, Exact
    <3>2. tab'[t].replayed = {} /\ tab'[t].failed = tab[t].failed
      BY <2>1, <3>1 DEF Kept, Fields
    <3>3. \A h \in Guid : tab'[t].read[h] = IF h = g THEN old[g] ELSE tab[t].read[h]
      BY <2>1, FieldTypes
    <3>4. \A h \in Guid \ trimmed : Initial(old[h])
      BY DEF CopiesArePrefixes
    <3>5. \A h \in Guid \ trimmed' : Initial(tab'[t].read[h])
      BY <1>0, <3>3, <3>4 DEF Exact
    <3>6. \A h \in Guid \ trimmed' :
            h \in tab'[t].failed \/ Pending(t, h)' \/ tab'[t].read[h] \subseteq copies'[h]
      BY <1>0, <2>1, <3>1, <3>2, <3>3 DEF Exact, Pending
    <3> QED BY <2>1, <2>2, <3>2, <3>5, <3>6 DEF Exact, Working
  <2> QED BY <1>1, <2>1, <2>2 DEF Kept
<1>8. ASSUME NEW t \in Tab, CountExisting(t) PROVE Exact(u)'
  <2> DEFINE g == tab[t].guid
  <2>1. tab[t].step = "count" /\ Working(t) /\ g \in Guid
    BY <1>8, Migrates DEF CountExisting, Busy, Working
  <2>2. tab'[t].step = (IF UpToDate(t) THEN "next" ELSE "write") /\ Kept(t, {"step"})
    BY <1>8, Migrates
  <2>3. tab'[t].guid = g
    BY <2>2 DEF Kept, Fields
  <2>4. CASE UpToDate(t)
    <3>1. ASSUME g \notin trimmed PROVE tab[t].read[g] \subseteq copies'[g]
      <4>1. Initial(copies[g]) /\ Initial(tab[t].read[g])
        BY <1>0, <2>1, <3>1 DEF CopiesArePrefixes, Exact
      <4>2. copies[g] = tab[t].read[g]
        BY <2>4, <4>1, EqualCounts DEF UpToDate
      <4> QED BY <1>0, <2>1, <4>2
    <3> QED BY <1>5, <2>1, <2>2, <2>4, <3>1 DEF Pending, Working
  <2>5. CASE ~UpToDate(t)
    BY <1>5, <2>1, <2>2, <2>3, <2>5 DEF Pending, Working
  <2> QED BY <2>4, <2>5
<1>9. ASSUME NEW t \in Tab, WriteEdits(t) PROVE Exact(u)'
  <2> DEFINE g == tab[t].guid
  <2>1. tab[t].step = "write" /\ Working(t) /\ g \in Guid
    BY <1>9, Migrates DEF WriteEdits, Busy, Working
  <2>2. tab'[t].step \in {"next", "version"} /\ Kept(t, {"step"})
    BY <1>9, Migrates
  <2>3. tab[t].read[g] \subseteq copies'[g]
    BY <1>9, <2>1 DEF WriteEdits, TypeOK
  <2> QED BY <1>5, <2>1, <2>2, <2>3 DEF Pending
<1>13. ASSUME NEW t \in Tab, Hang(t) PROVE Exact(u)'
  <2>1. tab[t].step \in {"write", "close"} /\ tab'[t].step = "hung" /\ Kept(t, {"step"})
    BY <1>13, Migrates DEF Hang, Busy
  <2>2. ~Working(t)'
    BY <2>1 DEF Working
  <2> QED BY <1>5, <2>1, <2>2
<1>10. ASSUME NEW t \in Tab, Fail(t) PROVE Exact(u)'
  <2>1. /\ tab'[t].step = "next" /\ tab'[t].failed = tab[t].failed \cup {tab[t].guid}
        /\ Kept(t, {"step", "failed"})
    BY <1>10, Migrates
  <2>2. CASE u = t
    <3>1. tab[t].replayed = {} /\ tab[t].step # "hung"
      BY <1>0, <1>10 DEF Fail, Busy, Exact
    <3>2. tab'[t].replayed = {} /\ tab'[t].read = tab[t].read
      BY <2>1, <3>1 DEF Kept, Fields
    <3>3. \A h \in Guid \ trimmed' : Initial(tab'[t].read[h])
      BY <1>0, <3>2 DEF Exact
    <3>4. \A h \in Guid \ trimmed' : h \in tab'[t].failed \/ tab'[t].read[h] \subseteq copies'[h]
      BY <1>0, <2>1, <3>1, <3>2 DEF Exact, Pending
    <3> QED BY <2>1, <2>2, <3>2, <3>3, <3>4 DEF Exact, Working
  <2> QED BY <1>1, <2>1, <2>2 DEF Kept
<1>11. ASSUME NEW t \in Tab, LoadIdentity(t) \/ SaveIdentity(t) \/ IdentityFails(t) PROVE Exact(u)'
  <2>1. \E S \in SUBSET {"at", "key", "saving"} : Kept(t, S)
    BY <1>11, Applies
  <2> QED BY <1>2, <2>1
\* A replay adds to what is shown; where it failed, nothing more is claimed.
<1>12. ASSUME NEW t \in Tab, NEW g \in Guid,
              Kept(t, {"replayed", "unplayed", "shown"}), tab[t].step = "done",
              tab'[t].replayed = tab[t].replayed \cup {g},
              tab[t].unplayed \subseteq tab'[t].unplayed, tab[t].shown \subseteq tab'[t].shown,
              g \in tab'[t].unplayed \/ {g} \X copies[g] \subseteq tab'[t].shown
       PROVE  Exact(u)'
  <2>1. CASE u = t
    <3>1. /\ tab'[t].step = "done" /\ tab'[t].read = tab[t].read /\ tab'[t].failed = tab[t].failed
      BY <1>12 DEF Kept, Fields
    <3>2. \A h \in Guid \ trimmed' : Initial(tab'[t].read[h])
      BY <1>0, <3>1 DEF Exact
    <3>3. \A h \in Guid \ trimmed' : h \in tab'[t].failed \/ tab'[t].read[h] \subseteq copies[h]
      BY <1>0, <1>12, <3>1 DEF Exact, Pending
    <3>4. \A h \in Guid \ trimmed' :
            h \in tab'[t].failed \/ h \in tab'[t].unplayed \/ h \notin tab'[t].replayed
              \/ {h} \X tab'[t].read[h] \subseteq tab'[t].shown
      <4> SUFFICES ASSUME NEW h \in Guid \ trimmed', h \notin tab'[t].failed, h \notin tab'[t].unplayed,
                          h \in tab'[t].replayed
                   PROVE  {h} \X tab'[t].read[h] \subseteq tab'[t].shown
        OBVIOUS
      <4>1. CASE h = g
        BY <1>12, <3>1, <3>3, <4>1
      <4>2. CASE h # g
        <5>1. h \in tab[t].replayed /\ h \notin tab[t].unplayed /\ h \notin tab[t].failed /\ h \notin trimmed
          BY <1>0, <1>12, <3>1, <4>2
        <5>2. {h} \X tab[t].read[h] \subseteq tab[t].shown
          BY <1>0, <5>1 DEF Exact
        <5> QED BY <1>12, <3>1, <5>2
      <4> QED BY <4>1, <4>2
    <3>5. \A h \in Guid \ trimmed' : h \in tab'[t].failed \/ tab'[t].read[h] \subseteq copies'[h]
      BY <1>0, <3>3
    <3> QED BY <2>1, <3>1, <3>2, <3>4, <3>5 DEF Exact, Working
  <2> QED BY <1>1, <1>12, <2>1 DEF Kept
<1>14. ASSUME NEW t \in Tab, NEW g \in Guid, Replay(t, g) PROVE Exact(u)'
  <2>1. /\ tab'[t].replayed = tab[t].replayed \cup {g}
        /\ tab'[t].shown = tab[t].shown \cup ({g} \X copies[g])
        /\ Kept(t, {"replayed", "shown"})
    BY <1>14, Applies
  <2>2. Kept(t, {"replayed", "unplayed", "shown"}) /\ tab'[t].unplayed = tab[t].unplayed
    BY <2>1 DEF Kept, Fields
  <2>3. tab[t].step = "done"
    BY <1>14 DEF Replay, Busy
  <2> QED BY <1>12, <2>1, <2>2, <2>3
<1>15. ASSUME NEW t \in Tab, NEW g \in Guid, ReplayFails(t, g) PROVE Exact(u)'
  <2>1. /\ tab'[t].replayed = tab[t].replayed \cup {g} /\ tab'[t].unplayed = tab[t].unplayed \cup {g}
        /\ tab[t].shown \subseteq tab'[t].shown
        /\ Kept(t, {"replayed", "unplayed", "shown"})
    BY <1>15, Applies
  <2>2. tab[t].step = "done"
    BY <1>15 DEF ReplayFails, Busy
  <2> QED BY <1>12, <2>1, <2>2
<1> QED
  BY <1>1, <1>3, <1>4, <1>6, <1>7, <1>8, <1>9, <1>10, <1>11, <1>13, <1>14, <1>15
     DEF Next, Works, Fault, Background, Application, OldTabCloses, OldTabWrites, OldTabTrims,
         PersistSnapshot, vars, store

-----------------------------------------------------------------------------
\* The theorems.

LEMMA InitInv == ASSUME StoreAssumption, Init PROVE IInv
<1>1. \A t \in Tab : tab[t] = Closed
  BY DEF Init
<1>2. OpenedIsCounted
  BY <1>1 DEF OpenedIsCounted, Closed
<1>3. SeedIsCopied
  <2>1. seed \in {before, NoSeed} /\ ("identity" \in flags => seed = before)
    BY DEF Init
  <2>2. Closed.at = "closed" /\ Closed.key = NoSeed /\ Closed.saving = NoSeed
    BY DEF Closed
  <2>3. \A t \in Tab : ~PastIdentity(t) /\ tab[t].key = NoSeed /\ tab[t].saving = NoSeed
    BY <1>1, <2>2 DEF PastIdentity
  <2> QED BY <2>1, <2>3 DEF SeedIsCopied
<1>4. CopiesArePrefixes
  <2>1. \A g \in Guid : old[g] = {1} /\ copies[g] = {}
    BY DEF Init
  <2>2. {1} = 1 .. 1 /\ 1 \in Nat
    OBVIOUS
  <2>3. Initial({1})
    BY <2>2 DEF Initial
  <2> QED BY <2>1, <2>3, EmptyIsInitial DEF CopiesArePrefixes
<1>5. MigrationIsExact
  <2>1. \A t \in Tab : Exact(t)
    BY <1>1, ClosedIsExact DEF Init
  <2> QED BY <2>1 DEF MigrationIsExact, Exact
<1> QED BY <1>2, <1>3, <1>4, <1>5, InitType DEF IInv

LEMMA StepInv == ASSUME StoreAssumption, IInv, [Next]_vars PROVE IInv'
<1>1. TypeOK'
  BY TypeStep DEF IInv
<1> QED BY <1>1, OpenedStep, SeedStep, CopiesStep, ExactStep DEF IInv

\* The invariant holds of every reachable state.
THEOREM Invariance == Spec => []IInv
<1>1. Init => IInv
  BY StoreAssumption, InitInv
<1>2. IInv /\ [Next]_vars => IInv'
  BY StoreAssumption, StepInv
<1> QED BY <1>1, <1>2, PTL DEF Spec

\* The variables have their types.
THEOREM TypeCorrect == Spec => []TypeOK
<1>1. IInv => TypeOK
  BY DEF IInv
<1> QED BY <1>1, Invariance, PTL

\* A device that had an identity goes on with it, unless the old database of it
\* could not be opened (migrate.ts, identity.ts).
THEOREM IdentityIsKept == Spec => []OldIdentityIsKept
<1>1. IInv => OldIdentityIsKept
  BY DEF IInv, SeedIsCopied, OldIdentityIsKept
<1> QED BY <1>1, Invariance, PTL

\* A document shows every update its tab read in old databases that were never
\* rewritten (migrate.ts, create-doc.ts), where neither the migration nor the replay
\* failed: whatever tabs crashed half-way and however many migrate at once.
THEOREM ReplayShowsAll == Spec => []ReplayIsComplete
<1>1. IInv => ReplayIsComplete
  BY DEF IInv, MigrationIsExact, ReplayIsComplete, Ready
<1> QED BY <1>1, Invariance, PTL

=============================================================================
