------------------------ MODULE ReconciliationProofs ------------------------
(***************************************************************************)
(* Proofs about Reconciliation, for every hash function, depth and         *)
(* threshold of the search, any edits and initial trees, and any number of *)
(* data channels one after the other.                                      *)
(***************************************************************************)
EXTENDS Reconciliation, FiniteSetTheorems, SequenceTheorems, TLAPS

----------------------------------------------------------------------------
(* Messages, and what is said about them.                                  *)

\* The messages of a channel.
OnWire(s) == {s[i] : i \in 1 .. Len(s)}

NoStart(s) == \A m \in OnWire(s) : m.type # "START"

\* The last START of a channel is this one.
Announces(s, start) ==
    \A i \in 1 .. Len(s) :
        s[i].type = "START" /\ (\A j \in i + 1 .. Len(s) : s[j].type # "START")
            => s[i] = start

Under(h, prefix) == \A i \in DOMAIN prefix : Bit(h, i) = prefix[i]

\* A search asks for a subtree, and is answered.
IsAsk(m) == m.type \in {"QUERY", "SET"}

IsAnswer(m) == m.type \in {"RESPONSE", "BATCH"}

Asks(m, h) == IsAsk(m) /\ Under(h, m.prefix)

\* A response that found a difference leads on, a batch brings the edits.
Brings(m, h) ==
    \/ m.type = "RESPONSE" /\ ~m.match /\ Under(h, m.prefix)
    \/ m.type = "BATCH" /\ h \in m.edits

----------------------------------------------------------------------------
(* The inductive invariant.                                                *)

\* What p's sessions, messages and promises refer to is in p's tree.
Holds(p) ==
    /\ IsFiniteSet(Held(p))
    /\ coordinator[p].in.hashes \subseteq Held(p)
    /\ coordinator[p].out.hashes \subseteq Held(p)
    /\ coordinator[p].out.count = 0 => coordinator[p].out.hashes = {}
    /\ BagToSet(coordinator[p].in.buffer) \subseteq Held(p)
    /\ BagToSet(verifying[p]) \subseteq Held(p)
    /\ \A edits \in BagToSet(signing[p]) : edits \subseteq Held(p)
    /\ \A m \in OnWire(wire[p]) :
           /\ IsAsk(m) => m.hashes \subseteq Held(p)
           /\ m.type = "BATCH" => m.edits \subseteq Held(p)

HeldInv == \A p \in Peer : Holds(p)

\* Somebody's tree has these edits as they were typed.
Authored(xs) == \A x \in xs : \E r \in Peer : Typed(x) \in Held(r)

\* The typed edits of a tree are shown, and a snapshot has no others: what it
\* covers is in the tree it was made of or came from, as typed.
IsMerge(snapshot) == snapshot.kind = "snapshot" /\ Authored(snapshot.covers)

Authors(p) ==
    /\ \A x \in Edit : Typed(x) \in Held(p) => x \in shown[p]
    /\ BagToSet(stamping[p]) \subseteq shown[p]
    /\ \A h \in Held(p) : Authored(h.covers)
    /\ IsMerge(coordinator[p].snapshot)
    /\ \A m \in OnWire(wire[p]) : m.type = "FULL" => IsMerge(m.snapshot)
    /\ \A x \in Covered(coordinator[p].out.hashes) :
           \/ Typed(x) \in coordinator[p].out.hashes
           \/ Typed(x) \in Held(Other(p))

AuthorInv == \A p \in Peer : Authors(p)

\* Nothing is on its way to a closed end, a search runs on an open one, and
\* the last START sent announces what the coordinator answers for.
Linked(p) ==
    /\ link[p] = "closed" => wire[Other(p)] = <<>>
    /\ link[p] # "open" => ~coordinator[p].searching
    /\ link[p] # "closed" => Announces(wire[p], Start(coordinator[p].out))

LinkInv == \A p \in Peer : Linked(p)

\* Something under way will make p's search go on.
Active(p) ==
    \/ BagToSet(signing[Other(p)]) # {}
    \/ \E m \in OnWire(wire[Other(p)]) : IsAnswer(m)
    \/ \E m \in OnWire(wire[p]) : IsAsk(m)

\* The search of p has h ahead of it: on its way, asked for, or queued.
Pursued(p, h) ==
    \/ \E edits \in BagToSet(signing[Other(p)]) : h \in edits
    \/ \E m \in OnWire(wire[Other(p)]) : Brings(m, h)
    \/ \E m \in OnWire(wire[p]) : Asks(m, h)
    \/ Active(p) /\ \E prefix \in OnWire(coordinator[p].in.queue) : Under(h, prefix)

\* A search that has seen the peer's last START, and found it to differ, has
\* or pursues every payload the peer answers for.
Searches(p) ==
    coordinator[p].searching /\ link[Other(p)] # "closed" /\ NoStart(wire[Other(p)]) /\ ~Matches(p)
        => \A h \in coordinator[Other(p)].out.hashes : h \in Held(p) \/ Pursued(p, h)

SearchInv == \A p \in Peer : Searches(p)

IInv == TypeOK /\ HeldInv /\ AuthorInv /\ LinkInv /\ SearchInv

----------------------------------------------------------------------------
(* What a step of the session that searches does.                          *)

\* It keeps what the session was created with.
Keeps(s, t) ==
    /\ IsSession(t)
    /\ t.hashes = s.hashes /\ t.odd = s.odd /\ t.count = s.count

Queued(s, h) == \E prefix \in OnWire(s.queue) : Under(h, prefix)

\* A question of the session.
IsAskOf(s, m) == m \in Message /\ IsAsk(m) /\ m.hashes \subseteq s.hashes

\* What is left to search: in the queue, or under a response that differs.
Left(s, m, h) == Queued(s, h) \/ (m.type = "RESPONSE" /\ Brings(m, h))

Received(s, m) == BagToSet(s.buffer) \cup (IF m.type = "BATCH" THEN m.edits ELSE {})

\* An answer m makes it ask for some of what is left, and queues the rest.
AsksOn(s, m, t, reply) ==
    \/ reply = <<>> /\ \A h \in Payload : ~Left(s, m, h)
    \/ \E a : /\ reply = <<a>> /\ IsAskOf(s, a)
              /\ \A h \in Payload : Left(s, m, h) => Asks(a, h) \/ Queued(t, h)

GoesOn(s, m, step) ==
    /\ Keeps(s, step.session)
    /\ step.ends \in BOOLEAN
    /\ IsBagOf(step.edits, Payload) /\ BagToSet(step.edits) \subseteq Received(s, m)
    /\ BagToSet(step.session.buffer) \subseteq Received(s, m)
    /\ AsksOn(s, m, step.session, step.reply)

\* What p's coordinator and the wire do when the answer m arrives.
Answered(p, m) ==
    LET c == coordinator[p]
        d == coordinator'[p]
    IN  /\ IsCoordinator(d) /\ DOMAIN coordinator' = Peer
        /\ coordinator'[Other(p)] = coordinator[Other(p)]
        /\ d.out = c.out /\ d.snapshot = c.snapshot /\ d.searching = c.searching
        /\ Keeps(c.in, d.in)
        /\ BagToSet(d.in.buffer) \subseteq Received(c.in, m)
        /\ \E reply \in Seq(Message) :
               /\ Respond(p, reply)
               /\ reply = <<>> \/ \E a : reply = <<a>> /\ IsAskOf(c.in, a)
               /\ c.searching => AsksOn(c.in, m, d.in, reply)

----------------------------------------------------------------------------
(* Bags and channels.                                                      *)

LEMMA OtherFacts ==
    ASSUME NEW p \in Peer
    PROVE  /\ Other(p) \in Peer /\ Other(p) # p
           /\ Other(Other(p)) = p
           /\ \A r \in Peer : r = p \/ r = Other(p)
<1>1. PICK a \in Peer, b \in Peer : a # b /\ Peer = {a, b}
  BY PeerAssumption
<1>2. \A r \in Peer : Other(r) \in Peer /\ Other(r) # r
  BY <1>1 DEF Other
<1> QED
  BY <1>1, <1>2

LEMMA EmptyBagFacts ==
    ASSUME NEW S
    PROVE  IsBagOf(EmptyBag, S) /\ BagToSet(EmptyBag) = {}
BY DEF IsBagOf, EmptyBag, SetToBag, BagToSet, IsABag

LEMMA AddFacts ==
    ASSUME NEW S, NEW B, IsBagOf(B, S), NEW C, IsBagOf(C, S)
    PROVE  IsBagOf(B (+) C, S) /\ BagToSet(B (+) C) = BagToSet(B) \cup BagToSet(C)
<1> DEFINE D == (DOMAIN B) \cup (DOMAIN C)
           f == [e \in D |-> (IF e \in DOMAIN B THEN B[e] ELSE 0) + (IF e \in DOMAIN C THEN C[e] ELSE 0)]
<1>1. B (+) C = f
  BY DEF (+)
<1>2. \A e \in D : f[e] \in {n \in Nat : n > 0}
  BY DEF IsBagOf, IsABag
<1>3. DOMAIN f = D
  OBVIOUS
<1> HIDE DEF f
<1>4. f \in [D -> {n \in Nat : n > 0}]
  <2> f = [e \in D |-> f[e]]
    BY DEF f
  <2> QED
    BY <1>2, <1>3
<1> QED
  BY <1>1, <1>3, <1>4 DEF IsBagOf, IsABag, BagToSet

LEMMA SetFacts ==
    ASSUME NEW S, NEW T, T \subseteq S
    PROVE  IsBagOf(SetToBag(T), S) /\ BagToSet(SetToBag(T)) = T
BY DEF IsBagOf, IsABag, BagToSet, SetToBag

\* What is added to a bag of payloads, or of anything else, is in it.
LEMMA GrowFacts ==
    ASSUME NEW S, NEW B, IsBagOf(B, S), NEW T, T \subseteq S
    PROVE  IsBagOf(B (+) SetToBag(T), S) /\ BagToSet(B (+) SetToBag(T)) = BagToSet(B) \cup T
BY SetFacts, AddFacts

\* One copy less: everything else is still there.
LEMMA TakeFacts ==
    ASSUME NEW S, NEW B, IsBagOf(B, S), NEW x \in BagToSet(B)
    PROVE  /\ IsBagOf(B (-) One(x), S)
           /\ BagToSet(B (-) One(x)) \subseteq BagToSet(B)
           /\ BagToSet(B) \ {x} \subseteq BagToSet(B (-) One(x))
<1> DEFINE c == [e \in DOMAIN B |-> IF e \in DOMAIN One(x) THEN B[e] - One(x)[e] ELSE B[e]]
           D == {d \in DOMAIN c : c[d] > 0}
           f == [e \in D |-> c[e]]
<1>1. B (-) One(x) = f
  BY DEF (-)
<1>2. DOMAIN One(x) = {x} /\ One(x)[x] = 1
  BY DEF One, SetToBag
<1>3. \A e \in DOMAIN B : B[e] \in Nat /\ B[e] > 0
  BY DEF IsBagOf, IsABag
<1>4. \A e \in DOMAIN B : c[e] \in Int /\ (e # x => c[e] = B[e])
  BY <1>2, <1>3
<1>5. DOMAIN c = DOMAIN B
  OBVIOUS
<1> HIDE DEF c
<1>6. D \subseteq DOMAIN B /\ (DOMAIN B) \ {x} \subseteq D
  BY <1>3, <1>4, <1>5
<1>7. f \in [D -> {n \in Nat : n > 0}]
  BY <1>4, <1>5
<1> QED
  BY <1>1, <1>6, <1>7 DEF IsBagOf, IsABag, BagToSet

LEMMA WireTail ==
    ASSUME NEW T, NEW s \in Seq(T), s # <<>>
    PROVE  /\ Head(s) \in T /\ Tail(s) \in Seq(T)
           /\ Head(s) \in OnWire(s)
           /\ OnWire(Tail(s)) \subseteq OnWire(s)
           /\ OnWire(s) \subseteq OnWire(Tail(s)) \cup {Head(s)}
<1>1. Len(s) \in Nat /\ Len(s) > 0 /\ Len(Tail(s)) = Len(s) - 1 /\ Tail(s) \in Seq(T)
  BY EmptySeq
<1>2. \A i \in 1 .. Len(Tail(s)) : Tail(s)[i] = s[i + 1] /\ i + 1 \in 1 .. Len(s)
  BY <1>1
<1>3. Head(s) = s[1] /\ 1 \in 1 .. Len(s)
  BY <1>1
<1>4. ASSUME NEW i \in 1 .. Len(s)
      PROVE  s[i] \in OnWire(Tail(s)) \cup {Head(s)}
  <2>1. CASE i = 1
    BY <2>1, <1>3
  <2>2. CASE i # 1
    <3>1. i - 1 \in 1 .. Len(Tail(s)) /\ (i - 1) + 1 = i
      BY <2>2, <1>1
    <3> QED
      BY <3>1, <1>2 DEF OnWire
  <2> QED
    BY <2>1, <2>2
<1> QED
  BY <1>1, <1>2, <1>3, <1>4 DEF OnWire

LEMMA WireOne == \A m : OnWire(<<m>>) = {m}
<1> TAKE m
<1>1. Len(<<m>>) = 1 /\ <<m>>[1] = m
  OBVIOUS
<1> QED
  BY <1>1 DEF OnWire

LEMMA WireEmpty == OnWire(<<>>) = {}
BY DEF OnWire

LEMMA WireCat ==
    ASSUME NEW T, NEW s \in Seq(T), NEW t \in Seq(T)
    PROVE  s \o t \in Seq(T) /\ OnWire(s \o t) = OnWire(s) \cup OnWire(t)
<1>1. s \o t \in Seq(T) /\ Len(s \o t) = Len(s) + Len(t)
  OBVIOUS
<1>2. \A i \in 1 .. Len(s) : i \in 1 .. Len(s \o t) /\ (s \o t)[i] = s[i]
  BY <1>1
<1>3. \A i \in 1 .. Len(t) : i + Len(s) \in 1 .. Len(s \o t) /\ (s \o t)[i + Len(s)] = t[i]
  BY <1>1
<1>4. ASSUME NEW i \in 1 .. Len(s \o t)
      PROVE  (s \o t)[i] \in OnWire(s) \cup OnWire(t)
  <2>1. CASE i <= Len(s)
    BY <2>1, <1>1, <1>2 DEF OnWire
  <2>2. CASE i > Len(s)
    <3>1. i - Len(s) \in 1 .. Len(t) /\ (i - Len(s)) + Len(s) = i
      BY <2>2, <1>1
    <3> QED
      BY <3>1, <1>3 DEF OnWire
  <2> QED
    BY <2>1, <2>2, <1>1
<1>5. OnWire(s \o t) \subseteq OnWire(s) \cup OnWire(t)
  BY <1>4 DEF OnWire
<1>6. \A i \in 1 .. Len(s) : s[i] \in OnWire(s \o t)
  BY <1>2 DEF OnWire
<1>7. \A i \in 1 .. Len(t) : t[i] \in OnWire(s \o t)
  BY <1>3 DEF OnWire
<1>8. OnWire(s) \subseteq OnWire(s \o t) /\ OnWire(t) \subseteq OnWire(s \o t)
  BY <1>6, <1>7 DEF OnWire
<1> QED
  BY <1>1, <1>5, <1>8

LEMMA WireAppend ==
    ASSUME NEW T, NEW s \in Seq(T), NEW e \in T
    PROVE  Append(s, e) \in Seq(T) /\ OnWire(Append(s, e)) = OnWire(s) \cup {e}
<1> DEFINE t == <<e>>
           c == Append(s, e)
<1>1. c = s \o t /\ t \in Seq(T)
  OBVIOUS
<1>2. OnWire(t) = {e}
  BY WireOne
<1> HIDE DEF t, c
<1>3. c \in Seq(T) /\ OnWire(c) = OnWire(s) \cup {e}
  BY <1>1, <1>2, WireCat
<1> QED
  BY <1>3 DEF c

LEMMA AnnouncesTail ==
    ASSUME NEW s \in Seq(Message), s # <<>>, NEW start, Announces(s, start)
    PROVE  /\ Announces(Tail(s), start)
           /\ Head(s).type = "START" /\ NoStart(Tail(s)) => Head(s) = start
<1>1. Len(s) \in Nat /\ Len(s) > 0 /\ Len(Tail(s)) = Len(s) - 1
  BY EmptySeq
<1>2. \A i \in 1 .. Len(Tail(s)) : Tail(s)[i] = s[i + 1]
  BY <1>1
<1>3. \A j \in 2 .. Len(s) : j - 1 \in 1 .. Len(Tail(s)) /\ Tail(s)[j - 1] = s[j]
  BY <1>1, <1>2
<1>4. ASSUME NEW i \in 1 .. Len(Tail(s)), Tail(s)[i].type = "START",
             \A j \in i + 1 .. Len(Tail(s)) : Tail(s)[j].type # "START"
      PROVE  Tail(s)[i] = start
  <2>1. i + 1 \in 1 .. Len(s) /\ s[i + 1].type = "START"
    BY <1>1, <1>2, <1>4
  <2>2. ASSUME NEW j \in (i + 1) + 1 .. Len(s)
        PROVE  s[j].type # "START"
    <3>1. j \in 2 .. Len(s) /\ j - 1 \in i + 1 .. Len(Tail(s))
      BY <1>1
    <3> QED
      BY <3>1, <1>3, <1>4
  <2>3. s[i + 1] = start
    BY <2>1, <2>2 DEF Announces
  <2> QED
    BY <2>3, <1>2
<1>5. ASSUME Head(s).type = "START", NoStart(Tail(s))
      PROVE  Head(s) = start
  <2>1. Head(s) = s[1] /\ 1 \in 1 .. Len(s)
    BY <1>1
  <2>2. \A j \in 1 + 1 .. Len(s) : s[j].type # "START"
    BY <1>3, <1>5, <1>1 DEF NoStart, OnWire
  <2> QED
    BY <2>1, <2>2, <1>5 DEF Announces
<1> QED
  BY <1>4, <1>5 DEF Announces

LEMMA AnnouncesMore ==
    ASSUME NEW s \in Seq(Message), NEW start, NEW m \in Message,
           m.type = "START" => m = start,
           m.type # "START" => Announces(s, start)
    PROVE  Announces(s \o <<m>>, start)
<1> DEFINE t == s \o <<m>>
<1>1. Len(t) = Len(s) + 1 /\ t[Len(t)] = m /\ \A i \in 1 .. Len(s) : t[i] = s[i]
  OBVIOUS
<1>2. Len(s) \in Nat
  OBVIOUS
<1> HIDE DEF t
<1>3. ASSUME NEW i \in 1 .. Len(t), t[i].type = "START",
             \A j \in i + 1 .. Len(t) : t[j].type # "START"
      PROVE  t[i] = start
  <2>1. CASE i = Len(t)
    BY <2>1, <1>1, <1>3
  <2>2. CASE i # Len(t)
    <3>1. i \in 1 .. Len(s) /\ Len(t) \in i + 1 .. Len(t)
      BY <2>2, <1>1, <1>2
    <3>2. m.type # "START"
      BY <3>1, <1>1, <1>3
    <3>3. \A j \in i + 1 .. Len(s) : j \in i + 1 .. Len(t) /\ j \in 1 .. Len(s)
      BY <3>1, <1>1, <1>2
    <3>4. s[i].type = "START" /\ \A j \in i + 1 .. Len(s) : s[j].type # "START"
      BY <3>1, <3>3, <1>1, <1>3
    <3> QED
      BY <3>1, <3>2, <3>4, <1>1 DEF Announces
  <2> QED
    BY <2>1, <2>2
<1>4. Announces(t, start)
  BY <1>3 DEF Announces
<1> QED
  BY <1>4 DEF t

----------------------------------------------------------------------------
(* The session.                                                            *)

LEMMA MessageFacts ==
    ASSUME NEW m \in Message
    PROVE  /\ IsAsk(m) => m.prefix \in Prefix /\ m.hashes \subseteq Payload
           /\ m.type = "RESPONSE" => m.prefix \in Prefix /\ m.match \in BOOLEAN
           /\ m.type = "BATCH" => m.edits \subseteq Payload
           /\ m.type = "FULL" => m.snapshot \in Payload
BY DEF Message, IsAsk

LEMMA PrefixFacts ==
    /\ <<>> \in Prefix
    /\ \A h : Under(h, <<>>)
    /\ \A prefix \in Prefix : Len(prefix) \in Nat /\ DOMAIN prefix = 1 .. Len(prefix)
<1>1. <<>> \in [1 .. 0 -> {0, 1}] /\ 0 \in 0 .. MaxDepth
  BY SearchAssumption
<1>2. ASSUME NEW prefix \in Prefix
      PROVE  Len(prefix) \in Nat /\ DOMAIN prefix = 1 .. Len(prefix)
  <2>1. PICK d \in 0 .. MaxDepth : prefix \in [1 .. d -> {0, 1}]
    BY DEF Prefix
  <2>2. d \in Nat /\ prefix \in Seq({0, 1})
    BY <2>1, SearchAssumption
  <2> QED
    BY <2>2
<1> QED
  BY <1>1, <1>2 DEF Prefix, Under

\* Below a subtree that is split are its two halves.
LEMMA SplitFacts ==
    ASSUME NEW prefix \in Prefix, Len(prefix) < MaxDepth
    PROVE  /\ Append(prefix, 0) \in Prefix /\ Append(prefix, 1) \in Prefix
           /\ \A h \in Payload : Under(h, prefix) =>
                  Under(h, Append(prefix, 0)) \/ Under(h, Append(prefix, 1))
<1>1. PICK d \in 0 .. MaxDepth : prefix \in [1 .. d -> {0, 1}]
  BY DEF Prefix
<1>2. d \in Nat /\ MaxDepth \in Nat
  BY SearchAssumption
<1>3. prefix \in Seq({0, 1}) /\ Len(prefix) = d /\ DOMAIN prefix = 1 .. d
  BY <1>1, <1>2
<1>4. d + 1 \in 0 .. MaxDepth /\ d + 1 \in 1 .. MaxDepth
  BY <1>2, <1>3
<1>5. ASSUME NEW b \in {0, 1}
      PROVE  /\ Append(prefix, b) \in [1 .. d + 1 -> {0, 1}]
             /\ \A i \in 1 .. d : Append(prefix, b)[i] = prefix[i]
             /\ Append(prefix, b)[d + 1] = b
             /\ DOMAIN Append(prefix, b) = 1 .. d + 1
  <2> DEFINE half == Append(prefix, b)
  <2>1. half \in Seq({0, 1}) /\ Len(half) = d + 1
    BY <1>3
  <2>2. half[d + 1] = b /\ \A i \in 1 .. d : half[i] = prefix[i]
    BY <1>2, <1>3
  <2> HIDE DEF half
  <2>3. half \in [1 .. d + 1 -> {0, 1}]
    BY <2>1
  <2> QED
    BY <2>2, <2>3 DEF half
<1>6. ASSUME NEW h \in Payload, Under(h, prefix)
      PROVE  Under(h, Append(prefix, 0)) \/ Under(h, Append(prefix, 1))
  <2>1. Bit(h, d + 1) \in {0, 1}
    BY <1>4, BitAssumption
  <2>2. \A i \in 1 .. d : Bit(h, i) = prefix[i]
    BY <1>3, <1>6 DEF Under
  <2>3. ASSUME NEW b \in {0, 1}, Bit(h, d + 1) = b
        PROVE  Under(h, Append(prefix, b))
    <3>1. \A i \in 1 .. d + 1 : i \in 1 .. d \/ i = d + 1
      BY <1>2
    <3> QED
      BY <3>1, <2>2, <2>3, <1>5 DEF Under
  <2> QED
    BY <2>1, <2>3
<1> QED
  BY <1>4, <1>5, <1>6 DEF Prefix

LEMMA SubtreeFacts ==
    ASSUME NEW hashes, NEW prefix
    PROVE  /\ Subtree(hashes, prefix) \subseteq hashes
           /\ \A h \in hashes : h \in Subtree(hashes, prefix) <=> Under(h, prefix)
BY DEF Subtree, Under

\* A finite tree has as many entries as is announced, none only when it is empty.
LEMMA EntriesFacts ==
    ASSUME NEW B, IsBagOf(B, Payload), IsFiniteSet(BagToSet(B))
    PROVE  /\ Cardinality(Entries(B)) \in Nat
           /\ Cardinality(Entries(B)) = 0 => BagToSet(B) = {}
<1> DEFINE copies == [h \in BagToSet(B) |-> {h} \X (1 .. B[h])]
           images == {{h} \X (1 .. B[h]) : h \in BagToSet(B)}
<1>1. \A h \in BagToSet(B) : B[h] \in Nat /\ B[h] > 0
  BY DEF IsBagOf, IsABag, BagToSet
<1>2. copies \in Surjection(BagToSet(B), images)
  BY DEF Surjection
<1>3. IsFiniteSet(images)
  BY <1>2, FS_Surjection
<1>4. \A T \in images : IsFiniteSet(T)
  <2> SUFFICES ASSUME NEW h \in BagToSet(B)
               PROVE  IsFiniteSet({h} \X (1 .. B[h]))
    OBVIOUS
  <2>1. IsFiniteSet({h})
    BY FS_Singleton
  <2>2. IsFiniteSet(1 .. B[h])
    BY <1>1, FS_Interval
  <2> QED
    BY <2>1, <2>2, FS_Product
<1>5. Entries(B) = UNION images
  BY DEF Entries
<1> HIDE DEF images, copies
<1>6. IsFiniteSet(Entries(B))
  BY <1>3, <1>4, <1>5, FS_UNION
<1>7. ASSUME NEW h \in BagToSet(B)
      PROVE  <<h, 1>> \in Entries(B)
  <2>1. 1 \in 1 .. B[h]
    BY <1>1
  <2> QED
    BY <2>1 DEF Entries
<1> QED
  BY <1>6, <1>7, FS_CardinalityType, FS_EmptySet

LEMMA NewSessionFacts ==
    ASSUME NEW B, IsBagOf(B, Payload), IsFiniteSet(BagToSet(B))
    PROVE  LET s == NewSession(B)
           IN  /\ IsSession(s)
               /\ s.hashes = BagToSet(B)
               /\ s.count = 0 => s.hashes = {}
               /\ BagToSet(s.buffer) = {}
               /\ s.queue = <<>>
<1> DEFINE s == NewSession(B)
<1>1. /\ s.hashes = BagToSet(B) /\ s.count = Cardinality(Entries(B))
      /\ s.odd \subseteq BagToSet(B) /\ s.queue = <<>> /\ s.buffer = EmptyBag
      /\ DOMAIN s = {"hashes", "odd", "count", "queue", "buffer"}
  BY DEF NewSession
<1>2. BagToSet(B) \subseteq Payload
  BY DEF IsBagOf
<1>3. IsBagOf(EmptyBag, Payload) /\ BagToSet(EmptyBag) = {}
  BY EmptyBagFacts
<1>4. <<>> \in Seq(Prefix)
  OBVIOUS
<1> HIDE DEF s
<1>5. IsSession(s)
  BY <1>1, <1>2, <1>3, <1>4, EntriesFacts DEF IsSession
<1>6. s.count = 0 => s.hashes = {}
  BY <1>1, EntriesFacts
<1> QED
  BY <1>1, <1>3, <1>5, <1>6 DEF s

LEMMA PayloadFacts ==
    /\ \A x \in Edit : Typed(x) \in Payload /\ Typed(x).kind = "edit" /\ Typed(x).covers = {x}
    /\ \A xs \in SUBSET Edit : /\ SnapshotOf(xs) \in Payload
                               /\ SnapshotOf(xs).kind = "snapshot"
                               /\ SnapshotOf(xs).covers = xs
    /\ \A hs \in SUBSET Payload : Covered(hs) \subseteq Edit
BY DEF Payload, Typed, SnapshotOf, Covered

\* A coordinator that starts with a tree.
LEMMA StartedFacts ==
    ASSUME NEW B, IsBagOf(B, Payload), IsFiniteSet(BagToSet(B))
    PROVE  LET c == Started(B)
           IN  /\ IsCoordinator(c)
               /\ c.out = NewSession(B) /\ c.in = NewSession(EmptyBag)
               /\ c.out.hashes = BagToSet(B) /\ c.in.hashes = {} /\ BagToSet(c.in.buffer) = {}
               /\ c.out.count = 0 => c.out.hashes = {}
               /\ ~c.searching
               /\ c.snapshot.kind = "snapshot" /\ c.snapshot.covers = Covered(BagToSet(B))
<1> DEFINE c == Started(B)
<1>1. /\ c.out = NewSession(B) /\ c.in = NewSession(EmptyBag)
      /\ c.snapshot = SnapshotOf(Covered(BagToSet(B)))
      /\ c.searching = FALSE /\ c.done = FALSE /\ c.snapshotApplied = FALSE
      /\ DOMAIN c = {"out", "in", "searching", "snapshot", "done", "snapshotApplied"}
  BY DEF Started
<1>2. IsBagOf(EmptyBag, Payload) /\ BagToSet(EmptyBag) = {} /\ IsFiniteSet({})
  BY EmptyBagFacts, FS_EmptySet
<1>3. /\ IsSession(NewSession(EmptyBag))
      /\ NewSession(EmptyBag).hashes = {} /\ BagToSet(NewSession(EmptyBag).buffer) = {}
  BY <1>2, NewSessionFacts
<1>4. /\ IsSession(NewSession(B)) /\ NewSession(B).hashes = BagToSet(B)
      /\ NewSession(B).count = 0 => NewSession(B).hashes = {}
  BY NewSessionFacts
<1>5. Covered(BagToSet(B)) \in SUBSET Edit
  BY PayloadFacts DEF IsBagOf
<1> HIDE DEF c
<1>6. IsCoordinator(c)
  <2>1. c.snapshot \in Payload
    BY <1>1, <1>5, PayloadFacts
  <2>2. IsSession(c.out) /\ IsSession(c.in)
    BY <1>1, <1>3, <1>4
  <2> QED
    BY <1>1, <2>1, <2>2 DEF IsCoordinator
<1> QED
  BY <1>1, <1>3, <1>4, <1>5, <1>6, PayloadFacts DEF c

LEMMA NoCoordinatorFacts ==
    /\ IsCoordinator(NoCoordinator)
    /\ NoCoordinator.out.hashes = {} /\ NoCoordinator.in.hashes = {}
    /\ BagToSet(NoCoordinator.in.buffer) = {}
    /\ ~NoCoordinator.searching
    /\ NoCoordinator.snapshot.kind = "snapshot" /\ NoCoordinator.snapshot.covers = {}
<1>1. IsBagOf(EmptyBag, Payload) /\ BagToSet(EmptyBag) = {} /\ IsFiniteSet({})
  BY EmptyBagFacts, FS_EmptySet
<1>2. Covered({}) = {}
  BY DEF Covered
<1> QED
  BY <1>1, <1>2, StartedFacts DEF NoCoordinator

LEMMA AskFacts ==
    ASSUME NEW s, IsSession(s), NEW prefix \in Prefix
    PROVE  LET q == Query(s, prefix)
               e == [q EXCEPT !.type = "SET"]
           IN  /\ IsAskOf(s, q) /\ q.type = "QUERY" /\ q.prefix = prefix
               /\ IsAskOf(s, e) /\ e.type = "SET" /\ e.prefix = prefix
<1> DEFINE q == Query(s, prefix)
           e == [q EXCEPT !.type = "SET"]
<1>1. q = [type |-> "QUERY", prefix |-> prefix, hashes |-> Subtree(s.hashes, prefix)]
  BY DEF Query
<1>2. e = [type |-> "SET", prefix |-> prefix, hashes |-> Subtree(s.hashes, prefix)]
  BY <1>1
<1>3. Subtree(s.hashes, prefix) \subseteq s.hashes /\ s.hashes \subseteq Payload
  BY SubtreeFacts DEF IsSession
<1>4. q \in Message /\ e \in Message
  BY <1>1, <1>2, <1>3 DEF Message
<1> QED
  BY <1>1, <1>2, <1>3, <1>4 DEF IsAskOf, IsAsk

\* The search takes the next subtree from the queue.
LEMMA DrainFacts ==
    ASSUME NEW s, IsSession(s), NEW edits
    PROVE  LET step == Drain(s, edits)
           IN  /\ Keeps(s, step.session)
               /\ step.session.buffer = s.buffer
               /\ step.ends \in BOOLEAN
               /\ step.edits = edits \/ step.edits = EmptyBag
               /\ \/ step.reply = <<>> /\ \A h : ~Queued(s, h)
                  \/ \E a : /\ step.reply = <<a>> /\ IsAskOf(s, a)
                            /\ \A h : Queued(s, h) => Asks(a, h) \/ Queued(step.session, h)
<1> DEFINE step == Drain(s, edits)
<1>1. CASE s.queue = <<>>
  <2>1. step.session = s /\ step.reply = <<>> /\ step.ends = TRUE /\ step.edits = edits
    BY <1>1 DEF Drain, Ends
  <2>2. \A h : ~Queued(s, h)
    BY <1>1, WireEmpty DEF Queued
  <2> HIDE DEF step
  <2>3. Keeps(s, step.session)
    BY <2>1 DEF Keeps
  <2> QED
    BY <2>1, <2>2, <2>3 DEF step
<1>2. CASE s.queue # <<>>
  <2> DEFINE t == [s EXCEPT !.queue = Tail(@)]
             a == Query(s, Head(s.queue))
  <2>1. step.session = t /\ step.reply = <<a>> /\ step.ends = FALSE /\ step.edits = EmptyBag
    BY <1>2 DEF Drain, Replies
  <2>2. s.queue \in Seq(Prefix)
    BY DEF IsSession
  <2>3. /\ Head(s.queue) \in Prefix /\ Tail(s.queue) \in Seq(Prefix)
        /\ OnWire(s.queue) \subseteq OnWire(Tail(s.queue)) \cup {Head(s.queue)}
    BY <1>2, <2>2, WireTail
  <2>4. IsAskOf(s, a) /\ a.prefix = Head(s.queue)
    BY <2>3, AskFacts
  <2>5. /\ t.hashes = s.hashes /\ t.odd = s.odd /\ t.count = s.count /\ t.buffer = s.buffer
        /\ t.queue = Tail(s.queue) /\ DOMAIN t = DOMAIN s
    BY DEF IsSession
  <2> HIDE DEF step, t, a
  <2>6. IsSession(t)
    BY <2>3, <2>5 DEF IsSession
  <2>7. ASSUME NEW h, Queued(s, h)
        PROVE  Asks(a, h) \/ Queued(t, h)
    <3>1. PICK prefix \in OnWire(s.queue) : Under(h, prefix)
      BY <2>7 DEF Queued
    <3>2. CASE prefix \in OnWire(Tail(s.queue))
      BY <3>1, <3>2, <2>5 DEF Queued
    <3>3. CASE prefix = Head(s.queue)
      BY <3>1, <3>3, <2>4 DEF Asks, IsAskOf
    <3> QED
      BY <3>2, <3>3, <2>3
  <2>8. Keeps(s, t)
    BY <2>5, <2>6 DEF Keeps
  <2> QED
    BY <2>1, <2>4, <2>5, <2>7, <2>8 DEF step
<1> QED
  BY <1>1, <1>2

LEMMA ResponseFacts ==
    ASSUME NEW s, IsSession(s), NEW m \in Message, m.type = "RESPONSE"
    PROVE  GoesOn(s, m, OnResponse(s, m))
<1> DEFINE step == OnResponse(s, m)
           prefix == m.prefix
<1>1. prefix \in Prefix /\ m.match \in BOOLEAN
  BY MessageFacts
<1>2. IsBagOf(EmptyBag, Payload) /\ BagToSet(EmptyBag) = {}
  BY EmptyBagFacts
<1>3. CASE m.match
  <2>1. step = Drain(s, EmptyBag)
    BY <1>3 DEF OnResponse
  <2>2. \A h : ~Brings(m, h)
    BY <1>3 DEF Brings
  <2> HIDE DEF step
  <2>3. /\ Keeps(s, step.session)
        /\ step.session.buffer = s.buffer
        /\ step.ends \in BOOLEAN
        /\ step.edits = EmptyBag
    BY <2>1, DrainFacts
  <2>4. \/ step.reply = <<>> /\ \A h : ~Queued(s, h)
        \/ \E a : /\ step.reply = <<a>> /\ IsAskOf(s, a)
                  /\ \A h : Queued(s, h) => Asks(a, h) \/ Queued(step.session, h)
    BY <2>1, DrainFacts
  <2> QED
    BY <1>2, <2>2, <2>3, <2>4 DEF GoesOn, AsksOn, Left, Received, step
<1>4. CASE ~m.match /\ Splits(s, prefix)
  <2> DEFINE half == Append(prefix, 1)
             t == [s EXCEPT !.queue = Append(@, half)]
             a == Query(s, Append(prefix, 0))
  <2>1. step.session = t /\ step.reply = <<a>> /\ step.ends = FALSE /\ step.edits = EmptyBag
    BY <1>4 DEF OnResponse, Replies
  <2>2. /\ Append(prefix, 0) \in Prefix /\ Append(prefix, 1) \in Prefix
        /\ \A h \in Payload : Under(h, prefix) =>
               Under(h, Append(prefix, 0)) \/ Under(h, Append(prefix, 1))
    BY <1>1, <1>4, SplitFacts DEF Splits
  <2>3. IsAskOf(s, a) /\ a.prefix = Append(prefix, 0)
    <3> DEFINE first == Append(prefix, 0)
    <3>1. first \in Prefix /\ a = Query(s, first)
      BY <2>2
    <3> HIDE DEF first, a
    <3>2. IsAskOf(s, a) /\ a.prefix = first
      BY <3>1, AskFacts
    <3> QED
      BY <3>2 DEF first
  <2>4. /\ t.hashes = s.hashes /\ t.odd = s.odd /\ t.count = s.count /\ t.buffer = s.buffer
        /\ t.queue = Append(s.queue, half) /\ DOMAIN t = DOMAIN s
    BY DEF IsSession
  <2>5. s.queue \in Seq(Prefix)
    BY DEF IsSession
  <2> HIDE DEF step, t, a
  <2>6. t.queue \in Seq(Prefix) /\ OnWire(t.queue) = OnWire(s.queue) \cup {half}
    <3> HIDE DEF half
    <3>1. half \in Prefix
      BY <2>2 DEF half
    <3>2. Append(s.queue, half) \in Seq(Prefix)
      BY <2>5, <3>1, WireAppend
    <3>3. OnWire(Append(s.queue, half)) = OnWire(s.queue) \cup {half}
      BY <2>5, <3>1, WireAppend
    <3> QED
      BY <2>4, <3>2, <3>3
  <2>7. Keeps(s, t)
    BY <2>4, <2>6 DEF Keeps, IsSession
  <2>8. \A h : Queued(s, h) => Queued(t, h)
    BY <2>6 DEF Queued
  <2>9. ASSUME NEW h \in Payload, Brings(m, h)
        PROVE  Asks(a, h) \/ Queued(t, h)
    <3>1. Under(h, Append(prefix, 0)) \/ Under(h, Append(prefix, 1))
      BY <2>2, <2>9 DEF Brings
    <3> QED
      BY <3>1, <2>3, <2>6 DEF Asks, IsAskOf, Queued
  <2> QED
    BY <1>2, <2>1, <2>3, <2>4, <2>7, <2>8, <2>9 DEF GoesOn, AsksOn, Left, Received, step
<1>5. CASE ~m.match /\ ~Splits(s, prefix)
  <2> DEFINE a == [Query(s, prefix) EXCEPT !.type = "SET"]
  <2>1. step.session = s /\ step.reply = <<a>> /\ step.ends = FALSE /\ step.edits = EmptyBag
    BY <1>5 DEF OnResponse, Replies
  <2>2. IsAskOf(s, a) /\ a.prefix = prefix
    BY <1>1, AskFacts
  <2> HIDE DEF step, a
  <2>3. \A h : Brings(m, h) => Asks(a, h)
    BY <2>2 DEF Brings, Asks, IsAskOf
  <2>4. Keeps(s, s)
    BY DEF Keeps
  <2> QED
    BY <1>2, <2>1, <2>2, <2>3, <2>4 DEF GoesOn, AsksOn, Left, Received, step
<1> QED
  BY <1>1, <1>3, <1>4, <1>5

LEMMA BatchFacts ==
    ASSUME NEW s, IsSession(s), NEW m \in Message, m.type = "BATCH"
    PROVE  GoesOn(s, m, OnBatch(s, m))
<1> DEFINE step == OnBatch(s, m)
           t == [s EXCEPT !.buffer = @ (+) SetToBag(m.edits)]
<1>1. IsBagOf(EmptyBag, Payload) /\ BagToSet(EmptyBag) = {}
  BY EmptyBagFacts
<1>2. /\ t.hashes = s.hashes /\ t.odd = s.odd /\ t.count = s.count /\ t.queue = s.queue
      /\ t.buffer = s.buffer (+) SetToBag(m.edits) /\ DOMAIN t = DOMAIN s
  BY DEF IsSession
<1>3. step = Drain(t, t.buffer)
  BY DEF OnBatch
<1>4. m.edits \subseteq Payload /\ IsBagOf(s.buffer, Payload)
  BY MessageFacts DEF IsSession
<1> HIDE DEF step, t
<1>5. IsBagOf(t.buffer, Payload) /\ BagToSet(t.buffer) = BagToSet(s.buffer) \cup m.edits
  BY <1>2, <1>4, GrowFacts
<1>6. IsSession(t)
  BY <1>2, <1>5 DEF IsSession
<1>7. /\ Keeps(t, step.session)
      /\ step.session.buffer = t.buffer
      /\ step.ends \in BOOLEAN
      /\ step.edits = t.buffer \/ step.edits = EmptyBag
  BY <1>3, <1>6, DrainFacts
<1>8. \/ step.reply = <<>> /\ \A h : ~Queued(t, h)
      \/ \E a : /\ step.reply = <<a>> /\ IsAskOf(t, a)
                /\ \A h : Queued(t, h) => Asks(a, h) \/ Queued(step.session, h)
  BY <1>3, <1>6, DrainFacts
<1>9. /\ \A h : Queued(t, h) <=> Queued(s, h)
      /\ \A a : IsAskOf(t, a) <=> IsAskOf(s, a)
  BY <1>2 DEF Queued, IsAskOf
<1>10. Keeps(s, step.session)
  BY <1>2, <1>7 DEF Keeps
<1> QED
  BY <1>1, <1>5, <1>7, <1>8, <1>9, <1>10 DEF GoesOn, AsksOn, Left, Received, step

\* A START is answered with nothing, a snapshot, or the first question.
LEMMA StartFacts ==
    ASSUME NEW s, IsSession(s), NEW m, NEW snapshot
    PROVE  LET step == OnStart(s, m, snapshot)
           IN  /\ step.session = s
               /\ step.ends \in BOOLEAN
               /\ \/ step.reply = <<>> /\ m.odd = s.odd /\ m.count = s.count
                  \/ m.count = 0 /\ step.reply = <<[type |-> "FULL", snapshot |-> snapshot]>>
                  \/ \E a : step.reply = <<a>> /\ IsAskOf(s, a) /\ \A h : Asks(a, h)
<1> DEFINE step == OnStart(s, m, snapshot)
<1>1. CASE m.odd = s.odd /\ m.count = s.count
  BY <1>1 DEF OnStart, Ends
<1>2. CASE ~(m.odd = s.odd /\ m.count = s.count) /\ m.count = 0
  BY <1>2 DEF OnStart, Replies
<1>3. CASE ~(m.odd = s.odd /\ m.count = s.count) /\ m.count # 0
  <2> DEFINE a == Query(s, <<>>)
  <2>1. step.session = s /\ step.ends = FALSE /\ step.reply = <<a>>
    BY <1>3 DEF OnStart, Replies
  <2>2. IsAskOf(s, a) /\ a.prefix = <<>>
    BY PrefixFacts, AskFacts
  <2> HIDE DEF step, a
  <2>3. \A h : Asks(a, h)
    BY <2>2, PrefixFacts DEF Asks, IsAskOf
  <2> QED
    BY <2>1, <2>2, <2>3 DEF step
<1> QED
  BY <1>1, <1>2, <1>3

\* What is sent arrives unless the other end is closed.
LEMMA PostedFacts ==
    ASSUME TypeOK, NEW p \in Peer, NEW messages \in Seq(Message)
    PROVE  /\ Posted(p, messages) \in Seq(Message)
           /\ OnWire(wire[p]) \subseteq OnWire(Posted(p, messages))
           /\ OnWire(Posted(p, messages)) \subseteq OnWire(wire[p]) \cup OnWire(messages)
           /\ link[Other(p)] # "closed" =>
                  OnWire(Posted(p, messages)) = OnWire(wire[p]) \cup OnWire(messages)
           /\ link[Other(p)] = "closed" => Posted(p, messages) = wire[p]
<1>1. wire[p] \in Seq(Message)
  BY DEF TypeOK
<1>2. /\ wire[p] \o messages \in Seq(Message)
      /\ OnWire(wire[p] \o messages) = OnWire(wire[p]) \cup OnWire(messages)
  BY <1>1, WireCat
<1> QED
  BY <1>1, <1>2 DEF Posted

----------------------------------------------------------------------------
(* What the parts of an action do, and type correctness.                   *)

LEMMA DomainFacts ==
    ASSUME TypeOK
    PROVE  /\ DOMAIN tree = Peer /\ DOMAIN coordinator = Peer /\ DOMAIN stamping = Peer
           /\ DOMAIN signing = Peer /\ DOMAIN verifying = Peer
BY DEF TypeOK

LEMMA SequenceFacts ==
    ASSUME NEW T
    PROVE  /\ <<>> \in Seq(T)
           /\ \A e \in T : <<e>> \in Seq(T)
OBVIOUS

LEMMA SendFacts ==
    ASSUME TypeOK, NEW p \in Peer, NEW messages \in Seq(Message), Send(p, messages)
    PROVE  /\ wire' \in [Peer -> Seq(Message)]
           /\ wire'[p] = Posted(p, messages)
           /\ wire'[Other(p)] = wire[Other(p)]
<1>1. Posted(p, messages) \in Seq(Message)
  BY PostedFacts
<1> QED
  BY <1>1, OtherFacts DEF TypeOK, Send

LEMMA RespondFacts ==
    ASSUME TypeOK, NEW p \in Peer, NEW messages \in Seq(Message), NEW type,
           Receives(p, type), Respond(p, messages)
    PROVE  /\ wire' \in [Peer -> Seq(Message)]
           /\ wire'[p] = Posted(p, messages)
           /\ wire'[Other(p)] = Tail(wire[Other(p)])
           /\ wire[Other(p)] \in Seq(Message) /\ wire[Other(p)] # <<>>
           /\ Arrived(p) \in Message /\ Arrived(p).type = type
           /\ Arrived(p) \in OnWire(wire[Other(p)])
<1>1. Posted(p, messages) \in Seq(Message)
  BY PostedFacts
<1>2. Other(p) \in Peer /\ Other(p) # p
  BY OtherFacts
<1>3. wire[Other(p)] \in Seq(Message) /\ wire[Other(p)] # <<>> /\ Arrived(p).type = type
  BY <1>2 DEF TypeOK, Receives
<1>4. /\ Tail(wire[Other(p)]) \in Seq(Message)
      /\ Arrived(p) \in Message /\ Arrived(p) \in OnWire(wire[Other(p)])
  BY <1>3, WireTail DEF Arrived
<1> QED
  BY <1>1, <1>2, <1>3, <1>4 DEF TypeOK, Respond

\* A step of the search, as far as the coordinator is concerned.
LEMMA AdvanceFacts ==
    ASSUME TypeOK, NEW p \in Peer, NEW step, IsSession(step.session), step.ends \in BOOLEAN,
           Advance(p, step)
    PROVE  LET c == coordinator[p]
               d == coordinator'[p]
           IN  /\ IsCoordinator(d) /\ DOMAIN coordinator' = Peer
               /\ d.in = step.session /\ d.searching
               /\ d.out = c.out /\ d.snapshot = c.snapshot
               /\ coordinator'[Other(p)] = coordinator[Other(p)]
               /\ Respond(p, step.reply)
<1> DEFINE c == coordinator[p]
           d == [[[c EXCEPT !.in = step.session] EXCEPT !.searching = TRUE]
                     EXCEPT !.done = @ \/ step.ends]
<1>1. IsCoordinator(c) /\ DOMAIN coordinator = Peer
  BY DomainFacts DEF TypeOK
<1>2. /\ d.in = step.session /\ d.searching = TRUE /\ d.done = (c.done \/ step.ends)
      /\ d.out = c.out /\ d.snapshot = c.snapshot /\ d.snapshotApplied = c.snapshotApplied
      /\ DOMAIN d = DOMAIN c
  BY <1>1 DEF IsCoordinator
<1>3. /\ coordinator' = [coordinator EXCEPT ![p] = d]
  BY <1>1 DEF Advance
<1> HIDE DEF d
<1>4. IsCoordinator(d)
  BY <1>1, <1>2 DEF IsCoordinator
<1>5. coordinator'[p] = d /\ coordinator'[Other(p)] = coordinator[Other(p)]
  BY <1>1, <1>3, OtherFacts
<1> QED
  BY <1>1, <1>2, <1>3, <1>4, <1>5 DEF Advance

LEMMA ReplyFacts ==
    ASSUME NEW s, NEW m, NEW step, GoesOn(s, m, step)
    PROVE  /\ IsSession(step.session) /\ step.ends \in BOOLEAN
           /\ step.reply \in Seq(Message)
<1>1. IsSession(step.session) /\ step.ends \in BOOLEAN
  BY DEF GoesOn, Keeps
<1>2. step.reply = <<>> \/ \E a \in Message : step.reply = <<a>>
  BY DEF GoesOn, AsksOn, IsAskOf
<1> QED
  BY <1>1, <1>2, SequenceFacts

LEMMA ReconcileFacts ==
    ASSUME TypeOK, HeldInv, NEW p \in Peer, Reconcile(p)
    PROVE  LET d == coordinator'[p]
               start == Start(d.out)
           IN  /\ IsCoordinator(d) /\ DOMAIN coordinator' = Peer
               /\ d = Started(tree[p])
               /\ d.out.hashes = Held(p) /\ d.in.hashes = {} /\ BagToSet(d.in.buffer) = {}
               /\ d.out.count = 0 => d.out.hashes = {}
               /\ ~d.searching
               /\ d.snapshot.kind = "snapshot" /\ d.snapshot.covers = Covered(Held(p))
               /\ coordinator'[Other(p)] = coordinator[Other(p)]
               /\ start \in Message /\ start.type = "START"
               /\ wire' \in [Peer -> Seq(Message)]
               /\ wire'[p] = Posted(p, <<start>>)
               /\ wire'[Other(p)] = wire[Other(p)]
<1> DEFINE d == Started(tree[p])
           start == Start(d.out)
<1>1. DOMAIN coordinator = Peer /\ IsBagOf(tree[p], Payload) /\ IsFiniteSet(Held(p))
  BY DomainFacts DEF TypeOK, HeldInv, Holds
<1>2. /\ IsCoordinator(d)
      /\ d.out.hashes = Held(p) /\ d.in.hashes = {} /\ BagToSet(d.in.buffer) = {}
      /\ d.out.count = 0 => d.out.hashes = {}
      /\ ~d.searching
      /\ d.snapshot.kind = "snapshot" /\ d.snapshot.covers = Covered(Held(p))
  BY <1>1, StartedFacts DEF Held
<1>3. coordinator' = [coordinator EXCEPT ![p] = d] /\ Send(p, <<start>>)
  BY DEF Reconcile
<1> HIDE DEF d
<1>4. coordinator'[p] = d /\ coordinator'[Other(p)] = coordinator[Other(p)]
  BY <1>1, <1>3, OtherFacts
<1>5. start \in Message /\ start.type = "START"
  BY <1>2 DEF Start, Message, IsCoordinator, IsSession
<1>6. /\ wire' \in [Peer -> Seq(Message)]
      /\ wire'[p] = Posted(p, <<start>>) /\ wire'[Other(p)] = wire[Other(p)]
  <2>1. <<start>> \in Seq(Message)
    BY <1>5
  <2> QED
    BY <1>3, <2>1, SendFacts
<1> QED
  BY <1>1, <1>2, <1>3, <1>4, <1>5, <1>6 DEF d

\* The tree grows by some payloads.
LEMMA TreeFacts ==
    ASSUME TypeOK, NEW p \in Peer, NEW payloads \in SUBSET Payload,
           tree' = [tree EXCEPT ![p] = @ (+) SetToBag(payloads)]
    PROVE  /\ DOMAIN tree' = Peer
           /\ \A q \in Peer : IsBagOf(tree'[q], Payload)
           /\ Held(p)' = Held(p) \cup payloads
           /\ Held(Other(p))' = Held(Other(p))
           /\ tree'[Other(p)] = tree[Other(p)]
<1>1. DOMAIN tree = Peer /\ \A q \in Peer : IsBagOf(tree[q], Payload)
  BY DomainFacts DEF TypeOK
<1>2. /\ IsBagOf(tree[p] (+) SetToBag(payloads), Payload)
      /\ BagToSet(tree[p] (+) SetToBag(payloads)) = BagToSet(tree[p]) \cup payloads
  BY <1>1, GrowFacts
<1>3. /\ tree'[p] = tree[p] (+) SetToBag(payloads)
      /\ \A q \in Peer : q # p => tree'[q] = tree[q]
      /\ DOMAIN tree' = Peer
  BY <1>1
<1>4. Other(p) \in Peer /\ Other(p) # p
  BY OtherFacts
<1> QED
  BY <1>1, <1>2, <1>3, <1>4 DEF Held

LEMMA ShownFacts ==
    ASSUME TypeOK, NEW p \in Peer, NEW payloads \in SUBSET Payload,
           shown' = [shown EXCEPT ![p] = @ \cup Covered(payloads)]
    PROVE  /\ shown' \in [Peer -> SUBSET Edit]
           /\ shown'[p] = shown[p] \cup Covered(payloads)
           /\ shown'[Other(p)] = shown[Other(p)]
<1>1. Covered(payloads) \subseteq Edit
  BY PayloadFacts
<1> QED
  BY <1>1, OtherFacts DEF TypeOK

LEMMA MoreFacts ==
    ASSUME NEW S, NEW B, IsBagOf(B, S), NEW x \in S
    PROVE  /\ IsBagOf(B (+) One(x), S)
           /\ BagToSet(B (+) One(x)) = BagToSet(B) \cup {x}
BY GrowFacts DEF One

\* A typed edit may enter the tree, and is then signed for an open channel.
LEMMA TypedFacts ==
    ASSUME TypeOK, NEW p \in Peer, NEW x \in Edit,
           AppendTyped(p, x) \/ UNCHANGED <<tree, signing>>
    PROVE  /\ DOMAIN tree' = Peer /\ DOMAIN signing' = Peer
           /\ \A q \in Peer : /\ IsBagOf(tree'[q], Payload)
                              /\ IsBagOf(signing'[q], SUBSET Payload)
                              /\ Held(q) \subseteq Held(q)'
                              /\ BagToSet(signing[q]) \subseteq BagToSet(signing'[q])
           /\ Held(p)' \subseteq Held(p) \cup {Typed(x)}
           /\ BagToSet(signing'[p]) = BagToSet(signing[p])
                \/ /\ BagToSet(signing'[p]) = BagToSet(signing[p]) \cup {{Typed(x)}}
                   /\ Typed(x) \in Held(p)'
           /\ tree'[Other(p)] = tree[Other(p)]
           /\ signing'[Other(p)] = signing[Other(p)]
           /\ AppendTyped(p, x) => Typed(x) \in Held(p)'
<1>1. /\ DOMAIN tree = Peer /\ DOMAIN signing = Peer
      /\ \A q \in Peer : IsBagOf(tree[q], Payload) /\ IsBagOf(signing[q], SUBSET Payload)
  BY DomainFacts DEF TypeOK
<1>2. Other(p) \in Peer /\ Other(p) # p /\ \A q \in Peer : q = p \/ q = Other(p)
  BY OtherFacts
<1>3. CASE AppendTyped(p, x)
  <2>1. Typed(x) \in Payload /\ {Typed(x)} \in SUBSET Payload
    BY PayloadFacts
  <2>2. tree' = [tree EXCEPT ![p] = @ (+) One(Typed(x))]
    BY <1>3 DEF AppendTyped
  <2>3. /\ DOMAIN tree' = Peer
        /\ \A q \in Peer : IsBagOf(tree'[q], Payload)
        /\ BagToSet(tree'[p]) = BagToSet(tree[p]) \cup {Typed(x)}
        /\ tree'[Other(p)] = tree[Other(p)]
    <3>1. /\ IsBagOf(tree[p] (+) One(Typed(x)), Payload)
          /\ BagToSet(tree[p] (+) One(Typed(x))) = BagToSet(tree[p]) \cup {Typed(x)}
      BY <1>1, <2>1, MoreFacts
    <3> QED
      BY <1>1, <1>2, <2>2, <3>1
  <2>4. /\ DOMAIN signing' = Peer
        /\ \A q \in Peer : IsBagOf(signing'[q], SUBSET Payload)
        /\ \/ BagToSet(signing'[p]) = BagToSet(signing[p])
           \/ BagToSet(signing'[p]) = BagToSet(signing[p]) \cup {{Typed(x)}}
        /\ signing'[Other(p)] = signing[Other(p)]
    <3>1. CASE link[p] = "open"
      <4>1. signing' = [signing EXCEPT ![p] = @ (+) One({Typed(x)})]
        BY <1>3, <3>1 DEF AppendTyped
      <4>2. /\ IsBagOf(signing[p] (+) One({Typed(x)}), SUBSET Payload)
            /\ BagToSet(signing[p] (+) One({Typed(x)})) = BagToSet(signing[p]) \cup {{Typed(x)}}
        <5> DEFINE S == SUBSET Payload
                   batch == {Typed(x)}
        <5>1. IsBagOf(signing[p], S) /\ batch \in S
          BY <1>1, <2>1
        <5> HIDE DEF S, batch
        <5>2. /\ IsBagOf(signing[p] (+) One(batch), S)
              /\ BagToSet(signing[p] (+) One(batch)) = BagToSet(signing[p]) \cup {batch}
          BY <5>1, MoreFacts
        <5> QED
          BY <5>2 DEF S, batch
      <4> QED
        BY <4>1, <4>2, <1>1, <1>2
    <3>2. CASE link[p] # "open"
      <4>1. signing' = [signing EXCEPT ![p] = @]
        BY <1>3, <3>2 DEF AppendTyped
      <4>2. DOMAIN signing' = Peer /\ \A q \in Peer : signing'[q] = signing[q]
        BY <4>1, <1>1
      <4> QED
        BY <4>2, <1>1, <1>2
    <3> QED
      BY <3>1, <3>2
  <2> QED
    BY <1>2, <2>3, <2>4 DEF Held
<1>4. CASE UNCHANGED <<tree, signing>> /\ ~AppendTyped(p, x)
  BY <1>1, <1>4 DEF Held
<1> QED
  BY <1>3, <1>4

LEMMA TypeTyping ==
    ASSUME TypeOK, NEW p \in Peer, NEW x \in Edit, Type(p, x)
    PROVE  TypeOK'
<1>1. /\ DOMAIN tree' = Peer /\ DOMAIN signing' = Peer
      /\ \A q \in Peer : IsBagOf(tree'[q], Payload) /\ IsBagOf(signing'[q], SUBSET Payload)
  BY TypedFacts DEF Type
<1>2. DOMAIN stamping' = Peer /\ \A q \in Peer : IsBagOf(stamping'[q], Edit)
  <2>1. IsBagOf(stamping[p] (+) One(x), Edit)
    BY MoreFacts DEF TypeOK
  <2> QED
    BY <2>1, DomainFacts DEF Type, TypeOK
<1> QED
  BY <1>1, <1>2 DEF Type, TypeOK

LEMMA TypeStamped ==
    ASSUME TypeOK, NEW p \in Peer, Stamped(p)
    PROVE  TypeOK'
<1>1. PICK x \in BagToSet(stamping[p]) :
        /\ stamping' = [stamping EXCEPT ![p] = @ (-) One(x)]
        /\ AppendTyped(p, x)
        /\ UNCHANGED <<shown, link, coordinator, wire, verifying, timer, connections>>
  BY DEF Stamped
<1>2. x \in Edit
  BY DEF TypeOK, IsBagOf
<1>3. /\ DOMAIN tree' = Peer /\ DOMAIN signing' = Peer
      /\ \A q \in Peer : IsBagOf(tree'[q], Payload) /\ IsBagOf(signing'[q], SUBSET Payload)
  BY <1>1, <1>2, TypedFacts
<1>4. DOMAIN stamping' = Peer /\ \A q \in Peer : IsBagOf(stamping'[q], Edit)
  <2>1. IsBagOf(stamping[p] (-) One(x), Edit)
    BY TakeFacts DEF TypeOK
  <2> QED
    BY <1>1, <2>1, DomainFacts DEF TypeOK
<1> QED
  BY <1>1, <1>3, <1>4 DEF TypeOK

LEMMA TypeTimer ==
    ASSUME TypeOK, HeldInv, NEW p \in Peer, TimerFires(p)
    PROVE  TypeOK'
<1>1. CASE link[p] = "open"
  <2>1. /\ IsCoordinator(coordinator'[p]) /\ DOMAIN coordinator' = Peer
        /\ coordinator'[Other(p)] = coordinator[Other(p)]
        /\ wire' \in [Peer -> Seq(Message)]
    BY <1>1, ReconcileFacts DEF TimerFires
  <2> QED
    BY <2>1, OtherFacts DEF TimerFires, TypeOK
<1>2. CASE link[p] # "open"
  BY <1>2 DEF TimerFires, TypeOK
<1> QED
  BY <1>1, <1>2

LEMMA TypeOpen ==
    ASSUME TypeOK, HeldInv, NEW p \in Peer, Open(p)
    PROVE  TypeOK'
<1>1. /\ IsCoordinator(coordinator'[p]) /\ DOMAIN coordinator' = Peer
      /\ coordinator'[Other(p)] = coordinator[Other(p)]
      /\ wire' \in [Peer -> Seq(Message)]
  BY ReconcileFacts DEF Open
<1> QED
  BY <1>1, OtherFacts DEF Open, TypeOK

LEMMA TypeConnect ==
    ASSUME TypeOK, Connect
    PROVE  TypeOK'
<1>1. wire' \in [Peer -> Seq(Message)]
  BY SequenceFacts DEF Connect
<1>2. connections' \in 0 .. MaxConnections
  BY BoundAssumption DEF Connect, TypeOK
<1>3. link' \in [Peer -> {"closed", "connecting", "open"}]
  BY DEF Connect
<1> QED
  BY <1>1, <1>2, <1>3 DEF Connect, TypeOK

LEMMA TypeClose ==
    ASSUME TypeOK, NEW p \in Peer, Close(p)
    PROVE  TypeOK'
<1>1. IsBagOf(EmptyBag, SUBSET Payload) /\ IsCoordinator(NoCoordinator)
  BY EmptyBagFacts, NoCoordinatorFacts
<1>2. DOMAIN coordinator' = Peer /\ \A q \in Peer : IsCoordinator(coordinator'[q])
  BY <1>1, DomainFacts DEF Close, TypeOK
<1>3. DOMAIN signing' = Peer /\ \A q \in Peer : IsBagOf(signing'[q], SUBSET Payload)
  BY <1>1, DomainFacts DEF Close, TypeOK
<1>4. wire' \in [Peer -> Seq(Message)]
  BY SequenceFacts DEF Close, TypeOK
<1>5. link' \in [Peer -> {"closed", "connecting", "open"}]
  BY DEF Close, TypeOK
<1> QED
  BY <1>2, <1>3, <1>4, <1>5 DEF Close, TypeOK

\* A signed batch is sent.
LEMMA SignedFacts ==
    ASSUME TypeOK, NEW p \in Peer, Signed(p)
    PROVE  \E edits \in BagToSet(signing[p]) : LET m == [type |-> "BATCH", edits |-> edits] IN
               /\ m \in Message
               /\ DOMAIN signing' = Peer
               /\ \A q \in Peer : IsBagOf(signing'[q], SUBSET Payload)
               /\ BagToSet(signing'[p]) \subseteq BagToSet(signing[p])
               /\ BagToSet(signing[p]) \ {edits} \subseteq BagToSet(signing'[p])
               /\ signing'[Other(p)] = signing[Other(p)]
               /\ wire' \in [Peer -> Seq(Message)]
               /\ wire'[p] = Posted(p, <<m>>)
               /\ wire'[Other(p)] = wire[Other(p)]
               /\ UNCHANGED <<tree, shown, link, coordinator, stamping, verifying, timer, connections>>
<1>1. PICK edits \in BagToSet(signing[p]) :
        /\ signing' = [signing EXCEPT ![p] = @ (-) One(edits)]
        /\ Send(p, <<[type |-> "BATCH", edits |-> edits]>>)
        /\ UNCHANGED <<tree, shown, link, coordinator, stamping, verifying, timer, connections>>
  BY DEF Signed
<1> DEFINE m == [type |-> "BATCH", edits |-> edits]
<1>2. edits \in SUBSET Payload
  BY DEF TypeOK, IsBagOf
<1>3. m \in Message
  BY <1>2 DEF Message
<1>4. <<m>> \in Seq(Message)
  BY <1>3
<1>5. /\ wire' \in [Peer -> Seq(Message)]
      /\ wire'[p] = Posted(p, <<m>>) /\ wire'[Other(p)] = wire[Other(p)]
  BY <1>1, <1>4, SendFacts
<1>6. DOMAIN signing = Peer /\ \A q \in Peer : IsBagOf(signing[q], SUBSET Payload)
  BY DomainFacts DEF TypeOK
<1>7. Other(p) \in Peer /\ Other(p) # p
  BY OtherFacts
<1>8. /\ DOMAIN signing' = Peer
      /\ \A q \in Peer : IsBagOf(signing'[q], SUBSET Payload)
      /\ BagToSet(signing'[p]) \subseteq BagToSet(signing[p])
      /\ BagToSet(signing[p]) \ {edits} \subseteq BagToSet(signing'[p])
      /\ signing'[Other(p)] = signing[Other(p)]
  <2>1. /\ IsBagOf(signing[p] (-) One(edits), SUBSET Payload)
        /\ BagToSet(signing[p] (-) One(edits)) \subseteq BagToSet(signing[p])
        /\ BagToSet(signing[p]) \ {edits} \subseteq BagToSet(signing[p] (-) One(edits))
    BY <1>6, TakeFacts
  <2>2. signing'[p] = signing[p] (-) One(edits)
    BY <1>1, <1>6
  <2> QED
    BY <1>1, <1>6, <1>7, <2>1, <2>2
<1> HIDE DEF m
<1> QED
  BY <1>1, <1>3, <1>5, <1>8 DEF m

LEMMA TypeSigned ==
    ASSUME TypeOK, NEW p \in Peer, Signed(p)
    PROVE  TypeOK'
BY SignedFacts DEF TypeOK

LEMMA AppendedFacts ==
    ASSUME TypeOK, NEW p \in Peer, NEW payloads \in SUBSET Payload, Appended(p, payloads)
    PROVE  /\ DOMAIN tree' = Peer
           /\ \A q \in Peer : IsBagOf(tree'[q], Payload)
           /\ Held(p)' = Held(p) \cup payloads
           /\ Held(Other(p))' = Held(Other(p))
           /\ tree'[Other(p)] = tree[Other(p)]
           /\ shown' \in [Peer -> SUBSET Edit]
           /\ shown'[p] = shown[p] \cup Covered(payloads)
           /\ shown'[Other(p)] = shown[Other(p)]
BY TreeFacts, ShownFacts DEF Appended

LEMMA VerifiedFacts ==
    ASSUME TypeOK, NEW p \in Peer, Verified(p)
    PROVE  \E h \in BagToSet(verifying[p]) :
               /\ h \in Payload
               /\ DOMAIN verifying' = Peer
               /\ \A q \in Peer : IsBagOf(verifying'[q], Payload)
               /\ BagToSet(verifying'[p]) \subseteq BagToSet(verifying[p])
               /\ verifying'[Other(p)] = verifying[Other(p)]
               /\ Appended(p, {h})
               /\ UNCHANGED <<link, coordinator, wire, stamping, signing, timer, connections>>
<1>1. PICK h \in BagToSet(verifying[p]) :
        /\ verifying' = [verifying EXCEPT ![p] = @ (-) One(h)]
        /\ Appended(p, {h})
        /\ UNCHANGED <<link, coordinator, wire, stamping, signing, timer, connections>>
  BY DEF Verified
<1>2. h \in Payload
  BY DEF TypeOK, IsBagOf
<1>3. DOMAIN verifying = Peer /\ \A q \in Peer : IsBagOf(verifying[q], Payload)
  BY DomainFacts DEF TypeOK
<1>4. Other(p) \in Peer /\ Other(p) # p
  BY OtherFacts
<1>5. /\ DOMAIN verifying' = Peer
      /\ \A q \in Peer : IsBagOf(verifying'[q], Payload)
      /\ BagToSet(verifying'[p]) \subseteq BagToSet(verifying[p])
      /\ verifying'[Other(p)] = verifying[Other(p)]
  <2>1. /\ IsBagOf(verifying[p] (-) One(h), Payload)
        /\ BagToSet(verifying[p] (-) One(h)) \subseteq BagToSet(verifying[p])
    BY <1>3, TakeFacts
  <2>2. verifying'[p] = verifying[p] (-) One(h)
    BY <1>1, <1>3
  <2> QED
    BY <1>1, <1>3, <1>4, <2>1, <2>2
<1> QED
  BY <1>1, <1>2, <1>5

LEMMA TypeVerified ==
    ASSUME TypeOK, NEW p \in Peer, Verified(p)
    PROVE  TypeOK'
<1>1. PICK h \in BagToSet(verifying[p]) :
        /\ {h} \in SUBSET Payload
        /\ DOMAIN verifying' = Peer
        /\ \A q \in Peer : IsBagOf(verifying'[q], Payload)
        /\ Appended(p, {h})
        /\ UNCHANGED <<link, coordinator, wire, stamping, signing, timer, connections>>
  BY VerifiedFacts
<1>2. /\ DOMAIN tree' = Peer /\ \A q \in Peer : IsBagOf(tree'[q], Payload)
      /\ shown' \in [Peer -> SUBSET Edit]
  BY <1>1, AppendedFacts
<1> QED
  BY <1>1, <1>2 DEF TypeOK

LEMMA SearchFacts ==
    ASSUME TypeOK, NEW p \in Peer
    PROVE  /\ IsCoordinator(coordinator[p])
           /\ IsSession(coordinator[p].in) /\ IsSession(coordinator[p].out)
           /\ coordinator[p].snapshot \in Payload
BY DEF TypeOK, IsCoordinator

\* The search takes an answer, or there is none and the answer is ignored.
LEMMA AnsweredFacts ==
    ASSUME TypeOK, NEW p \in Peer, NEW m, NEW step,
           coordinator[p].searching => GoesOn(coordinator[p].in, m, step) /\ Advance(p, step),
           ~coordinator[p].searching => Ignore(p)
    PROVE  Answered(p, m)
<1> DEFINE c == coordinator[p]
<1>1. CASE c.searching
  <2>1. GoesOn(c.in, m, step) /\ Advance(p, step)
    BY <1>1
  <2>2. /\ IsSession(step.session) /\ step.ends \in BOOLEAN
        /\ step.reply \in Seq(Message)
    BY <2>1, ReplyFacts
  <2>3. LET d == coordinator'[p]
        IN  /\ IsCoordinator(d) /\ DOMAIN coordinator' = Peer
            /\ d.in = step.session /\ d.searching
            /\ d.out = c.out /\ d.snapshot = c.snapshot
            /\ coordinator'[Other(p)] = coordinator[Other(p)]
            /\ Respond(p, step.reply)
    BY <2>1, <2>2, AdvanceFacts
  <2>4. coordinator'[p].searching = c.searching
    BY <1>1, <2>3, SearchFacts DEF IsCoordinator
  <2>5. /\ Keeps(c.in, step.session) /\ BagToSet(step.session.buffer) \subseteq Received(c.in, m)
        /\ AsksOn(c.in, m, step.session, step.reply)
    BY <2>1 DEF GoesOn
  <2>6. step.reply = <<>> \/ \E a : step.reply = <<a>> /\ IsAskOf(c.in, a)
    BY <2>5 DEF AsksOn
  <2> QED
    BY <2>2, <2>3, <2>4, <2>5, <2>6 DEF Answered
<1>2. CASE ~c.searching
  <2>1. coordinator' = coordinator /\ Respond(p, <<>>) /\ <<>> \in Seq(Message)
    BY <1>2, SequenceFacts DEF Ignore
  <2>2. IsCoordinator(c) /\ IsSession(c.in) /\ DOMAIN coordinator = Peer
    BY SearchFacts, DomainFacts
  <2> QED
    BY <1>2, <2>1, <2>2 DEF Answered, Keeps, Received
<1> QED
  BY <1>1, <1>2

LEMMA ResponseAnswered ==
    ASSUME TypeOK, NEW p \in Peer, ReceiveResponse(p)
    PROVE  /\ Answered(p, Arrived(p)) /\ Receives(p, "RESPONSE")
           /\ Arrived(p) \in Message /\ Arrived(p).type = "RESPONSE"
<1>1. Receives(p, "RESPONSE") /\ Other(p) \in Peer
  BY OtherFacts DEF ReceiveResponse
<1>2. Arrived(p) \in Message /\ Arrived(p).type = "RESPONSE"
  BY <1>1, WireTail DEF Receives, Arrived, TypeOK
<1>3. GoesOn(coordinator[p].in, Arrived(p), OnResponse(coordinator[p].in, Arrived(p)))
  BY <1>2, SearchFacts, ResponseFacts
<1>4. Answered(p, Arrived(p))
  BY <1>3, AnsweredFacts DEF ReceiveResponse
<1> QED
  BY <1>1, <1>2, <1>4

LEMMA BatchAnswered ==
    ASSUME TypeOK, NEW p \in Peer, ReceiveBatch(p)
    PROVE  /\ Answered(p, Arrived(p)) /\ Receives(p, "BATCH")
           /\ Arrived(p) \in Message /\ Arrived(p).type = "BATCH"
           /\ Arrived(p).edits \in SUBSET Payload
           /\ Appended(p, Arrived(p).edits)
           /\ DOMAIN verifying' = Peer
           /\ \A q \in Peer : IsBagOf(verifying'[q], Payload)
           /\ BagToSet(verifying'[p]) \subseteq
                  BagToSet(verifying[p]) \cup BagToSet(coordinator[p].in.buffer) \cup Arrived(p).edits
           /\ verifying'[Other(p)] = verifying[Other(p)]
<1> DEFINE c == coordinator[p]
           m == Arrived(p)
           step == OnBatch(c.in, m)
<1>1. Receives(p, "BATCH") /\ Other(p) \in Peer /\ Other(p) # p
  BY OtherFacts DEF ReceiveBatch
<1>2. m \in Message /\ m.type = "BATCH"
  BY <1>1, WireTail DEF Receives, Arrived, TypeOK
<1>3. m.edits \in SUBSET Payload
  BY <1>2, MessageFacts
<1>4. GoesOn(c.in, m, step)
  BY <1>2, SearchFacts, BatchFacts
<1>5. Answered(p, m)
  BY <1>4, AnsweredFacts DEF ReceiveBatch
<1>6. DOMAIN verifying = Peer /\ \A q \in Peer : IsBagOf(verifying[q], Payload)
  BY DomainFacts DEF TypeOK
<1>7. /\ IsBagOf(step.edits, Payload)
      /\ BagToSet(step.edits) \subseteq BagToSet(c.in.buffer) \cup m.edits
  BY <1>2, <1>4 DEF GoesOn, Received
<1> DEFINE missing == Missing(p, step.edits)
<1> HIDE DEF step
<1>8. IsBagOf(missing, Payload) /\ BagToSet(missing) \subseteq BagToSet(step.edits)
  BY <1>7 DEF Missing, IsBagOf, IsABag, BagToSet
<1> HIDE DEF missing
<1>9. /\ IsBagOf(verifying[p] (+) missing, Payload)
      /\ BagToSet(verifying[p] (+) missing) = BagToSet(verifying[p]) \cup BagToSet(missing)
  BY <1>6, <1>8, AddFacts
<1>10. \/ verifying' = [verifying EXCEPT ![p] = @ (+) missing]
       \/ verifying' = [verifying EXCEPT ![p] = @]
       \/ verifying' = verifying
  BY DEF ReceiveBatch, step, missing
<1>11. /\ DOMAIN verifying' = Peer
       /\ verifying'[p] = verifying[p] (+) missing \/ verifying'[p] = verifying[p]
       /\ \A q \in Peer : q # p => verifying'[q] = verifying[q]
  BY <1>6, <1>10
<1>12. Appended(p, m.edits)
  BY DEF ReceiveBatch, HandleLive
<1> QED
  BY <1>1, <1>2, <1>3, <1>5, <1>6, <1>7, <1>8, <1>9, <1>11, <1>12

\* A new search looks for what the tree has not; an old one goes on.
LEMMA ReceiveStartFacts ==
    ASSUME TypeOK, HeldInv, NEW p \in Peer, ReceiveStart(p)
    PROVE  LET c == coordinator[p]
               d == coordinator'[p]
               s == d.in
               m == Arrived(p)
               full == [type |-> "FULL", snapshot |-> c.snapshot]
           IN  /\ Receives(p, "START")
               /\ IsCoordinator(d) /\ DOMAIN coordinator' = Peer
               /\ coordinator'[Other(p)] = coordinator[Other(p)]
               /\ d.out = c.out /\ d.snapshot = c.snapshot /\ d.searching
               /\ s.hashes \subseteq Held(p) /\ BagToSet(s.buffer) \subseteq Held(p)
               /\ full \in Message
               /\ \E reply \in Seq(Message) :
                      /\ Respond(p, reply)
                      /\ \/ reply = <<>> /\ m.odd = s.odd /\ m.count = s.count
                         \/ reply = <<full>> /\ m.count = 0
                         \/ \E a : reply = <<a>> /\ IsAskOf(s, a) /\ \A h : Asks(a, h)
<1> DEFINE c == coordinator[p]
           m == Arrived(p)
           s == IF c.searching THEN c.in ELSE NewSession(tree[p])
           step == OnStart(s, m, c.snapshot)
           full == [type |-> "FULL", snapshot |-> c.snapshot]
<1>1. Receives(p, "START")
  BY DEF ReceiveStart
<1>2. /\ IsSession(c.in) /\ c.snapshot \in Payload
      /\ c.in.hashes \subseteq Held(p) /\ BagToSet(c.in.buffer) \subseteq Held(p)
      /\ IsBagOf(tree[p], Payload) /\ IsFiniteSet(Held(p))
  BY SearchFacts DEF HeldInv, Holds, TypeOK
<1>3. IsSession(s) /\ s.hashes \subseteq Held(p) /\ BagToSet(s.buffer) \subseteq Held(p)
  BY <1>2, NewSessionFacts DEF Held
<1> HIDE DEF s
<1>4. /\ step.session = s /\ step.ends \in BOOLEAN
      /\ \/ step.reply = <<>> /\ m.odd = s.odd /\ m.count = s.count
         \/ m.count = 0 /\ step.reply = <<full>>
         \/ \E a : step.reply = <<a>> /\ IsAskOf(s, a) /\ \A h : Asks(a, h)
  <2> DEFINE snapshot == c.snapshot
  <2>1. full = [type |-> "FULL", snapshot |-> snapshot] /\ step = OnStart(s, m, snapshot)
    OBVIOUS
  <2> HIDE DEF full, step, m, snapshot
  <2> QED
    BY <1>3, <2>1, StartFacts
<1>5. full \in Message
  BY <1>2 DEF Message
<1> HIDE DEF full
<1>6. step.reply \in Seq(Message)
  BY <1>4, <1>5, SequenceFacts DEF IsAskOf
<1>7. Advance(p, step)
  BY DEF ReceiveStart, s
<1> HIDE DEF step
<1>8. LET d == coordinator'[p]
      IN  /\ IsCoordinator(d) /\ DOMAIN coordinator' = Peer
          /\ d.in = step.session /\ d.searching
          /\ d.out = c.out /\ d.snapshot = c.snapshot
          /\ coordinator'[Other(p)] = coordinator[Other(p)]
          /\ Respond(p, step.reply)
  BY <1>3, <1>4, <1>7, AdvanceFacts
<1>9. \E reply \in Seq(Message) :
          /\ Respond(p, reply)
          /\ \/ reply = <<>> /\ m.odd = s.odd /\ m.count = s.count
             \/ reply = <<full>> /\ m.count = 0
             \/ \E a : reply = <<a>> /\ IsAskOf(s, a) /\ \A h : Asks(a, h)
  <2> WITNESS step.reply \in Seq(Message)
  <2> QED
    BY <1>4, <1>8
<1> QED
  BY <1>1, <1>3, <1>4, <1>5, <1>8, <1>9 DEF full

LEMMA ReceiveQueryFacts ==
    ASSUME TypeOK, NEW p \in Peer, ReceiveQuery(p)
    PROVE  LET m == Arrived(p)
               r == [type   |-> "RESPONSE",
                     prefix |-> m.prefix,
                     match  |-> Subtree(coordinator[p].out.hashes, m.prefix) = m.hashes]
           IN  /\ Receives(p, "QUERY")
               /\ r \in Message /\ Respond(p, <<r>>) /\ <<r>> \in Seq(Message)
<1> DEFINE m == Arrived(p)
           r == [type   |-> "RESPONSE",
                 prefix |-> m.prefix,
                 match  |-> Subtree(coordinator[p].out.hashes, m.prefix) = m.hashes]
<1>1. Receives(p, "QUERY") /\ Other(p) \in Peer
  BY OtherFacts DEF ReceiveQuery
<1>2. m \in Message /\ m.type = "QUERY"
  BY <1>1, WireTail DEF Receives, Arrived, TypeOK
<1>3. m.prefix \in Prefix
  BY <1>2, MessageFacts DEF IsAsk
<1>4. r \in Message
  BY <1>3 DEF Message
<1>5. Respond(p, <<r>>)
  BY DEF ReceiveQuery, OnQuery, Replies
<1> QED
  BY <1>1, <1>4, <1>5, SequenceFacts

LEMMA ReceiveSetFacts ==
    ASSUME TypeOK, NEW p \in Peer, ReceiveSet(p)
    PROVE  LET m == Arrived(p)
               edits == Subtree(coordinator[p].out.hashes, m.prefix) \ m.hashes
           IN  /\ Receives(p, "SET")
               /\ Respond(p, <<>>) /\ <<>> \in Seq(Message)
               /\ DOMAIN signing' = Peer
               /\ \A q \in Peer : IsBagOf(signing'[q], SUBSET Payload)
               /\ BagToSet(signing'[p]) = BagToSet(signing[p]) \cup {edits}
               /\ signing'[Other(p)] = signing[Other(p)]
<1> DEFINE m == Arrived(p)
           edits == Subtree(coordinator[p].out.hashes, m.prefix) \ m.hashes
           S == SUBSET Payload
<1>1. Receives(p, "SET") /\ Respond(p, <<>>) /\ <<>> \in Seq(Message)
  BY SequenceFacts DEF ReceiveSet
<1>2. edits \in S
  BY SearchFacts, SubtreeFacts DEF IsSession
<1>3. DOMAIN signing = Peer /\ \A q \in Peer : IsBagOf(signing[q], S)
  BY DomainFacts DEF TypeOK
<1>4. signing' = [signing EXCEPT ![p] = @ (+) One(edits)]
  <2> DEFINE batch == [type |-> "BATCH", edits |-> edits]
             reply == OnSet(coordinator[p].out, m).reply
  <2>1. reply = <<batch>>
    BY DEF OnSet, Replies
  <2>2. Head(reply) = batch
    BY <2>1
  <2>3. signing' = [signing EXCEPT ![p] = @ (+) One(Head(reply).edits)]
    BY DEF ReceiveSet
  <2> HIDE DEF reply, edits
  <2>4. Head(reply).edits = edits
    BY <2>2
  <2> QED
    BY <2>3, <2>4
<1> HIDE DEF edits, S
<1>5. /\ IsBagOf(signing[p] (+) One(edits), S)
      /\ BagToSet(signing[p] (+) One(edits)) = BagToSet(signing[p]) \cup {edits}
  BY <1>2, <1>3, MoreFacts
<1>6. Other(p) \in Peer /\ Other(p) # p
  BY OtherFacts
<1> QED
  BY <1>1, <1>3, <1>4, <1>5, <1>6 DEF edits, S

LEMMA ReceiveFullFacts ==
    ASSUME TypeOK, NEW p \in Peer, ReceiveFull(p)
    PROVE  LET c == coordinator[p]
               d == coordinator'[p]
               m == Arrived(p)
           IN  /\ Receives(p, "FULL")
               /\ Respond(p, <<>>) /\ <<>> \in Seq(Message)
               /\ m.snapshot \in Payload
               /\ IsCoordinator(d) /\ DOMAIN coordinator' = Peer
               /\ coordinator'[Other(p)] = coordinator[Other(p)]
               /\ d.out = c.out /\ d.in = c.in /\ d.snapshot = c.snapshot /\ d.searching = c.searching
               /\ DOMAIN tree' = Peer
               /\ \A q \in Peer : IsBagOf(tree'[q], Payload)
               /\ Held(p)' = Held(p) \/ Held(p)' = Held(p) \cup {m.snapshot}
               /\ tree'[Other(p)] = tree[Other(p)]
<1> DEFINE c == coordinator[p]
           m == Arrived(p)
           d == [[c EXCEPT !.done = TRUE] EXCEPT !.snapshotApplied = TRUE]
<1>1. Receives(p, "FULL") /\ Other(p) \in Peer /\ Other(p) # p
  BY OtherFacts DEF ReceiveFull
<1>2. m \in Message /\ m.type = "FULL"
  BY <1>1, WireTail DEF Receives, Arrived, TypeOK
<1>3. m.snapshot \in Payload
  BY <1>2, MessageFacts
<1>4. Respond(p, <<>>) /\ <<>> \in Seq(Message)
  BY SequenceFacts DEF ReceiveFull
<1>5. /\ IsCoordinator(c) /\ DOMAIN coordinator = Peer
      /\ DOMAIN tree = Peer /\ \A q \in Peer : IsBagOf(tree[q], Payload)
  BY DomainFacts DEF TypeOK
<1>6. /\ d.out = c.out /\ d.in = c.in /\ d.snapshot = c.snapshot /\ d.searching = c.searching
      /\ d.done = TRUE /\ d.snapshotApplied = TRUE /\ DOMAIN d = DOMAIN c
  BY <1>5 DEF IsCoordinator
<1>7. coordinator' = coordinator \/ coordinator' = [coordinator EXCEPT ![p] = d]
  BY <1>5 DEF ReceiveFull
<1> HIDE DEF d
<1>8. IsCoordinator(d)
  BY <1>5, <1>6 DEF IsCoordinator
<1>9. \/ tree' = tree
      \/ tree' = [tree EXCEPT ![p] = @ (+) One(m.snapshot)]
  BY DEF ReceiveFull
<1>10. /\ IsBagOf(tree[p] (+) One(m.snapshot), Payload)
       /\ BagToSet(tree[p] (+) One(m.snapshot)) = BagToSet(tree[p]) \cup {m.snapshot}
  BY <1>3, <1>5, MoreFacts
<1>11. /\ coordinator'[p] = c \/ coordinator'[p] = d
       /\ DOMAIN coordinator' = Peer
       /\ coordinator'[Other(p)] = coordinator[Other(p)]
  BY <1>1, <1>5, <1>7
<1>12. /\ DOMAIN tree' = Peer /\ tree'[Other(p)] = tree[Other(p)]
       /\ tree'[p] = tree[p] \/ tree'[p] = tree[p] (+) One(m.snapshot)
       /\ \A q \in Peer : q # p => tree'[q] = tree[q]
  BY <1>1, <1>5, <1>9
<1> QED
  BY <1>1, <1>3, <1>4, <1>5, <1>6, <1>8, <1>10, <1>11, <1>12 DEF Held

LEMMA TypeReceive ==
    ASSUME TypeOK, HeldInv, NEW p \in Peer, Receive(p)
    PROVE  TypeOK'
<1>1. Other(p) \in Peer /\ \A q \in Peer : q = p \/ q = Other(p)
  BY OtherFacts
<1>2. CASE ReceiveStart(p)
  <2>1. /\ IsCoordinator(coordinator'[p]) /\ DOMAIN coordinator' = Peer
        /\ coordinator'[Other(p)] = coordinator[Other(p)]
        /\ wire' \in [Peer -> Seq(Message)]
    BY <1>2, ReceiveStartFacts, RespondFacts
  <2> QED
    BY <1>1, <1>2, <2>1 DEF ReceiveStart, TypeOK
<1>3. CASE ReceiveQuery(p)
  <2>1. wire' \in [Peer -> Seq(Message)]
    BY <1>3, ReceiveQueryFacts, RespondFacts
  <2> QED
    BY <1>3, <2>1 DEF ReceiveQuery, TypeOK
<1>4. CASE ReceiveResponse(p)
  <2>1. Answered(p, Arrived(p)) /\ Receives(p, "RESPONSE")
    BY <1>4, ResponseAnswered
  <2>2. wire' \in [Peer -> Seq(Message)]
    BY <2>1, RespondFacts DEF Answered
  <2>3. DOMAIN coordinator' = Peer /\ \A q \in Peer : IsCoordinator(coordinator'[q])
    BY <1>1, <2>1, SearchFacts DEF Answered
  <2> QED
    BY <1>4, <2>2, <2>3 DEF ReceiveResponse, TypeOK
<1>5. CASE ReceiveSet(p)
  <2>1. /\ wire' \in [Peer -> Seq(Message)]
        /\ DOMAIN signing' = Peer /\ \A q \in Peer : IsBagOf(signing'[q], SUBSET Payload)
    BY <1>5, ReceiveSetFacts, RespondFacts
  <2> QED
    BY <1>5, <2>1 DEF ReceiveSet, TypeOK
<1>6. CASE ReceiveBatch(p)
  <2>1. /\ Answered(p, Arrived(p)) /\ Receives(p, "BATCH")
        /\ Arrived(p).edits \in SUBSET Payload
        /\ Appended(p, Arrived(p).edits)
        /\ DOMAIN verifying' = Peer
        /\ \A q \in Peer : IsBagOf(verifying'[q], Payload)
    BY <1>6, BatchAnswered
  <2>2. wire' \in [Peer -> Seq(Message)]
    BY <2>1, RespondFacts DEF Answered
  <2>3. DOMAIN coordinator' = Peer /\ \A q \in Peer : IsCoordinator(coordinator'[q])
    BY <1>1, <2>1, SearchFacts DEF Answered
  <2>4. /\ DOMAIN tree' = Peer /\ \A q \in Peer : IsBagOf(tree'[q], Payload)
        /\ shown' \in [Peer -> SUBSET Edit]
    BY <2>1, AppendedFacts
  <2> QED
    BY <1>6, <2>1, <2>2, <2>3, <2>4 DEF ReceiveBatch, TypeOK
<1>7. CASE ReceiveFull(p)
  <2>1. /\ wire' \in [Peer -> Seq(Message)]
        /\ DOMAIN coordinator' = Peer /\ IsCoordinator(coordinator'[p])
        /\ coordinator'[Other(p)] = coordinator[Other(p)]
        /\ DOMAIN tree' = Peer /\ \A q \in Peer : IsBagOf(tree'[q], Payload)
    BY <1>7, ReceiveFullFacts, RespondFacts
  <2>2. \A q \in Peer : IsCoordinator(coordinator'[q])
    BY <1>1, <2>1, SearchFacts
  <2> QED
    BY <1>7, <2>1, <2>2 DEF ReceiveFull, TypeOK
<1> QED
  BY <1>2, <1>3, <1>4, <1>5, <1>6, <1>7 DEF Receive

LEMMA TypeInit == Init => TypeOK
<1> SUFFICES ASSUME Init PROVE TypeOK
  OBVIOUS
<1>1. \A p \in Peer : DOMAIN tree = Peer /\ IsBagOf(tree[p], Payload)
  <2>1. \A p \in Peer : /\ DOMAIN tree = Peer /\ IsABag(tree[p])
                        /\ BagToSet(tree[p]) \subseteq {Typed(x) : x \in Edit}
    BY TreesAssumption DEF Init
  <2> QED
    BY <2>1, PayloadFacts DEF IsBagOf
<1>2. DOMAIN tree = Peer
  BY <1>1, PeerAssumption
<1>3. shown \in [Peer -> SUBSET Edit]
  BY <1>1, PayloadFacts DEF Init, IsBagOf, Held
<1>4. /\ IsBagOf(EmptyBag, Edit) /\ IsBagOf(EmptyBag, Payload) /\ IsBagOf(EmptyBag, SUBSET Payload)
      /\ IsCoordinator(NoCoordinator)
  BY EmptyBagFacts, NoCoordinatorFacts
<1>5. wire \in [Peer -> Seq(Message)]
  BY SequenceFacts DEF Init
<1> QED
  BY <1>1, <1>2, <1>3, <1>4, <1>5, BoundAssumption DEF Init, TypeOK

LEMMA TypeStep ==
    ASSUME TypeOK, HeldInv, [Next]_vars
    PROVE  TypeOK'
<1>1. CASE Connect
  BY <1>1, TypeConnect
<1>2. ASSUME NEW p \in Peer,
             \/ \E x \in Edit : Type(p, x)
             \/ Stamped(p) \/ TimerFires(p) \/ Open(p) \/ Close(p)
             \/ Signed(p) \/ Verified(p) \/ Receive(p)
      PROVE  TypeOK'
  BY <1>2, TypeTyping, TypeStamped, TypeTimer, TypeOpen, TypeClose, TypeSigned, TypeVerified,
     TypeReceive
<1>3. CASE UNCHANGED vars
  BY <1>3 DEF vars, TypeOK
<1> QED
  BY <1>1, <1>2, <1>3 DEF Next

----------------------------------------------------------------------------
(* Everything p refers to is in its tree.                                  *)

\* Nothing new at p, and what was on its way may have arrived.
LEMMA HoldsStill ==
    ASSUME NEW p \in Peer, Holds(p),
           tree'[p] = tree[p], coordinator'[p] = coordinator[p], signing'[p] = signing[p],
           verifying'[p] = verifying[p], OnWire(wire'[p]) \subseteq OnWire(wire[p])
    PROVE  Holds(p)'
BY DEF Holds, Held

LEMMA HeldTyped ==
    ASSUME TypeOK, HeldInv, NEW p \in Peer, NEW x \in Edit,
           AppendTyped(p, x) \/ UNCHANGED <<tree, signing>>,
           UNCHANGED <<coordinator, wire, verifying>>
    PROVE  HeldInv'
<1>1. Other(p) \in Peer /\ \A q \in Peer : q = p \/ q = Other(p)
  BY OtherFacts
<1>2. Holds(p) /\ Holds(Other(p))
  BY <1>1 DEF HeldInv
<1>3. IsFiniteSet(Held(p)')
  <2>1. IsFiniteSet(Held(p) \cup {Typed(x)})
    BY <1>2, FS_Singleton, FS_Union DEF Holds
  <2>2. Held(p)' \subseteq Held(p) \cup {Typed(x)}
    BY TypedFacts
  <2> QED
    BY <2>1, <2>2, FS_Subset
<1>4. /\ Held(p) \subseteq Held(p)'
      /\ \A edits \in BagToSet(signing'[p]) : edits \in BagToSet(signing[p]) \/ edits \subseteq Held(p)'
      /\ tree'[Other(p)] = tree[Other(p)] /\ signing'[Other(p)] = signing[Other(p)]
  BY TypedFacts
<1>5. Holds(p)'
  BY <1>2, <1>3, <1>4 DEF Holds
<1>6. Holds(Other(p))'
  BY <1>1, <1>2, <1>4, HoldsStill
<1> QED
  BY <1>1, <1>5, <1>6 DEF HeldInv

LEMMA HeldReconcile ==
    ASSUME TypeOK, HeldInv, NEW p \in Peer, Reconcile(p), UNCHANGED <<tree, signing, verifying>>
    PROVE  HeldInv'
<1>1. Other(p) \in Peer /\ \A q \in Peer : q = p \/ q = Other(p)
  BY OtherFacts
<1>2. Holds(p) /\ Holds(Other(p))
  BY <1>1 DEF HeldInv
<1> DEFINE d == coordinator'[p]
           start == Start(d.out)
<1>3. /\ d.out.hashes = Held(p) /\ d.in.hashes = {} /\ BagToSet(d.in.buffer) = {}
      /\ d.out.count = 0 => d.out.hashes = {}
      /\ coordinator'[Other(p)] = coordinator[Other(p)]
      /\ start \in Message /\ start.type = "START"
      /\ wire'[p] = Posted(p, <<start>>)
      /\ wire'[Other(p)] = wire[Other(p)]
  BY ReconcileFacts
<1> HIDE DEF start
<1>4. OnWire(wire'[p]) \subseteq OnWire(wire[p]) \cup {start}
  <2>1. <<start>> \in Seq(Message) /\ OnWire(<<start>>) = {start}
    BY <1>3, SequenceFacts, WireOne
  <2> QED
    BY <1>3, <2>1, PostedFacts
<1>5. Held(p)' = Held(p) /\ Held(Other(p))' = Held(Other(p))
  BY DEF Held
<1>6. ~IsAsk(start) /\ start.type # "BATCH"
  BY <1>3 DEF IsAsk
<1>7. Holds(p)'
  BY <1>2, <1>3, <1>4, <1>5, <1>6 DEF Holds
<1>8. Holds(Other(p))'
  BY <1>1, <1>2, <1>3, HoldsStill
<1> QED
  BY <1>1, <1>7, <1>8 DEF HeldInv

LEMMA HeldConnect ==
    ASSUME HeldInv, Connect
    PROVE  HeldInv'
BY WireEmpty DEF HeldInv, Holds, Held, Connect

LEMMA HeldClose ==
    ASSUME TypeOK, HeldInv, NEW p \in Peer, Close(p)
    PROVE  HeldInv'
<1>1. Other(p) \in Peer /\ Other(p) # p /\ \A q \in Peer : q = p \/ q = Other(p)
  BY OtherFacts
<1>2. Holds(p) /\ Holds(Other(p))
  BY <1>1 DEF HeldInv
<1>3. /\ coordinator'[p] = NoCoordinator /\ coordinator'[Other(p)] = coordinator[Other(p)]
      /\ signing'[p] = EmptyBag /\ signing'[Other(p)] = signing[Other(p)]
      /\ wire'[p] = wire[p] /\ wire'[Other(p)] = <<>>
      /\ tree' = tree /\ verifying' = verifying
  BY <1>1, DomainFacts DEF Close, TypeOK
<1>4. BagToSet(signing'[p]) = {}
  BY <1>3, EmptyBagFacts
<1>5. Holds(p)'
  BY <1>2, <1>3, <1>4, NoCoordinatorFacts DEF Holds, Held
<1>6. Holds(Other(p))'
  BY <1>1, <1>2, <1>3, WireEmpty, HoldsStill
<1> QED
  BY <1>1, <1>5, <1>6 DEF HeldInv

LEMMA HeldSigned ==
    ASSUME TypeOK, HeldInv, NEW p \in Peer, Signed(p)
    PROVE  HeldInv'
<1>1. Other(p) \in Peer /\ \A q \in Peer : q = p \/ q = Other(p)
  BY OtherFacts
<1>2. Holds(p) /\ Holds(Other(p))
  BY <1>1 DEF HeldInv
<1>3. PICK edits \in BagToSet(signing[p]) : LET m == [type |-> "BATCH", edits |-> edits] IN
        /\ m \in Message
        /\ BagToSet(signing'[p]) \subseteq BagToSet(signing[p])
        /\ signing'[Other(p)] = signing[Other(p)]
        /\ wire'[p] = Posted(p, <<m>>)
        /\ wire'[Other(p)] = wire[Other(p)]
        /\ UNCHANGED <<tree, coordinator, verifying>>
  BY SignedFacts
<1> DEFINE m == [type |-> "BATCH", edits |-> edits]
<1>4. edits \subseteq Held(p) /\ m.edits = edits /\ m.type = "BATCH"
  BY <1>2 DEF Holds
<1> HIDE DEF m
<1>5. OnWire(wire'[p]) \subseteq OnWire(wire[p]) \cup {m}
  <2>1. <<m>> \in Seq(Message) /\ OnWire(<<m>>) = {m}
    BY <1>3, SequenceFacts, WireOne DEF m
  <2>2. wire'[p] = Posted(p, <<m>>)
    BY <1>3 DEF m
  <2> QED
    BY <2>1, <2>2, PostedFacts
<1>6. Held(p)' = Held(p) /\ ~IsAsk(m)
  BY <1>3, <1>4 DEF Held, IsAsk
<1>7. Holds(p)'
  BY <1>2, <1>3, <1>4, <1>5, <1>6 DEF Holds
<1>8. Holds(Other(p))'
  BY <1>1, <1>2, <1>3, HoldsStill
<1> QED
  BY <1>1, <1>7, <1>8 DEF HeldInv

LEMMA HeldVerified ==
    ASSUME TypeOK, HeldInv, NEW p \in Peer, Verified(p)
    PROVE  HeldInv' /\ Held(p)' = Held(p)
<1>1. Other(p) \in Peer /\ \A q \in Peer : q = p \/ q = Other(p)
  BY OtherFacts
<1>2. Holds(p) /\ Holds(Other(p))
  BY <1>1 DEF HeldInv
<1>3. PICK h \in BagToSet(verifying[p]) :
        /\ h \in Payload
        /\ BagToSet(verifying'[p]) \subseteq BagToSet(verifying[p])
        /\ verifying'[Other(p)] = verifying[Other(p)]
        /\ Appended(p, {h})
        /\ UNCHANGED <<coordinator, wire, signing>>
  BY VerifiedFacts
<1>4. {h} \in SUBSET Payload
  BY <1>3
<1>5. Held(p)' = Held(p) \cup {h} /\ tree'[Other(p)] = tree[Other(p)]
  BY <1>3, <1>4, AppendedFacts
<1>6. h \in Held(p)
  BY <1>2 DEF Holds
<1>7. Held(p)' = Held(p)
  BY <1>5, <1>6
<1>8. Holds(p)'
  BY <1>2, <1>3, <1>7 DEF Holds
<1>9. Holds(Other(p))'
  BY <1>1, <1>2, <1>3, <1>5, HoldsStill
<1> QED
  BY <1>1, <1>7, <1>8, <1>9 DEF HeldInv

\* What the receiver of a message sends.
LEMMA RespondWire ==
    ASSUME TypeOK, NEW p \in Peer, NEW type, Receives(p, type),
           NEW reply \in Seq(Message), Respond(p, reply)
    PROVE  /\ OnWire(wire'[p]) \subseteq OnWire(wire[p]) \cup OnWire(reply)
           /\ OnWire(wire[p]) \subseteq OnWire(wire'[p])
           /\ link[Other(p)] # "closed" => OnWire(reply) \subseteq OnWire(wire'[p])
           /\ OnWire(wire'[Other(p)]) \subseteq OnWire(wire[Other(p)])
           /\ OnWire(wire[Other(p)]) \subseteq OnWire(wire'[Other(p)]) \cup {Arrived(p)}
<1>1. /\ wire'[p] = Posted(p, reply)
      /\ wire'[Other(p)] = Tail(wire[Other(p)])
      /\ wire[Other(p)] \in Seq(Message) /\ wire[Other(p)] # <<>>
  BY RespondFacts
<1>2. /\ OnWire(wire'[Other(p)]) \subseteq OnWire(wire[Other(p)])
      /\ OnWire(wire[Other(p)]) \subseteq OnWire(wire'[Other(p)]) \cup {Arrived(p)}
  BY <1>1, WireTail DEF Arrived
<1> QED
  BY <1>1, <1>2, PostedFacts

\* The messages that arrive are about what the sender holds.
LEMMA ArrivedHeld ==
    ASSUME TypeOK, HeldInv, NEW p \in Peer, NEW type, Receives(p, type)
    PROVE  /\ Arrived(p) \in OnWire(wire[Other(p)])
           /\ Arrived(p).type = type
           /\ IsAsk(Arrived(p)) => Arrived(p).hashes \subseteq Held(Other(p))
           /\ type = "BATCH" => Arrived(p).edits \subseteq Held(Other(p))
<1>1. Other(p) \in Peer
  BY OtherFacts
<1>2. wire[Other(p)] \in Seq(Message) /\ wire[Other(p)] # <<>> /\ Arrived(p).type = type
  BY <1>1 DEF TypeOK, Receives
<1>3. Arrived(p) \in OnWire(wire[Other(p)])
  BY <1>2, WireTail DEF Arrived
<1>4. Holds(Other(p))
  BY <1>1 DEF HeldInv
<1> QED
  BY <1>2, <1>3, <1>4 DEF Holds

\* The reply to an answer asks about what is held.
LEMMA AskedWire ==
    ASSUME TypeOK, HeldInv, NEW p \in Peer, NEW m, Receives(p, m.type), Answered(p, m)
    PROVE  /\ \A a \in OnWire(wire'[p]) :
                  a \in OnWire(wire[p]) \/ (IsAsk(a) /\ a.hashes \subseteq Held(p))
           /\ OnWire(wire'[Other(p)]) \subseteq OnWire(wire[Other(p)])
<1>1. PICK reply \in Seq(Message) :
        /\ Respond(p, reply)
        /\ reply = <<>> \/ \E a : reply = <<a>> /\ IsAskOf(coordinator[p].in, a)
  BY DEF Answered
<1>2. /\ OnWire(wire'[p]) \subseteq OnWire(wire[p]) \cup OnWire(reply)
      /\ OnWire(wire'[Other(p)]) \subseteq OnWire(wire[Other(p)])
  BY <1>1, RespondWire
<1>3. \A a \in OnWire(reply) : IsAskOf(coordinator[p].in, a)
  BY <1>1, WireEmpty, WireOne
<1>4. coordinator[p].in.hashes \subseteq Held(p)
  BY DEF HeldInv, Holds
<1> QED
  BY <1>2, <1>3, <1>4 DEF IsAskOf

LEMMA HeldReceive ==
    ASSUME TypeOK, HeldInv, NEW p \in Peer, Receive(p)
    PROVE  HeldInv'
<1>1. Other(p) \in Peer /\ \A q \in Peer : q = p \/ q = Other(p)
  BY OtherFacts
<1>2. Holds(p) /\ Holds(Other(p))
  BY <1>1 DEF HeldInv
<1> DEFINE m == Arrived(p)
           c == coordinator[p]
           d == coordinator'[p]
<1>3. CASE ReceiveStart(p)
  <2> DEFINE full == [type |-> "FULL", snapshot |-> c.snapshot]
  <2>1. /\ Receives(p, "START")
        /\ coordinator'[Other(p)] = coordinator[Other(p)]
        /\ d.out = c.out
        /\ d.in.hashes \subseteq Held(p) /\ BagToSet(d.in.buffer) \subseteq Held(p)
    BY <1>3, ReceiveStartFacts
  <2>2. PICK reply \in Seq(Message) :
          /\ Respond(p, reply)
          /\ \/ reply = <<>>
             \/ reply = <<full>>
             \/ \E a : reply = <<a>> /\ IsAskOf(d.in, a)
    BY <1>3, ReceiveStartFacts
  <2>3. full.type = "FULL"
    OBVIOUS
  <2> HIDE DEF full, m
  <2>4. \A a \in OnWire(reply) : a = full \/ IsAskOf(d.in, a)
    BY <2>2, WireEmpty, WireOne
  <2>5. \A a \in OnWire(wire'[p]) :
           a \in OnWire(wire[p]) \/ a = full \/ (IsAsk(a) /\ a.hashes \subseteq Held(p))
    BY <2>1, <2>2, <2>4, RespondWire DEF IsAskOf
  <2>6. OnWire(wire'[Other(p)]) \subseteq OnWire(wire[Other(p)])
    BY <2>1, <2>2, RespondWire
  <2>7. UNCHANGED <<tree, signing, verifying>>
    BY <1>3 DEF ReceiveStart
  <2>8. ~IsAsk(full) /\ full.type # "BATCH" /\ \A a : IsAsk(a) => a.type # "BATCH"
    BY <2>3 DEF IsAsk
  <2>9. Holds(p)'
    BY <1>2, <2>1, <2>5, <2>7, <2>8 DEF Holds, Held
  <2>10. Holds(Other(p))'
    BY <1>1, <1>2, <2>1, <2>6, <2>7, HoldsStill
  <2> QED
    BY <1>1, <2>9, <2>10 DEF HeldInv
<1>4. CASE ReceiveQuery(p)
  <2> DEFINE r == [type   |-> "RESPONSE",
                   prefix |-> m.prefix,
                   match  |-> Subtree(c.out.hashes, m.prefix) = m.hashes]
  <2>1. Receives(p, "QUERY") /\ Respond(p, <<r>>) /\ <<r>> \in Seq(Message)
    BY <1>4, ReceiveQueryFacts
  <2>2. r.type = "RESPONSE"
    OBVIOUS
  <2> HIDE DEF r
  <2>3. /\ OnWire(wire'[p]) \subseteq OnWire(wire[p]) \cup {r}
        /\ OnWire(wire'[Other(p)]) \subseteq OnWire(wire[Other(p)])
    BY <2>1, RespondWire, WireOne
  <2>4. UNCHANGED <<tree, coordinator, signing, verifying>>
    BY <1>4 DEF ReceiveQuery
  <2>5. ~IsAsk(r) /\ r.type # "BATCH"
    BY <2>2 DEF IsAsk
  <2>6. Holds(p)'
    BY <1>2, <2>3, <2>4, <2>5 DEF Holds, Held
  <2>7. Holds(Other(p))'
    BY <1>1, <1>2, <2>3, <2>4, HoldsStill
  <2> QED
    BY <1>1, <2>6, <2>7 DEF HeldInv
<1>5. CASE ReceiveResponse(p)
  <2>1. Answered(p, m) /\ Receives(p, m.type) /\ m.type = "RESPONSE"
    BY <1>5, ResponseAnswered
  <2>2. /\ \A a \in OnWire(wire'[p]) :
               a \in OnWire(wire[p]) \/ (IsAsk(a) /\ a.hashes \subseteq Held(p))
        /\ OnWire(wire'[Other(p)]) \subseteq OnWire(wire[Other(p)])
    BY <2>1, AskedWire
  <2>3. UNCHANGED <<tree, signing, verifying>>
    BY <1>5 DEF ReceiveResponse
  <2>4. /\ coordinator'[Other(p)] = coordinator[Other(p)]
        /\ d.out = c.out /\ d.in.hashes = c.in.hashes
        /\ BagToSet(d.in.buffer) \subseteq BagToSet(c.in.buffer)
    BY <2>1 DEF Answered, Keeps, Received
  <2>5. Holds(p)'
    BY <1>2, <2>2, <2>3, <2>4 DEF Holds, Held, IsAsk
  <2>6. Holds(Other(p))'
    BY <1>1, <1>2, <2>2, <2>3, <2>4, HoldsStill
  <2> QED
    BY <1>1, <2>5, <2>6 DEF HeldInv
<1>6. CASE ReceiveSet(p)
  <2> DEFINE edits == Subtree(c.out.hashes, m.prefix) \ m.hashes
  <2>1. /\ Receives(p, "SET")
        /\ Respond(p, <<>>) /\ <<>> \in Seq(Message)
        /\ BagToSet(signing'[p]) = BagToSet(signing[p]) \cup {edits}
        /\ signing'[Other(p)] = signing[Other(p)]
    BY <1>6, ReceiveSetFacts
  <2>2. /\ OnWire(wire'[p]) \subseteq OnWire(wire[p])
        /\ OnWire(wire'[Other(p)]) \subseteq OnWire(wire[Other(p)])
    BY <2>1, RespondWire, WireEmpty
  <2>3. edits \subseteq Held(p)
    BY <1>2, SubtreeFacts DEF Holds
  <2>4. UNCHANGED <<tree, coordinator, verifying>>
    BY <1>6 DEF ReceiveSet
  <2> HIDE DEF edits
  <2>5. Holds(p)'
    BY <1>2, <2>1, <2>2, <2>3, <2>4 DEF Holds, Held
  <2>6. Holds(Other(p))'
    BY <1>1, <1>2, <2>1, <2>2, <2>4, HoldsStill
  <2> QED
    BY <1>1, <2>5, <2>6 DEF HeldInv
<1>7. CASE ReceiveBatch(p)
  <2>1. /\ Answered(p, m) /\ Receives(p, m.type) /\ m.type = "BATCH"
        /\ m.edits \in SUBSET Payload
        /\ Appended(p, m.edits)
        /\ BagToSet(verifying'[p]) \subseteq
               BagToSet(verifying[p]) \cup BagToSet(c.in.buffer) \cup m.edits
        /\ verifying'[Other(p)] = verifying[Other(p)]
    BY <1>7, BatchAnswered
  <2>2. /\ \A a \in OnWire(wire'[p]) :
               a \in OnWire(wire[p]) \/ (IsAsk(a) /\ a.hashes \subseteq Held(p))
        /\ OnWire(wire'[Other(p)]) \subseteq OnWire(wire[Other(p)])
    BY <2>1, AskedWire
  <2>3. Held(p)' = Held(p) \cup m.edits /\ tree'[Other(p)] = tree[Other(p)]
    BY <2>1, AppendedFacts
  <2>4. m.edits \subseteq Held(Other(p))
    BY <2>1, ArrivedHeld
  <2>5. IsFiniteSet(Held(p)')
    <3>1. IsFiniteSet(m.edits)
      BY <1>2, <2>4, FS_Subset DEF Holds
    <3>2. IsFiniteSet(Held(p))
      BY <1>2 DEF Holds
    <3>3. IsFiniteSet(Held(p) \cup m.edits)
      BY <3>1, <3>2, FS_Union
    <3> QED
      BY <2>3, <3>3
  <2>6. signing' = signing
    BY <1>7 DEF ReceiveBatch
  <2>7. /\ coordinator'[Other(p)] = coordinator[Other(p)]
        /\ d.out = c.out /\ d.in.hashes = c.in.hashes
        /\ BagToSet(d.in.buffer) \subseteq BagToSet(c.in.buffer) \cup m.edits
    BY <2>1 DEF Answered, Keeps, Received
  <2> HIDE DEF m
  <2>8. Holds(p)'
    BY <1>2, <2>1, <2>2, <2>3, <2>5, <2>6, <2>7 DEF Holds, IsAsk
  <2>9. Holds(Other(p))'
    BY <1>1, <1>2, <2>1, <2>2, <2>3, <2>6, <2>7, HoldsStill
  <2> QED
    BY <1>1, <2>8, <2>9 DEF HeldInv
<1>8. CASE ReceiveFull(p)
  <2>1. /\ Receives(p, "FULL")
        /\ Respond(p, <<>>) /\ <<>> \in Seq(Message)
        /\ coordinator'[Other(p)] = coordinator[Other(p)]
        /\ d.out = c.out /\ d.in = c.in
        /\ Held(p)' = Held(p) \/ Held(p)' = Held(p) \cup {m.snapshot}
        /\ tree'[Other(p)] = tree[Other(p)]
    BY <1>8, ReceiveFullFacts
  <2>2. /\ OnWire(wire'[p]) \subseteq OnWire(wire[p])
        /\ OnWire(wire'[Other(p)]) \subseteq OnWire(wire[Other(p)])
    BY <2>1, RespondWire, WireEmpty
  <2>3. UNCHANGED <<signing, verifying>>
    BY <1>8 DEF ReceiveFull
  <2>4. IsFiniteSet(Held(p)')
    <3>1. IsFiniteSet(Held(p) \cup {m.snapshot})
      BY <1>2, FS_Singleton, FS_Union DEF Holds
    <3> QED
      BY <1>2, <2>1, <3>1 DEF Holds
  <2>5. Holds(p)'
    BY <1>2, <2>1, <2>2, <2>3, <2>4 DEF Holds
  <2>6. Holds(Other(p))'
    BY <1>1, <1>2, <2>1, <2>2, <2>3, HoldsStill
  <2> QED
    BY <1>1, <2>5, <2>6 DEF HeldInv
<1> QED
  BY <1>3, <1>4, <1>5, <1>6, <1>7, <1>8 DEF Receive

LEMMA HeldStep ==
    ASSUME TypeOK, HeldInv, [Next]_vars
    PROVE  HeldInv'
<1>1. CASE Connect
  BY <1>1, HeldConnect
<1>2. ASSUME NEW p \in Peer, NEW x \in Edit, Type(p, x)
      PROVE  HeldInv'
  BY <1>2, HeldTyped DEF Type
<1>3. ASSUME NEW p \in Peer, Stamped(p)
      PROVE  HeldInv'
  <2>1. PICK x \in BagToSet(stamping[p]) :
          AppendTyped(p, x) /\ UNCHANGED <<coordinator, wire, verifying>>
    BY <1>3 DEF Stamped
  <2>2. x \in Edit
    BY DEF TypeOK, IsBagOf
  <2> QED
    BY <2>1, <2>2, HeldTyped
<1>4. ASSUME NEW p \in Peer, TimerFires(p)
      PROVE  HeldInv'
  <2>1. CASE link[p] = "open"
    BY <1>4, <2>1, HeldReconcile DEF TimerFires
  <2>2. CASE link[p] # "open"
    BY <1>4, <2>2 DEF TimerFires, HeldInv, Holds, Held
  <2> QED
    BY <2>1, <2>2
<1>5. ASSUME NEW p \in Peer, Open(p)
      PROVE  HeldInv'
  BY <1>5, HeldReconcile DEF Open
<1>6. ASSUME NEW p \in Peer, Close(p) \/ Signed(p) \/ Verified(p) \/ Receive(p)
      PROVE  HeldInv'
  BY <1>6, HeldClose, HeldSigned, HeldVerified, HeldReceive
<1>7. CASE UNCHANGED vars
  BY <1>7 DEF vars, HeldInv, Holds, Held
<1> QED
  BY <1>1, <1>2, <1>3, <1>4, <1>5, <1>6, <1>7 DEF Next

----------------------------------------------------------------------------
(* Everything somebody's tree covers was typed by somebody.                *)

LEMMA AuthoredKept ==
    ASSUME \A r \in Peer : Held(r) \subseteq Held(r)'
    PROVE  /\ \A xs : Authored(xs) => Authored(xs)'
           /\ \A snapshot : IsMerge(snapshot) => IsMerge(snapshot)'
BY DEF Authored, IsMerge

\* Nothing is lost at p, and what is new is accounted for.
LEMMA AuthorsKept ==
    ASSUME NEW p \in Peer, Authors(p),
           \A r \in Peer : Held(r) \subseteq Held(r)',
           shown[p] \subseteq shown'[p],
           \A h \in Held(p)' : h \in Held(p) \/ Authored(h.covers)',
           \A x \in Edit : Typed(x) \in Held(p)' => Typed(x) \in Held(p) \/ x \in shown'[p],
           BagToSet(stamping'[p]) \subseteq shown'[p],
           coordinator'[p].snapshot = coordinator[p].snapshot,
           coordinator'[p].out = coordinator[p].out,
           \A m \in OnWire(wire'[p]) :
               m \in OnWire(wire[p]) \/ (m.type = "FULL" => IsMerge(m.snapshot)')
    PROVE  Authors(p)'
<1>1. Other(p) \in Peer
  BY OtherFacts
<1>2. \A x \in Edit : Typed(x) \in Held(p)' => x \in shown'[p]
  BY DEF Authors
<1>3. \A h \in Held(p)' : Authored(h.covers)'
  BY AuthoredKept DEF Authors
<1>4. IsMerge(coordinator[p].snapshot)'
  <2>1. \A s : s = coordinator[p].snapshot => IsMerge(s)'
    BY AuthoredKept DEF Authors
  <2> QED
    BY <2>1 DEF IsMerge
<1>5. \A m \in OnWire(wire'[p]) : m.type = "FULL" => IsMerge(m.snapshot)'
  BY AuthoredKept DEF Authors
<1>6. \A x \in Covered(coordinator'[p].out.hashes) :
          \/ Typed(x) \in coordinator'[p].out.hashes
          \/ Typed(x) \in Held(Other(p))'
  BY <1>1 DEF Authors
<1> QED
  BY <1>2, <1>3, <1>4, <1>5, <1>6 DEF Authors

\* Nothing happens at p itself.
LEMMA AuthorsStill ==
    ASSUME NEW p \in Peer, Authors(p),
           \A r \in Peer : Held(r) \subseteq Held(r)',
           tree'[p] = tree[p], shown'[p] = shown[p], stamping'[p] = stamping[p],
           coordinator'[p] = coordinator[p], OnWire(wire'[p]) \subseteq OnWire(wire[p])
    PROVE  Authors(p)'
<1>1. BagToSet(stamping[p]) \subseteq shown[p]
  BY DEF Authors
<1>2. Held(p)' = Held(p)
  BY DEF Held
<1> QED
  BY <1>1, <1>2, AuthorsKept

LEMMA AuthorTyped ==
    ASSUME TypeOK, AuthorInv, NEW p \in Peer, NEW x \in Edit,
           AppendTyped(p, x) \/ UNCHANGED <<tree, signing>>,
           x \in shown'[p], shown[p] \subseteq shown'[p],
           shown'[Other(p)] = shown[Other(p)],
           BagToSet(stamping'[p]) \subseteq shown'[p],
           stamping'[Other(p)] = stamping[Other(p)],
           UNCHANGED <<coordinator, wire>>
    PROVE  AuthorInv'
<1>1. Other(p) \in Peer /\ \A q \in Peer : q = p \/ q = Other(p)
  BY OtherFacts
<1>2. Authors(p) /\ Authors(Other(p))
  BY <1>1 DEF AuthorInv
<1>3. /\ \A r \in Peer : Held(r) \subseteq Held(r)'
      /\ Held(p)' \subseteq Held(p) \cup {Typed(x)}
      /\ tree'[Other(p)] = tree[Other(p)]
  BY TypedFacts
<1>4. \A h \in Held(p)' : h \in Held(p) \/ Authored(h.covers)'
  BY <1>3, PayloadFacts DEF Authored
<1>5. \A y \in Edit : Typed(y) \in Held(p)' => Typed(y) \in Held(p) \/ y \in shown'[p]
  <2>1. \A y \in Edit : Typed(y) = Typed(x) => y = x
    BY PayloadFacts
  <2> QED
    BY <1>3, <2>1
<1>6. Authors(p)'
  BY <1>2, <1>3, <1>4, <1>5, AuthorsKept
<1>7. Authors(Other(p))'
  BY <1>1, <1>2, <1>3, AuthorsStill
<1> QED
  BY <1>1, <1>6, <1>7 DEF AuthorInv

LEMMA AuthorReconcile ==
    ASSUME TypeOK, HeldInv, AuthorInv, NEW p \in Peer, Reconcile(p),
           UNCHANGED <<tree, shown, stamping>>
    PROVE  AuthorInv'
<1>1. Other(p) \in Peer /\ \A q \in Peer : q = p \/ q = Other(p)
  BY OtherFacts
<1>2. Authors(p) /\ Authors(Other(p))
  BY <1>1 DEF AuthorInv
<1> DEFINE d == coordinator'[p]
           start == Start(d.out)
<1>3. /\ d.out.hashes = Held(p)
      /\ d.snapshot.kind = "snapshot" /\ d.snapshot.covers = Covered(Held(p))
      /\ coordinator'[Other(p)] = coordinator[Other(p)]
      /\ start \in Message /\ start.type = "START"
      /\ wire'[p] = Posted(p, <<start>>)
      /\ wire'[Other(p)] = wire[Other(p)]
  BY ReconcileFacts
<1> HIDE DEF start
<1>4. OnWire(wire'[p]) \subseteq OnWire(wire[p]) \cup {start}
  <2>1. <<start>> \in Seq(Message) /\ OnWire(<<start>>) = {start}
    BY <1>3, SequenceFacts, WireOne
  <2> QED
    BY <1>3, <2>1, PostedFacts
<1>5. \A r \in Peer : Held(r)' = Held(r)
  BY DEF Held
<1>6. \A xs : xs = Covered(Held(p)) => Authored(xs)'
  BY <1>2, <1>5 DEF Authors, Authored, Covered
<1>7. IsMerge(coordinator[p].snapshot)'
  <2>1. d.snapshot.kind = "snapshot" /\ \A s : s = d.snapshot.covers => Authored(s)'
    BY <1>3, <1>6
  <2> QED
    BY <2>1 DEF IsMerge, Authored
<1>8. \A x \in Covered(d.out.hashes) : Typed(x) \in d.out.hashes \/ Typed(x) \in Held(Other(p))'
  BY <1>1, <1>3, <1>5, <1>6 DEF Authored
<1>9. \A m \in OnWire(wire'[p]) : m.type = "FULL" => IsMerge(m.snapshot)'
  BY <1>2, <1>3, <1>4, <1>5, AuthoredKept DEF Authors
<1>10. \A h \in Held(p)' : Authored(h.covers)'
  BY <1>2, <1>5, AuthoredKept DEF Authors
<1>11. /\ \A x \in Edit : Typed(x) \in Held(p)' => x \in shown'[p]
       /\ BagToSet(stamping'[p]) \subseteq shown'[p]
  BY <1>2, <1>5 DEF Authors
<1>12. Authors(p)'
  BY <1>7, <1>8, <1>9, <1>10, <1>11 DEF Authors
<1>13. Authors(Other(p))'
  BY <1>1, <1>2, <1>3, <1>5, AuthorsStill
<1> QED
  BY <1>1, <1>12, <1>13 DEF AuthorInv

LEMMA AuthorConnect ==
    ASSUME AuthorInv, Connect
    PROVE  AuthorInv'
<1> SUFFICES ASSUME NEW p \in Peer
             PROVE  Authors(p)'
  BY DEF AuthorInv
<1>1. wire'[p] = <<>> /\ UNCHANGED <<tree, shown, coordinator, stamping>>
  BY DEF Connect
<1>2. \A r \in Peer : Held(r)' = Held(r)
  BY <1>1 DEF Held
<1> QED
  BY <1>1, <1>2, WireEmpty, AuthorsStill DEF AuthorInv

LEMMA AuthorClose ==
    ASSUME TypeOK, AuthorInv, NEW p \in Peer, Close(p)
    PROVE  AuthorInv'
<1>1. Other(p) \in Peer /\ Other(p) # p /\ \A q \in Peer : q = p \/ q = Other(p)
  BY OtherFacts
<1>2. Authors(p) /\ Authors(Other(p))
  BY <1>1 DEF AuthorInv
<1>3. /\ coordinator'[p] = NoCoordinator /\ coordinator'[Other(p)] = coordinator[Other(p)]
      /\ wire'[p] = wire[p] /\ wire'[Other(p)] = <<>>
      /\ UNCHANGED <<tree, shown, stamping>>
  BY <1>1, DomainFacts DEF Close, TypeOK
<1>4. \A r \in Peer : Held(r)' = Held(r)
  BY <1>3 DEF Held
<1>5. Authors(p)'
  <2>1. IsMerge(NoCoordinator.snapshot)' /\ Covered(NoCoordinator.out.hashes) = {}
    BY NoCoordinatorFacts DEF IsMerge, Authored, Covered
  <2>2. \A m \in OnWire(wire'[p]) : m.type = "FULL" => IsMerge(m.snapshot)'
    BY <1>2, <1>3, <1>4, AuthoredKept DEF Authors
  <2>3. \A h \in Held(p)' : Authored(h.covers)'
    BY <1>2, <1>4, AuthoredKept DEF Authors
  <2>4. /\ \A x \in Edit : Typed(x) \in Held(p)' => x \in shown'[p]
        /\ BagToSet(stamping'[p]) \subseteq shown'[p]
    BY <1>2, <1>3, <1>4 DEF Authors
  <2> QED
    BY <1>3, <2>1, <2>2, <2>3, <2>4 DEF Authors
<1>6. Authors(Other(p))'
  BY <1>1, <1>2, <1>3, <1>4, WireEmpty, AuthorsStill
<1> QED
  BY <1>1, <1>5, <1>6 DEF AuthorInv

LEMMA AuthorSigned ==
    ASSUME TypeOK, AuthorInv, NEW p \in Peer, Signed(p)
    PROVE  AuthorInv'
<1>1. Other(p) \in Peer /\ \A q \in Peer : q = p \/ q = Other(p)
  BY OtherFacts
<1>2. Authors(p) /\ Authors(Other(p))
  BY <1>1 DEF AuthorInv
<1>3. PICK edits \in BagToSet(signing[p]) : LET m == [type |-> "BATCH", edits |-> edits] IN
        /\ m \in Message
        /\ wire'[p] = Posted(p, <<m>>)
        /\ wire'[Other(p)] = wire[Other(p)]
        /\ UNCHANGED <<tree, shown, coordinator, stamping>>
  BY SignedFacts
<1> DEFINE m == [type |-> "BATCH", edits |-> edits]
<1>4. m.type = "BATCH"
  OBVIOUS
<1>5. m \in Message /\ wire'[p] = Posted(p, <<m>>)
  BY <1>3
<1> HIDE DEF m
<1>6. OnWire(wire'[p]) \subseteq OnWire(wire[p]) \cup {m}
  <2>1. <<m>> \in Seq(Message) /\ OnWire(<<m>>) = {m}
    BY <1>5, SequenceFacts, WireOne
  <2> QED
    BY <1>5, <2>1, PostedFacts
<1>7. \A r \in Peer : Held(r)' = Held(r)
  BY <1>3 DEF Held
<1>8. BagToSet(stamping'[p]) \subseteq shown'[p]
  BY <1>2, <1>3 DEF Authors
<1>9. Authors(p)'
  BY <1>2, <1>3, <1>4, <1>6, <1>7, <1>8, AuthorsKept
<1>10. Authors(Other(p))'
  BY <1>1, <1>2, <1>3, <1>7, AuthorsStill
<1> QED
  BY <1>1, <1>9, <1>10 DEF AuthorInv

LEMMA AuthorVerified ==
    ASSUME TypeOK, HeldInv, AuthorInv, NEW p \in Peer, Verified(p)
    PROVE  AuthorInv'
<1>1. Other(p) \in Peer /\ \A q \in Peer : q = p \/ q = Other(p)
  BY OtherFacts
<1>2. Authors(p) /\ Authors(Other(p))
  BY <1>1 DEF AuthorInv
<1>3. PICK h \in BagToSet(verifying[p]) :
        /\ h \in Payload
        /\ Appended(p, {h})
        /\ UNCHANGED <<coordinator, wire, stamping>>
  BY VerifiedFacts
<1>4. {h} \in SUBSET Payload
  BY <1>3
<1>5. /\ tree'[Other(p)] = tree[Other(p)]
      /\ shown'[Other(p)] = shown[Other(p)] /\ shown[p] \subseteq shown'[p]
  BY <1>3, <1>4, AppendedFacts
<1>6. Held(p)' = Held(p) /\ Held(Other(p))' = Held(Other(p))
  BY <1>5, HeldVerified DEF Held
<1>7. BagToSet(stamping'[p]) \subseteq shown'[p]
  BY <1>2, <1>3, <1>5 DEF Authors
<1>8. \A r \in Peer : Held(r) \subseteq Held(r)'
  BY <1>1, <1>6
<1>9. Authors(p)'
  BY <1>2, <1>3, <1>5, <1>6, <1>7, <1>8, AuthorsKept
<1>10. Authors(Other(p))'
  BY <1>1, <1>2, <1>3, <1>5, <1>8, AuthorsStill
<1> QED
  BY <1>1, <1>9, <1>10 DEF AuthorInv

LEMMA AuthorReceive ==
    ASSUME TypeOK, HeldInv, AuthorInv, NEW p \in Peer, Receive(p)
    PROVE  AuthorInv'
<1>1. Other(p) \in Peer /\ \A q \in Peer : q = p \/ q = Other(p)
  BY OtherFacts
<1>2. Authors(p) /\ Authors(Other(p)) /\ BagToSet(stamping[p]) \subseteq shown[p]
  BY <1>1 DEF AuthorInv, Authors
<1> DEFINE m == Arrived(p)
           c == coordinator[p]
           d == coordinator'[p]
<1>3. CASE ReceiveStart(p)
  <2> DEFINE full == [type |-> "FULL", snapshot |-> c.snapshot]
  <2>1. /\ Receives(p, "START")
        /\ coordinator'[Other(p)] = coordinator[Other(p)]
        /\ d.out = c.out /\ d.snapshot = c.snapshot
    BY <1>3, ReceiveStartFacts
  <2>2. PICK reply \in Seq(Message) :
          /\ Respond(p, reply)
          /\ \/ reply = <<>>
             \/ reply = <<full>>
             \/ \E a : reply = <<a>> /\ IsAskOf(d.in, a)
    BY <1>3, ReceiveStartFacts
  <2>3. full.snapshot = c.snapshot
    OBVIOUS
  <2> HIDE DEF full, m
  <2>4. \A a \in OnWire(reply) : a = full \/ IsAsk(a)
    BY <2>2, WireEmpty, WireOne DEF IsAskOf
  <2>5. \A a \in OnWire(wire'[p]) : a \in OnWire(wire[p]) \/ a = full \/ a.type # "FULL"
    BY <2>1, <2>2, <2>4, RespondWire DEF IsAsk
  <2>6. OnWire(wire'[Other(p)]) \subseteq OnWire(wire[Other(p)])
    BY <2>1, <2>2, RespondWire
  <2>7. UNCHANGED <<tree, shown, stamping>>
    BY <1>3 DEF ReceiveStart
  <2>8. \A r \in Peer : Held(r)' = Held(r)
    BY <2>7 DEF Held
  <2>9. \A a : a = full => IsMerge(a.snapshot)'
    BY <1>2, <2>3, <2>8, AuthoredKept DEF Authors
  <2>10. Authors(p)'
    BY <1>2, <2>1, <2>5, <2>7, <2>8, <2>9, AuthorsKept
  <2>11. Authors(Other(p))'
    BY <1>1, <1>2, <2>1, <2>6, <2>7, <2>8, AuthorsStill
  <2> QED
    BY <1>1, <2>10, <2>11 DEF AuthorInv
<1>4. CASE ReceiveQuery(p)
  <2> DEFINE r == [type   |-> "RESPONSE",
                   prefix |-> m.prefix,
                   match  |-> Subtree(c.out.hashes, m.prefix) = m.hashes]
  <2>1. Receives(p, "QUERY") /\ Respond(p, <<r>>) /\ <<r>> \in Seq(Message)
    BY <1>4, ReceiveQueryFacts
  <2>2. r.type = "RESPONSE"
    OBVIOUS
  <2> HIDE DEF r
  <2>3. /\ OnWire(wire'[p]) \subseteq OnWire(wire[p]) \cup {r}
        /\ OnWire(wire'[Other(p)]) \subseteq OnWire(wire[Other(p)])
    BY <2>1, RespondWire, WireOne
  <2>4. UNCHANGED <<tree, shown, coordinator, stamping>>
    BY <1>4 DEF ReceiveQuery
  <2>5. \A q \in Peer : Held(q)' = Held(q)
    BY <2>4 DEF Held
  <2>6. Authors(p)'
    BY <1>2, <2>2, <2>3, <2>4, <2>5, AuthorsKept
  <2>7. Authors(Other(p))'
    BY <1>1, <1>2, <2>3, <2>4, <2>5, AuthorsStill
  <2> QED
    BY <1>1, <2>6, <2>7 DEF AuthorInv
<1>5. CASE ReceiveResponse(p)
  <2>1. Answered(p, m) /\ Receives(p, m.type) /\ m.type = "RESPONSE"
    BY <1>5, ResponseAnswered
  <2>2. /\ \A a \in OnWire(wire'[p]) : a \in OnWire(wire[p]) \/ a.type # "FULL"
        /\ OnWire(wire'[Other(p)]) \subseteq OnWire(wire[Other(p)])
    BY <2>1, AskedWire DEF IsAsk
  <2>3. UNCHANGED <<tree, shown, stamping>>
    BY <1>5 DEF ReceiveResponse
  <2>4. /\ coordinator'[Other(p)] = coordinator[Other(p)]
        /\ d.out = c.out /\ d.snapshot = c.snapshot
    BY <2>1 DEF Answered
  <2>5. \A q \in Peer : Held(q)' = Held(q)
    BY <2>3 DEF Held
  <2>6. Authors(p)'
    BY <1>2, <2>2, <2>3, <2>4, <2>5, AuthorsKept
  <2>7. Authors(Other(p))'
    BY <1>1, <1>2, <2>2, <2>3, <2>4, <2>5, AuthorsStill
  <2> QED
    BY <1>1, <2>6, <2>7 DEF AuthorInv
<1>6. CASE ReceiveSet(p)
  <2>1. Receives(p, "SET") /\ Respond(p, <<>>) /\ <<>> \in Seq(Message)
    BY <1>6, ReceiveSetFacts
  <2>2. /\ OnWire(wire'[p]) \subseteq OnWire(wire[p])
        /\ OnWire(wire'[Other(p)]) \subseteq OnWire(wire[Other(p)])
    BY <2>1, RespondWire, WireEmpty
  <2>3. UNCHANGED <<tree, shown, coordinator, stamping>>
    BY <1>6 DEF ReceiveSet
  <2>4. \A q \in Peer : Held(q)' = Held(q)
    BY <2>3 DEF Held
  <2>5. Authors(p)' /\ Authors(Other(p))'
    BY <1>1, <1>2, <2>2, <2>3, <2>4, AuthorsStill
  <2> QED
    BY <1>1, <2>5 DEF AuthorInv
<1>7. CASE ReceiveBatch(p)
  <2>1. /\ Answered(p, m) /\ Receives(p, m.type) /\ m.type = "BATCH"
        /\ m.edits \in SUBSET Payload
        /\ Appended(p, m.edits)
    BY <1>7, BatchAnswered
  <2>2. /\ \A a \in OnWire(wire'[p]) : a \in OnWire(wire[p]) \/ a.type # "FULL"
        /\ OnWire(wire'[Other(p)]) \subseteq OnWire(wire[Other(p)])
    BY <2>1, AskedWire DEF IsAsk
  <2>3. /\ Held(p)' = Held(p) \cup m.edits /\ tree'[Other(p)] = tree[Other(p)]
        /\ shown'[p] = shown[p] \cup Covered(m.edits)
        /\ shown'[Other(p)] = shown[Other(p)]
    BY <2>1, AppendedFacts
  <2>4. m.edits \subseteq Held(Other(p))
    BY <2>1, ArrivedHeld
  <2>5. stamping' = stamping
    BY <1>7 DEF ReceiveBatch
  <2>6. /\ coordinator'[Other(p)] = coordinator[Other(p)]
        /\ d.out = c.out /\ d.snapshot = c.snapshot
    BY <2>1 DEF Answered
  <2>7. \A q \in Peer : Held(q) \subseteq Held(q)'
    BY <1>1, <2>3 DEF Held
  <2> HIDE DEF m
  <2>8. \A h \in Held(p)' : h \in Held(p) \/ Authored(h.covers)'
    BY <1>2, <2>3, <2>4, <2>7, AuthoredKept DEF Authors
  <2>9. \A x \in Edit : Typed(x) \in Held(p)' => Typed(x) \in Held(p) \/ x \in shown'[p]
    BY <2>3, PayloadFacts DEF Covered
  <2>10. Authors(p)'
    BY <1>2, <2>2, <2>3, <2>5, <2>6, <2>7, <2>8, <2>9, AuthorsKept
  <2>11. Authors(Other(p))'
    BY <1>1, <1>2, <2>2, <2>3, <2>5, <2>6, <2>7, AuthorsStill
  <2> QED
    BY <1>1, <2>10, <2>11 DEF AuthorInv
<1>8. CASE ReceiveFull(p)
  <2>1. /\ Receives(p, "FULL")
        /\ Respond(p, <<>>) /\ <<>> \in Seq(Message)
        /\ coordinator'[Other(p)] = coordinator[Other(p)]
        /\ d.out = c.out /\ d.snapshot = c.snapshot
        /\ Held(p)' = Held(p) \/ Held(p)' = Held(p) \cup {m.snapshot}
        /\ tree'[Other(p)] = tree[Other(p)]
    BY <1>8, ReceiveFullFacts
  <2>2. /\ OnWire(wire'[p]) \subseteq OnWire(wire[p])
        /\ OnWire(wire'[Other(p)]) \subseteq OnWire(wire[Other(p)])
    BY <2>1, RespondWire, WireEmpty
  <2>3. UNCHANGED <<shown, stamping>>
    BY <1>8 DEF ReceiveFull
  <2>4. \A q \in Peer : Held(q) \subseteq Held(q)'
    BY <1>1, <2>1 DEF Held
  <2>5. IsMerge(m.snapshot)
    BY <1>2, <2>1, ArrivedHeld DEF Authors
  <2> HIDE DEF m
  <2>6. \A h \in Held(p)' : h \in Held(p) \/ Authored(h.covers)'
    BY <2>1, <2>4, <2>5, AuthoredKept DEF IsMerge
  <2>7. \A x \in Edit : Typed(x) \in Held(p)' => Typed(x) \in Held(p)
    BY <2>1, <2>5, PayloadFacts DEF IsMerge
  <2>8. Authors(p)'
    BY <1>2, <2>1, <2>2, <2>3, <2>4, <2>6, <2>7, AuthorsKept
  <2>9. Authors(Other(p))'
    BY <1>1, <1>2, <2>1, <2>2, <2>3, <2>4, AuthorsStill
  <2> QED
    BY <1>1, <2>8, <2>9 DEF AuthorInv
<1> QED
  BY <1>3, <1>4, <1>5, <1>6, <1>7, <1>8 DEF Receive

LEMMA AuthorStep ==
    ASSUME TypeOK, HeldInv, AuthorInv, [Next]_vars
    PROVE  AuthorInv'
<1>1. CASE Connect
  BY <1>1, AuthorConnect
<1>2. ASSUME NEW p \in Peer, NEW x \in Edit, Type(p, x)
      PROVE  AuthorInv'
  <2>1. Other(p) \in Peer /\ Other(p) # p
    BY OtherFacts
  <2>2. /\ shown'[p] = shown[p] \cup {x}
        /\ shown'[Other(p)] = shown[Other(p)]
        /\ stamping'[p] = stamping[p] (+) One(x)
        /\ stamping'[Other(p)] = stamping[Other(p)]
    BY <1>2, <2>1, DomainFacts DEF Type, TypeOK
  <2>3. BagToSet(stamping[p] (+) One(x)) = BagToSet(stamping[p]) \cup {x}
    BY MoreFacts DEF TypeOK
  <2>4. BagToSet(stamping[p]) \subseteq shown[p]
    BY DEF AuthorInv, Authors
  <2>5. /\ AppendTyped(p, x) \/ UNCHANGED <<tree, signing>>
        /\ UNCHANGED <<coordinator, wire>>
    BY <1>2 DEF Type
  <2> QED
    BY <2>2, <2>3, <2>4, <2>5, AuthorTyped
<1>3. ASSUME NEW p \in Peer, Stamped(p)
      PROVE  AuthorInv'
  <2>1. PICK x \in BagToSet(stamping[p]) :
          /\ stamping' = [stamping EXCEPT ![p] = @ (-) One(x)]
          /\ AppendTyped(p, x) /\ UNCHANGED <<shown, coordinator, wire>>
    BY <1>3 DEF Stamped
  <2>2. x \in Edit
    BY DEF TypeOK, IsBagOf
  <2>3. BagToSet(stamping[p] (-) One(x)) \subseteq BagToSet(stamping[p])
    BY TakeFacts DEF TypeOK
  <2>4. Other(p) \in Peer /\ Other(p) # p
    BY OtherFacts
  <2>5. stamping'[p] = stamping[p] (-) One(x) /\ stamping'[Other(p)] = stamping[Other(p)]
    BY <2>1, <2>4, DomainFacts
  <2>6. BagToSet(stamping[p]) \subseteq shown[p]
    BY DEF AuthorInv, Authors
  <2> QED
    BY <2>1, <2>2, <2>3, <2>5, <2>6, AuthorTyped
<1>4. ASSUME NEW p \in Peer, TimerFires(p)
      PROVE  AuthorInv'
  <2>1. CASE link[p] = "open"
    BY <1>4, <2>1, AuthorReconcile DEF TimerFires
  <2>2. CASE link[p] # "open"
    <3>1. UNCHANGED <<tree, shown, stamping, coordinator, wire>>
      BY <1>4, <2>2 DEF TimerFires
    <3> QED
      BY <3>1 DEF AuthorInv, Authors, Authored, IsMerge, Held
  <2> QED
    BY <2>1, <2>2
<1>5. ASSUME NEW p \in Peer, Open(p)
      PROVE  AuthorInv'
  BY <1>5, AuthorReconcile DEF Open
<1>6. ASSUME NEW p \in Peer, Close(p) \/ Signed(p) \/ Verified(p) \/ Receive(p)
      PROVE  AuthorInv'
  BY <1>6, AuthorClose, AuthorSigned, AuthorVerified, AuthorReceive
<1>7. CASE UNCHANGED vars
  BY <1>7 DEF vars, AuthorInv, Authors, Authored, IsMerge, Held
<1> QED
  BY <1>1, <1>2, <1>3, <1>4, <1>5, <1>6, <1>7 DEF Next

----------------------------------------------------------------------------
(* The channel and the last START.                                         *)

LEMMA NothingAnnounced == \A start : Announces(<<>>, start)
<1>1. 1 .. Len(<<>>) = {}
  OBVIOUS
<1> QED
  BY <1>1 DEF Announces

\* p sends nothing, or something that is not a START, and may take a message.
LEMMA LinkPosted ==
    ASSUME TypeOK, LinkInv, NEW p \in Peer, NEW messages \in Seq(Message),
           messages = <<>> \/ \E m \in Message : messages = <<m>> /\ m.type # "START",
           link' = link,
           coordinator'[p].out = coordinator[p].out,
           coordinator'[Other(p)] = coordinator[Other(p)],
           link[p] = "open" \/ coordinator'[p].searching = coordinator[p].searching,
           wire'[p] = Posted(p, messages),
           \/ wire'[Other(p)] = wire[Other(p)]
           \/ /\ link[p] = "open" /\ wire[Other(p)] # <<>>
              /\ wire'[Other(p)] = Tail(wire[Other(p)])
    PROVE  LinkInv'
<1>1. /\ Other(p) \in Peer /\ Other(Other(p)) = p
      /\ \A q \in Peer : q = p \/ q = Other(p)
  BY OtherFacts
<1>2. Linked(p) /\ Linked(Other(p))
  BY <1>1 DEF LinkInv
<1>3. wire[p] \in Seq(Message) /\ wire[Other(p)] \in Seq(Message)
  BY <1>1 DEF TypeOK
<1>4. ASSUME NEW start, Announces(wire[p], start)
      PROVE  Announces(wire'[p], start)
  <2>1. CASE link[Other(p)] = "closed"
    BY <1>4, <2>1 DEF Posted
  <2>2. CASE link[Other(p)] # "closed" /\ messages = <<>>
    <3>1. wire[p] \o <<>> = wire[p]
      BY <1>3
    <3> QED
      BY <1>4, <2>2, <3>1 DEF Posted
  <2>3. CASE link[Other(p)] # "closed" /\ messages # <<>>
    <3>1. PICK m \in Message : messages = <<m>> /\ m.type # "START"
      BY <2>3
    <3>2. Announces(wire[p] \o <<m>>, start)
      BY <1>3, <1>4, <3>1, AnnouncesMore
    <3> QED
      BY <2>3, <3>1, <3>2 DEF Posted
  <2> QED
    BY <2>1, <2>2, <2>3
<1>5. ASSUME NEW start, Announces(wire[Other(p)], start)
      PROVE  Announces(wire'[Other(p)], start)
  BY <1>3, <1>5, AnnouncesTail
<1>6. /\ Start(coordinator'[p].out) = Start(coordinator[p].out)
      /\ Start(coordinator'[Other(p)].out) = Start(coordinator[Other(p)].out)
  OBVIOUS
<1>7. Linked(p)'
  BY <1>2, <1>4, <1>6 DEF Linked, Start
<1>8. Linked(Other(p))'
  <2>1. link'[Other(p)] = "closed" => wire'[p] = <<>>
    BY <1>1, <1>2 DEF Linked, Posted
  <2> QED
    BY <1>1, <1>2, <1>5, <2>1 DEF Linked, Start
<1> QED
  BY <1>1, <1>7, <1>8 DEF LinkInv

LEMMA LinkReconcile ==
    ASSUME TypeOK, HeldInv, LinkInv, NEW p \in Peer, Reconcile(p),
           link'[p] = "open", link'[Other(p)] = link[Other(p)]
    PROVE  LinkInv'
<1>1. /\ Other(p) \in Peer /\ Other(Other(p)) = p
      /\ \A q \in Peer : q = p \/ q = Other(p)
  BY OtherFacts
<1>2. Linked(p) /\ Linked(Other(p))
  BY <1>1 DEF LinkInv
<1>3. wire[p] \in Seq(Message)
  BY DEF TypeOK
<1> DEFINE start == Start(coordinator'[p].out)
<1>4. /\ coordinator'[Other(p)] = coordinator[Other(p)]
      /\ start \in Message /\ start.type = "START"
      /\ wire'[p] = Posted(p, <<start>>)
      /\ wire'[Other(p)] = wire[Other(p)]
  BY ReconcileFacts
<1> HIDE DEF start
<1>5. Announces(wire'[p], start)
  <2>1. CASE link[Other(p)] = "closed"
    <3>1. wire'[p] = <<>>
      BY <1>1, <1>2, <1>4, <2>1 DEF Linked, Posted
    <3> QED
      BY <3>1, NothingAnnounced
  <2>2. CASE link[Other(p)] # "closed"
    <3>1. wire'[p] = wire[p] \o <<start>>
      BY <1>4, <2>2 DEF Posted
    <3>2. Announces(wire[p] \o <<start>>, start)
      BY <1>3, <1>4, AnnouncesMore
    <3> QED
      BY <3>1, <3>2
  <2> QED
    BY <2>1, <2>2
<1>6. Linked(p)'
  BY <1>5 DEF Linked, Start, start
<1>7. Linked(Other(p))'
  <2>1. link'[Other(p)] = "closed" => wire'[p] = <<>>
    BY <1>1, <1>2, <1>4 DEF Linked, Posted
  <2> QED
    BY <1>1, <1>2, <1>4, <2>1 DEF Linked, Start
<1> QED
  BY <1>1, <1>6, <1>7 DEF LinkInv

LEMMA LinkConnect ==
    ASSUME LinkInv, Connect
    PROVE  LinkInv'
<1> SUFFICES ASSUME NEW p \in Peer
             PROVE  Linked(p)'
  BY DEF LinkInv
<1>1. /\ link[p] = "closed" /\ link'[p] = "connecting" /\ wire'[p] = <<>>
      /\ coordinator' = coordinator
  BY DEF Connect
<1>2. ~coordinator[p].searching
  BY <1>1 DEF LinkInv, Linked
<1> QED
  BY <1>1, <1>2, NothingAnnounced DEF Linked, Start

LEMMA LinkClose ==
    ASSUME TypeOK, LinkInv, NEW p \in Peer, Close(p)
    PROVE  LinkInv'
<1>1. /\ Other(p) \in Peer /\ Other(p) # p /\ Other(Other(p)) = p
      /\ \A q \in Peer : q = p \/ q = Other(p)
  BY OtherFacts
<1>2. Linked(p) /\ Linked(Other(p))
  BY <1>1 DEF LinkInv
<1>3. /\ coordinator'[p] = NoCoordinator /\ coordinator'[Other(p)] = coordinator[Other(p)]
      /\ wire'[p] = wire[p] /\ wire'[Other(p)] = <<>>
      /\ link'[p] = "closed" /\ link'[Other(p)] = link[Other(p)]
  BY <1>1, DomainFacts DEF Close, TypeOK
<1>4. Linked(p)'
  BY <1>3, NoCoordinatorFacts DEF Linked
<1>5. Linked(Other(p))'
  BY <1>1, <1>2, <1>3, NothingAnnounced DEF Linked, Start
<1> QED
  BY <1>1, <1>4, <1>5 DEF LinkInv

\* What receiving a message does to the channel and to what p answers for.
LEMMA ReceiveSends ==
    ASSUME TypeOK, HeldInv, NEW p \in Peer, Receive(p)
    PROVE  /\ link[p] = "open" /\ link' = link
           /\ coordinator'[p].out = coordinator[p].out
           /\ coordinator'[Other(p)] = coordinator[Other(p)]
           /\ Receives(p, Arrived(p).type)
           /\ \E reply \in Seq(Message) :
                  /\ Respond(p, reply)
                  /\ reply = <<>> \/ \E m \in Message : reply = <<m>> /\ m.type # "START"
<1>1. CASE ReceiveStart(p)
  <2> DEFINE full == [type |-> "FULL", snapshot |-> coordinator[p].snapshot]
  <2>1. full.type = "FULL"
    OBVIOUS
  <2>2. /\ Receives(p, "START")
        /\ coordinator'[Other(p)] = coordinator[Other(p)]
        /\ coordinator'[p].out = coordinator[p].out
        /\ full \in Message
    BY <1>1, ReceiveStartFacts
  <2>3. PICK reply \in Seq(Message) :
          /\ Respond(p, reply)
          /\ \/ reply = <<>>
             \/ reply = <<full>>
             \/ \E a : reply = <<a>> /\ IsAskOf(coordinator'[p].in, a)
    BY <1>1, ReceiveStartFacts
  <2> HIDE DEF full
  <2>4. reply = <<>> \/ \E m \in Message : reply = <<m>> /\ m.type # "START"
    BY <2>1, <2>2, <2>3 DEF IsAskOf, IsAsk
  <2>5. Arrived(p).type = "START" /\ link[p] = "open" /\ link' = link
    BY <1>1, <2>2 DEF Receives, ReceiveStart
  <2> QED
    BY <2>2, <2>3, <2>4, <2>5
<1>2. CASE ReceiveQuery(p)
  <2> DEFINE r == [type   |-> "RESPONSE",
                   prefix |-> Arrived(p).prefix,
                   match  |-> Subtree(coordinator[p].out.hashes, Arrived(p).prefix) = Arrived(p).hashes]
  <2>1. r.type = "RESPONSE"
    OBVIOUS
  <2>2. /\ Receives(p, "QUERY") /\ r \in Message
        /\ Respond(p, <<r>>) /\ <<r>> \in Seq(Message)
    BY <1>2, ReceiveQueryFacts
  <2> HIDE DEF r
  <2>3. Arrived(p).type = "QUERY" /\ link[p] = "open"
    BY <2>2 DEF Receives
  <2>4. UNCHANGED <<link, coordinator>>
    BY <1>2 DEF ReceiveQuery
  <2> QED
    BY <2>1, <2>2, <2>3, <2>4
<1>3. CASE ReceiveResponse(p) \/ ReceiveBatch(p)
  <2>1. Answered(p, Arrived(p)) /\ Receives(p, Arrived(p).type)
    <3>1. CASE ReceiveResponse(p)
      BY <3>1, ResponseAnswered
    <3>2. CASE ReceiveBatch(p)
      BY <3>2, BatchAnswered
    <3> QED
      BY <1>3, <3>1, <3>2
  <2>2. PICK reply \in Seq(Message) :
          /\ Respond(p, reply)
          /\ reply = <<>> \/ \E a : reply = <<a>> /\ IsAskOf(coordinator[p].in, a)
    BY <2>1 DEF Answered
  <2>3. reply = <<>> \/ \E m \in Message : reply = <<m>> /\ m.type # "START"
    BY <2>2 DEF IsAskOf, IsAsk
  <2>4. /\ coordinator'[p].out = coordinator[p].out
        /\ coordinator'[Other(p)] = coordinator[Other(p)]
    BY <2>1 DEF Answered
  <2>5. link[p] = "open" /\ link' = link
    BY <1>3, <2>1 DEF Receives, ReceiveResponse, ReceiveBatch
  <2> QED
    BY <2>1, <2>2, <2>3, <2>4, <2>5
<1>4. CASE ReceiveSet(p)
  <2>1. Receives(p, "SET") /\ Respond(p, <<>>) /\ <<>> \in Seq(Message)
    BY <1>4, ReceiveSetFacts
  <2>2. Arrived(p).type = "SET" /\ link[p] = "open"
    BY <2>1 DEF Receives
  <2>3. UNCHANGED <<link, coordinator>>
    BY <1>4 DEF ReceiveSet
  <2> QED
    BY <2>1, <2>2, <2>3
<1>5. CASE ReceiveFull(p)
  <2>1. /\ Receives(p, "FULL") /\ Respond(p, <<>>) /\ <<>> \in Seq(Message)
        /\ coordinator'[Other(p)] = coordinator[Other(p)]
        /\ coordinator'[p].out = coordinator[p].out
    BY <1>5, ReceiveFullFacts
  <2>2. Arrived(p).type = "FULL" /\ link[p] = "open" /\ link' = link
    BY <1>5, <2>1 DEF Receives, ReceiveFull
  <2> QED
    BY <2>1, <2>2
<1> QED
  BY <1>1, <1>2, <1>3, <1>4, <1>5 DEF Receive

LEMMA LinkStep ==
    ASSUME TypeOK, HeldInv, LinkInv, [Next]_vars
    PROVE  LinkInv'
<1>1. ASSUME UNCHANGED <<link, coordinator, wire>>
      PROVE  LinkInv'
  BY <1>1 DEF LinkInv, Linked, Start
<1>2. CASE Connect
  BY <1>2, LinkConnect
<1>3. ASSUME NEW p \in Peer, TimerFires(p)
      PROVE  LinkInv'
  <2>1. CASE link[p] = "open"
    BY <1>3, <2>1, LinkReconcile DEF TimerFires
  <2>2. CASE link[p] # "open"
    BY <1>1, <1>3, <2>2 DEF TimerFires
  <2> QED
    BY <2>1, <2>2
<1>4. ASSUME NEW p \in Peer, Open(p)
      PROVE  LinkInv'
  <2>1. link'[p] = "open" /\ link'[Other(p)] = link[Other(p)]
    BY <1>4, OtherFacts DEF Open, TypeOK
  <2> QED
    BY <1>4, <2>1, LinkReconcile DEF Open
<1>5. ASSUME NEW p \in Peer, Close(p)
      PROVE  LinkInv'
  BY <1>5, LinkClose
<1>6. ASSUME NEW p \in Peer, Signed(p)
      PROVE  LinkInv'
  <2>1. PICK edits \in BagToSet(signing[p]) : LET m == [type |-> "BATCH", edits |-> edits] IN
          /\ m \in Message
          /\ wire'[p] = Posted(p, <<m>>)
          /\ wire'[Other(p)] = wire[Other(p)]
          /\ UNCHANGED <<link, coordinator>>
    BY <1>6, SignedFacts
  <2> DEFINE m == [type |-> "BATCH", edits |-> edits]
             messages == <<m>>
  <2>2. m.type # "START" /\ m \in Message
    BY <2>1
  <2> HIDE DEF m
  <2>3. messages \in Seq(Message) /\ messages = <<m>>
    BY <2>2, SequenceFacts
  <2>4. wire'[p] = Posted(p, messages)
    BY <2>1 DEF m
  <2> HIDE DEF messages
  <2> QED
    BY <2>1, <2>2, <2>3, <2>4, LinkPosted
<1>7. ASSUME NEW p \in Peer, Receive(p)
      PROVE  LinkInv'
  <2>1. /\ link[p] = "open" /\ link' = link
        /\ coordinator'[p].out = coordinator[p].out
        /\ coordinator'[Other(p)] = coordinator[Other(p)]
        /\ Receives(p, Arrived(p).type)
    BY <1>7, ReceiveSends
  <2>2. PICK reply \in Seq(Message) :
          /\ Respond(p, reply)
          /\ reply = <<>> \/ \E m \in Message : reply = <<m>> /\ m.type # "START"
    BY <1>7, ReceiveSends
  <2>3. /\ wire'[p] = Posted(p, reply)
        /\ wire'[Other(p)] = Tail(wire[Other(p)])
        /\ wire[Other(p)] # <<>>
    BY <2>1, <2>2, RespondFacts
  <2> QED
    BY <2>1, <2>2, <2>3, LinkPosted
<1>8. ASSUME NEW p \in Peer, (\E x \in Edit : Type(p, x)) \/ Stamped(p) \/ Verified(p)
      PROVE  LinkInv'
  BY <1>1, <1>8 DEF Type, Stamped, Verified
<1>9. CASE UNCHANGED vars
  BY <1>1, <1>9 DEF vars
<1> QED
  BY <1>2, <1>3, <1>4, <1>5, <1>6, <1>7, <1>8, <1>9 DEF Next

----------------------------------------------------------------------------
(* The search.                                                             *)

\* Nothing that p waits for is lost.
LEMMA PursuedKept ==
    ASSUME NEW p \in Peer,
           coordinator'[p].in.queue = coordinator[p].in.queue,
           BagToSet(signing[Other(p)]) \subseteq BagToSet(signing'[Other(p)]),
           \A m \in OnWire(wire[Other(p)]) : IsAnswer(m) => m \in OnWire(wire'[Other(p)]),
           \A m \in OnWire(wire[p]) : IsAsk(m) => m \in OnWire(wire'[p])
    PROVE  \A h : Pursued(p, h) => Pursued(p, h)'
<1>1. Active(p) => Active(p)'
  BY DEF Active
<1> QED
  BY <1>1 DEF Pursued, Brings, IsAnswer, Asks

\* What p searched for it still has or pursues, with the same two sessions.
LEMMA SearchesKept ==
    ASSUME NEW p \in Peer, Searches(p),
           Held(p) \subseteq Held(p)',
           link'[Other(p)] = link[Other(p)],
           coordinator'[Other(p)].out = coordinator[Other(p)].out,
           coordinator'[p].searching = coordinator[p].searching,
           coordinator'[p].in.odd = coordinator[p].in.odd,
           coordinator'[p].in.count = coordinator[p].in.count,
           NoStart(wire'[Other(p)]) => NoStart(wire[Other(p)]),
           coordinator[p].searching /\ link[Other(p)] # "closed" =>
               \A h \in coordinator[Other(p)].out.hashes :
                   Pursued(p, h) => h \in Held(p)' \/ Pursued(p, h)'
    PROVE  Searches(p)'
<1>1. Matches(p)' = Matches(p)
  BY DEF Matches
<1> QED
  BY <1>1 DEF Searches

\* A step in which p's search takes no part.
LEMMA SearchesOn ==
    ASSUME NEW p \in Peer, Searches(p),
           Held(p) \subseteq Held(p)',
           link'[Other(p)] = link[Other(p)],
           coordinator'[Other(p)].out = coordinator[Other(p)].out,
           coordinator'[p].searching = coordinator[p].searching,
           coordinator'[p].in = coordinator[p].in,
           NoStart(wire'[Other(p)]) => NoStart(wire[Other(p)]),
           BagToSet(signing[Other(p)]) \subseteq BagToSet(signing'[Other(p)]),
           \A m \in OnWire(wire[Other(p)]) : IsAnswer(m) => m \in OnWire(wire'[Other(p)]),
           \A m \in OnWire(wire[p]) : IsAsk(m) => m \in OnWire(wire'[p])
    PROVE  Searches(p)'
<1>1. \A h : Pursued(p, h) => Pursued(p, h)'
  BY PursuedKept
<1> QED
  BY <1>1, SearchesKept

\* Trees and batches to sign grow, and the channel is left alone.
LEMMA SearchGrow ==
    ASSUME SearchInv,
           \A p \in Peer : /\ Held(p) \subseteq Held(p)'
                           /\ BagToSet(signing[p]) \subseteq BagToSet(signing'[p]),
           UNCHANGED <<link, coordinator, wire>>
    PROVE  SearchInv'
<1> SUFFICES ASSUME NEW p \in Peer
             PROVE  Searches(p)'
  BY DEF SearchInv
<1>1. Searches(p) /\ Other(p) \in Peer
  BY OtherFacts DEF SearchInv
<1> QED
  BY <1>1, SearchesOn

\* A reconcile() drops the own search, and its START has the other one restart.
LEMMA SearchReconcile ==
    ASSUME TypeOK, HeldInv, LinkInv, NEW p \in Peer, Reconcile(p),
           link'[Other(p)] = link[Other(p)]
    PROVE  SearchInv'
<1>1. /\ Other(p) \in Peer /\ Other(Other(p)) = p
      /\ \A q \in Peer : q = p \/ q = Other(p)
  BY OtherFacts
<1> DEFINE start == Start(coordinator'[p].out)
<1>2. /\ ~coordinator'[p].searching
      /\ coordinator'[Other(p)] = coordinator[Other(p)]
      /\ start \in Message /\ start.type = "START"
      /\ wire'[p] = Posted(p, <<start>>)
  BY ReconcileFacts
<1> HIDE DEF start
<1>3. Searches(p)'
  BY <1>2 DEF Searches
<1>4. ASSUME coordinator[Other(p)].searching
      PROVE  ~NoStart(wire'[p])
  <2>1. link[Other(p)] = "open"
    BY <1>1, <1>4 DEF LinkInv, Linked
  <2> DEFINE messages == <<start>>
  <2>2. messages \in Seq(Message) /\ OnWire(messages) = {start} /\ wire'[p] = Posted(p, messages)
    BY <1>2, SequenceFacts, WireOne
  <2> HIDE DEF messages
  <2>3. start \in OnWire(wire'[p])
    BY <2>1, <2>2, PostedFacts
  <2> QED
    BY <1>2, <2>3 DEF NoStart
<1>5. Searches(Other(p))'
  BY <1>1, <1>2, <1>4 DEF Searches
<1> QED
  BY <1>1, <1>3, <1>5 DEF SearchInv

LEMMA SearchConnect ==
    ASSUME LinkInv, Connect
    PROVE  SearchInv'
<1> SUFFICES ASSUME NEW p \in Peer
             PROVE  Searches(p)'
  BY DEF SearchInv
<1>1. link[p] # "open" /\ coordinator' = coordinator
  BY DEF Connect
<1>2. ~coordinator[p].searching
  BY <1>1 DEF LinkInv, Linked
<1> QED
  BY <1>1, <1>2 DEF Searches

LEMMA SearchClose ==
    ASSUME TypeOK, NEW p \in Peer, Close(p)
    PROVE  SearchInv'
<1>1. /\ Other(p) \in Peer /\ Other(p) # p /\ Other(Other(p)) = p
      /\ \A q \in Peer : q = p \/ q = Other(p)
  BY OtherFacts
<1>2. coordinator'[p] = NoCoordinator /\ link'[p] = "closed"
  BY DomainFacts DEF Close, TypeOK
<1>3. Searches(p)'
  BY <1>2, NoCoordinatorFacts DEF Searches
<1>4. Searches(Other(p))'
  BY <1>1, <1>2 DEF Searches
<1> QED
  BY <1>1, <1>3, <1>4 DEF SearchInv

\* The batch that was signed is on its way to the one who searches.
LEMMA SearchSigned ==
    ASSUME TypeOK, LinkInv, SearchInv, NEW p \in Peer, Signed(p)
    PROVE  SearchInv'
<1>1. /\ Other(p) \in Peer /\ Other(Other(p)) = p
      /\ \A q \in Peer : q = p \/ q = Other(p)
  BY OtherFacts
<1>2. Searches(p) /\ Searches(Other(p))
  BY <1>1 DEF SearchInv
<1>3. PICK edits \in BagToSet(signing[p]) : LET m == [type |-> "BATCH", edits |-> edits] IN
        /\ m \in Message
        /\ BagToSet(signing[p]) \ {edits} \subseteq BagToSet(signing'[p])
        /\ signing'[Other(p)] = signing[Other(p)]
        /\ wire'[p] = Posted(p, <<m>>)
        /\ wire'[Other(p)] = wire[Other(p)]
        /\ UNCHANGED <<tree, link, coordinator>>
  BY SignedFacts
<1> DEFINE m == [type |-> "BATCH", edits |-> edits]
<1>4. m.type = "BATCH" /\ m.edits = edits /\ m \in Message /\ wire'[p] = Posted(p, <<m>>)
  BY <1>3
<1> HIDE DEF m
<1>5. <<m>> \in Seq(Message) /\ OnWire(<<m>>) = {m}
  BY <1>4, SequenceFacts, WireOne
<1>6. /\ OnWire(wire[p]) \subseteq OnWire(wire'[p])
      /\ link[Other(p)] # "closed" => m \in OnWire(wire'[p])
  BY <1>4, <1>5, PostedFacts
<1>7. Held(p)' = Held(p) /\ Held(Other(p))' = Held(Other(p))
  BY <1>3 DEF Held
<1>8. Searches(p)'
  BY <1>2, <1>3, <1>6, <1>7, SearchesOn
<1>9. Searches(Other(p))'
  <2>1. ASSUME coordinator[Other(p)].searching
        PROVE  \A h : Pursued(Other(p), h) => Pursued(Other(p), h)'
    <3>1. link[Other(p)] = "open"
      BY <1>1, <2>1 DEF LinkInv, Linked
    <3>2. m \in OnWire(wire'[p]) /\ IsAnswer(m) /\ \A h \in edits : Brings(m, h)
      BY <1>4, <1>6, <3>1 DEF IsAnswer, Brings
    <3>3. Active(Other(p))'
      BY <1>1, <3>2 DEF Active
    <3> QED
      BY <1>1, <1>3, <1>6, <3>2, <3>3 DEF Pursued
  <2>2. NoStart(wire'[p]) => NoStart(wire[p])
    BY <1>6 DEF NoStart
  <2> QED
    BY <1>1, <1>2, <1>3, <1>7, <2>1, <2>2, SearchesKept
<1> QED
  BY <1>1, <1>8, <1>9 DEF SearchInv

\* A START that arrives is answered so that nothing of the peer's is missed.
LEMMA SearchStart ==
    ASSUME TypeOK, HeldInv, LinkInv, SearchInv, NEW p \in Peer, ReceiveStart(p)
    PROVE  SearchInv'
<1>1. /\ Other(p) \in Peer /\ Other(Other(p)) = p
      /\ \A q \in Peer : q = p \/ q = Other(p)
  BY OtherFacts
<1>2. Searches(p) /\ Searches(Other(p))
  BY <1>1 DEF SearchInv
<1> DEFINE full == [type |-> "FULL", snapshot |-> coordinator[p].snapshot]
           m == Arrived(p)
           s == coordinator'[p].in
<1>3. /\ Receives(p, "START")
      /\ coordinator'[Other(p)] = coordinator[Other(p)]
      /\ coordinator'[p].out = coordinator[p].out
      /\ full.type = "FULL" /\ full \in Message
  BY ReceiveStartFacts
<1>4. PICK reply \in Seq(Message) :
        /\ Respond(p, reply)
        /\ \/ reply = <<>> /\ m.odd = s.odd /\ m.count = s.count
           \/ reply = <<full>> /\ m.count = 0
           \/ \E a : reply = <<a>> /\ IsAskOf(s, a) /\ \A h : Asks(a, h)
  BY ReceiveStartFacts
<1> HIDE DEF full
<1>5. UNCHANGED <<tree, link, signing>> /\ Held(p)' = Held(p) /\ Held(Other(p))' = Held(Other(p))
  BY DEF ReceiveStart, Held
<1>6. /\ OnWire(wire[p]) \subseteq OnWire(wire'[p])
      /\ link[Other(p)] # "closed" => OnWire(reply) \subseteq OnWire(wire'[p])
      /\ OnWire(wire[Other(p)]) \subseteq OnWire(wire'[Other(p)]) \cup {m}
  BY <1>3, <1>4, RespondWire
<1>7. m.type = "START"
  BY <1>3 DEF Receives
<1>8. ASSUME link[Other(p)] # "closed", NoStart(wire'[Other(p)])
      PROVE  m = Start(coordinator[Other(p)].out)
  <2>1. /\ wire'[Other(p)] = Tail(wire[Other(p)])
        /\ wire[Other(p)] \in Seq(Message) /\ wire[Other(p)] # <<>>
    BY <1>3, <1>4, RespondFacts
  <2>2. Announces(wire[Other(p)], Start(coordinator[Other(p)].out))
    BY <1>1, <1>8 DEF LinkInv, Linked
  <2> QED
    BY <1>7, <1>8, <2>1, <2>2, AnnouncesTail DEF Arrived
<1>9. Searches(p)'
  <2> SUFFICES ASSUME link[Other(p)] # "closed", NoStart(wire'[Other(p)]), ~Matches(p)',
                      NEW h \in coordinator[Other(p)].out.hashes
               PROVE  h \in Held(p)' \/ Pursued(p, h)'
    BY <1>3, <1>5 DEF Searches
  <2>1. /\ m.odd = coordinator[Other(p)].out.odd
        /\ m.count = coordinator[Other(p)].out.count
    BY <1>8 DEF Start
  <2>2. CASE reply = <<>> /\ m.odd = s.odd /\ m.count = s.count
    BY <1>3, <2>1, <2>2 DEF Matches
  <2>3. CASE reply = <<full>> /\ m.count = 0
    BY <1>1, <2>1, <2>3 DEF HeldInv, Holds
  <2>4. CASE \E a : reply = <<a>> /\ IsAskOf(s, a) /\ \A g : Asks(a, g)
    <3>1. PICK a : reply = <<a>> /\ \A g : Asks(a, g)
      BY <2>4
    <3>2. a \in OnWire(wire'[p])
      BY <1>6, <3>1, WireOne
    <3> QED
      BY <3>1, <3>2 DEF Pursued
  <2> QED
    BY <1>4, <2>2, <2>3, <2>4
<1>10. Searches(Other(p))'
  <2>1. NoStart(wire'[p]) => NoStart(wire[p])
    BY <1>6 DEF NoStart
  <2>2. \A a \in OnWire(wire[Other(p)]) : IsAsk(a) => a \in OnWire(wire'[Other(p)])
    BY <1>6, <1>7 DEF IsAsk
  <2> QED
    BY <1>1, <1>2, <1>3, <1>5, <1>6, <2>1, <2>2, SearchesOn
<1> QED
  BY <1>1, <1>9, <1>10 DEF SearchInv

\* A question that arrives is answered, or what was asked for is there already.
LEMMA SearchQuery ==
    ASSUME TypeOK, HeldInv, LinkInv, SearchInv, NEW p \in Peer, ReceiveQuery(p)
    PROVE  SearchInv'
<1>1. /\ Other(p) \in Peer /\ Other(Other(p)) = p
      /\ \A q \in Peer : q = p \/ q = Other(p)
  BY OtherFacts
<1>2. Searches(p) /\ Searches(Other(p))
  BY <1>1 DEF SearchInv
<1> DEFINE m == Arrived(p)
           hashes == coordinator[p].out.hashes
           r == [type   |-> "RESPONSE",
                 prefix |-> m.prefix,
                 match  |-> Subtree(hashes, m.prefix) = m.hashes]
<1>3. /\ Receives(p, "QUERY") /\ Respond(p, <<r>>) /\ <<r>> \in Seq(Message)
  BY ReceiveQueryFacts
<1>4. /\ r.type = "RESPONSE" /\ r.prefix = m.prefix
      /\ r.match <=> Subtree(hashes, m.prefix) = m.hashes
  OBVIOUS
<1> HIDE DEF r
<1>5. UNCHANGED <<tree, link, coordinator, signing>> /\ \A q \in Peer : Held(q)' = Held(q)
  BY DEF ReceiveQuery, Held
<1>6. /\ OnWire(wire[p]) \subseteq OnWire(wire'[p])
      /\ link[Other(p)] # "closed" => r \in OnWire(wire'[p])
      /\ OnWire(wire[Other(p)]) \subseteq OnWire(wire'[Other(p)]) \cup {m}
  <2>1. OnWire(<<r>>) = {r}
    BY WireOne
  <2> QED
    BY <1>3, <2>1, RespondWire
<1>7. m.type = "QUERY" /\ m.hashes \subseteq Held(Other(p))
  BY <1>3, ArrivedHeld DEF IsAsk
<1>8. Searches(p)'
  <2>1. NoStart(wire'[Other(p)]) => NoStart(wire[Other(p)])
    BY <1>6, <1>7 DEF NoStart
  <2>2. \A a \in OnWire(wire[Other(p)]) : IsAnswer(a) => a \in OnWire(wire'[Other(p)])
    BY <1>6, <1>7 DEF IsAnswer
  <2> QED
    BY <1>2, <1>5, <1>6, <2>1, <2>2, SearchesOn
<1>9. Searches(Other(p))'
  <2>1. NoStart(wire'[p]) => NoStart(wire[p])
    BY <1>6 DEF NoStart
  <2>2. ASSUME coordinator[Other(p)].searching,
               NEW h \in hashes, Pursued(Other(p), h)
        PROVE  h \in Held(Other(p))' \/ Pursued(Other(p), h)'
    <3>1. link[Other(p)] = "open"
      BY <1>1, <2>2 DEF LinkInv, Linked
    <3>2. r \in OnWire(wire'[p]) /\ IsAnswer(r)
      BY <1>4, <1>6, <3>1 DEF IsAnswer
    <3>3. Active(Other(p))'
      BY <1>1, <3>2 DEF Active
    <3>4. CASE Asks(m, h)
      <4>1. CASE r.match
        BY <1>1, <1>4, <1>5, <1>7, <2>2, <3>4, <4>1, SubtreeFacts DEF Asks
      <4>2. CASE ~r.match
        BY <1>1, <1>4, <3>2, <3>4, <4>2 DEF Asks, Brings, Pursued
      <4> QED
        BY <4>1, <4>2
    <3>5. CASE ~Asks(m, h)
      BY <1>1, <1>5, <1>6, <2>2, <3>3, <3>5 DEF Pursued
    <3> QED
      BY <3>4, <3>5
  <2> QED
    BY <1>1, <1>2, <1>5, <2>1, <2>2, SearchesKept
<1> QED
  BY <1>1, <1>8, <1>9 DEF SearchInv

\* What is asked for with a SET is signed, or there already.
LEMMA SearchSet ==
    ASSUME TypeOK, HeldInv, LinkInv, SearchInv, NEW p \in Peer, ReceiveSet(p)
    PROVE  SearchInv'
<1>1. /\ Other(p) \in Peer /\ Other(Other(p)) = p
      /\ \A q \in Peer : q = p \/ q = Other(p)
  BY OtherFacts
<1>2. Searches(p) /\ Searches(Other(p))
  BY <1>1 DEF SearchInv
<1> DEFINE m == Arrived(p)
           hashes == coordinator[p].out.hashes
           edits == Subtree(hashes, m.prefix) \ m.hashes
<1>3. /\ Receives(p, "SET") /\ Respond(p, <<>>) /\ <<>> \in Seq(Message)
      /\ BagToSet(signing'[p]) = BagToSet(signing[p]) \cup {edits}
      /\ signing'[Other(p)] = signing[Other(p)]
  BY ReceiveSetFacts
<1>4. \A h \in hashes : Under(h, m.prefix) => h \in edits \/ h \in m.hashes
  BY SubtreeFacts
<1> HIDE DEF edits
<1>5. UNCHANGED <<tree, link, coordinator>> /\ \A q \in Peer : Held(q)' = Held(q)
  BY DEF ReceiveSet, Held
<1>6. /\ OnWire(wire[p]) \subseteq OnWire(wire'[p])
      /\ OnWire(wire[Other(p)]) \subseteq OnWire(wire'[Other(p)]) \cup {m}
  BY <1>3, RespondWire
<1>7. m.type = "SET" /\ m.hashes \subseteq Held(Other(p))
  BY <1>3, ArrivedHeld DEF IsAsk
<1>8. Searches(p)'
  <2>1. NoStart(wire'[Other(p)]) => NoStart(wire[Other(p)])
    BY <1>6, <1>7 DEF NoStart
  <2>2. \A a \in OnWire(wire[Other(p)]) : IsAnswer(a) => a \in OnWire(wire'[Other(p)])
    BY <1>6, <1>7 DEF IsAnswer
  <2> QED
    BY <1>2, <1>3, <1>5, <1>6, <2>1, <2>2, SearchesOn
<1>9. Searches(Other(p))'
  <2>1. NoStart(wire'[p]) => NoStart(wire[p])
    BY <1>6 DEF NoStart
  <2>2. ASSUME NEW h \in hashes, Pursued(Other(p), h)
        PROVE  h \in Held(Other(p))' \/ Pursued(Other(p), h)'
    <3>1. edits \in BagToSet(signing'[p])
      BY <1>3
    <3>2. Active(Other(p))'
      BY <1>1, <3>1 DEF Active
    <3>3. CASE Asks(m, h)
      BY <1>1, <1>4, <1>5, <1>7, <3>1, <3>3 DEF Asks, Pursued
    <3>4. CASE ~Asks(m, h)
      BY <1>1, <1>3, <1>5, <1>6, <2>2, <3>2, <3>4 DEF Pursued
    <3> QED
      BY <3>3, <3>4
  <2> QED
    BY <1>1, <1>2, <1>5, <2>1, <2>2, SearchesKept
<1> QED
  BY <1>1, <1>8, <1>9 DEF SearchInv

\* An answer to its question has the search go on with all that is left.
LEMMA SearchAnswered ==
    ASSUME TypeOK, HeldInv, LinkInv, SearchInv, NEW p \in Peer, NEW m,
           Receives(p, m.type), m = Arrived(p), IsAnswer(m), Answered(p, m),
           UNCHANGED <<link, signing>>,
           Held(p) \subseteq Held(p)', Held(Other(p))' = Held(Other(p)),
           m.type = "BATCH" => m.edits \subseteq Held(p)'
    PROVE  SearchInv'
<1>1. /\ Other(p) \in Peer /\ Other(Other(p)) = p
      /\ \A q \in Peer : q = p \/ q = Other(p)
  BY OtherFacts
<1>2. Searches(p) /\ Searches(Other(p))
  BY <1>1 DEF SearchInv
<1>3. PICK reply \in Seq(Message) :
        /\ Respond(p, reply)
        /\ reply = <<>> \/ \E a : reply = <<a>> /\ IsAskOf(coordinator[p].in, a)
        /\ coordinator[p].searching => AsksOn(coordinator[p].in, m, coordinator'[p].in, reply)
  BY DEF Answered
<1>4. /\ coordinator'[Other(p)] = coordinator[Other(p)]
      /\ coordinator'[p].out = coordinator[p].out
      /\ coordinator'[p].searching = coordinator[p].searching
      /\ coordinator'[p].in.odd = coordinator[p].in.odd
      /\ coordinator'[p].in.count = coordinator[p].in.count
  BY DEF Answered, Keeps
<1>5. /\ OnWire(wire[p]) \subseteq OnWire(wire'[p])
      /\ link[Other(p)] # "closed" => OnWire(reply) \subseteq OnWire(wire'[p])
      /\ OnWire(wire[Other(p)]) \subseteq OnWire(wire'[Other(p)]) \cup {m}
  BY <1>3, RespondWire
<1>6. m.type # "START" /\ ~IsAsk(m)
  BY DEF IsAnswer, IsAsk
<1>7. Searches(p)'
  <2>1. NoStart(wire'[Other(p)]) => NoStart(wire[Other(p)])
    BY <1>5, <1>6 DEF NoStart
  <2>2. ASSUME coordinator[p].searching, link[Other(p)] # "closed",
               NEW h \in coordinator[Other(p)].out.hashes, Pursued(p, h)
        PROVE  h \in Held(p)' \/ Pursued(p, h)'
    <3>1. h \in Payload
      BY <1>1, SearchFacts DEF IsSession
    <3>2. ASSUME Left(coordinator[p].in, m, h)
          PROVE  Pursued(p, h)'
      <4>1. PICK a : /\ reply = <<a>> /\ IsAskOf(coordinator[p].in, a)
                     /\ Asks(a, h) \/ Queued(coordinator'[p].in, h)
        BY <1>3, <2>2, <3>1, <3>2 DEF AsksOn
      <4>2. a \in OnWire(wire'[p]) /\ IsAsk(a)
        BY <1>5, <2>2, <4>1, WireOne DEF IsAskOf
      <4>3. Active(p)'
        BY <4>2 DEF Active
      <4> QED
        BY <4>1, <4>2, <4>3 DEF Pursued, Queued
    <3>3. CASE \E edits \in BagToSet(signing[Other(p)]) : h \in edits
      BY <3>3 DEF Pursued
    <3>4. CASE \E a \in OnWire(wire[Other(p)]) : Brings(a, h)
      <4>1. PICK a \in OnWire(wire[Other(p)]) : Brings(a, h)
        BY <3>4
      <4>2. CASE a = m
        BY <3>2, <4>1, <4>2 DEF Brings, Left
      <4>3. CASE a # m
        BY <1>5, <4>1, <4>3 DEF Pursued
      <4> QED
        BY <4>2, <4>3
    <3>5. CASE \E a \in OnWire(wire[p]) : Asks(a, h)
      BY <1>5, <3>5 DEF Pursued
    <3>6. CASE Queued(coordinator[p].in, h)
      BY <3>2, <3>6 DEF Left
    <3> QED
      BY <2>2, <3>3, <3>4, <3>5, <3>6 DEF Pursued, Queued
  <2> QED
    BY <1>2, <1>4, <2>1, <2>2, SearchesKept
<1>8. Searches(Other(p))'
  <2>1. NoStart(wire'[p]) => NoStart(wire[p])
    BY <1>5 DEF NoStart
  <2>2. \A a \in OnWire(wire[Other(p)]) : IsAsk(a) => a \in OnWire(wire'[Other(p)])
    BY <1>5, <1>6
  <2> QED
    BY <1>1, <1>2, <1>4, <1>5, <2>1, <2>2, SearchesOn
<1> QED
  BY <1>1, <1>7, <1>8 DEF SearchInv

\* A snapshot is no part of the search.
LEMMA SearchFull ==
    ASSUME TypeOK, SearchInv, NEW p \in Peer, ReceiveFull(p)
    PROVE  SearchInv'
<1>1. /\ Other(p) \in Peer /\ Other(Other(p)) = p
      /\ \A q \in Peer : q = p \/ q = Other(p)
  BY OtherFacts
<1>2. Searches(p) /\ Searches(Other(p))
  BY <1>1 DEF SearchInv
<1> DEFINE m == Arrived(p)
           d == coordinator'[p]
           c == coordinator[p]
<1>3. /\ Receives(p, "FULL") /\ Respond(p, <<>>) /\ <<>> \in Seq(Message)
      /\ coordinator'[Other(p)] = coordinator[Other(p)]
      /\ d.out = c.out /\ d.in = c.in /\ d.searching = c.searching
      /\ Held(p) \subseteq Held(p)' /\ tree'[Other(p)] = tree[Other(p)]
  BY ReceiveFullFacts
<1>4. UNCHANGED <<link, signing>> /\ Held(Other(p))' = Held(Other(p))
  BY <1>3 DEF ReceiveFull, Held
<1>5. /\ OnWire(wire[p]) \subseteq OnWire(wire'[p])
      /\ OnWire(wire[Other(p)]) \subseteq OnWire(wire'[Other(p)]) \cup {m}
      /\ m.type = "FULL"
  BY <1>3, RespondWire DEF Receives
<1>6. /\ NoStart(wire'[p]) => NoStart(wire[p])
      /\ NoStart(wire'[Other(p)]) => NoStart(wire[Other(p)])
  BY <1>5 DEF NoStart
<1>7. \A a \in OnWire(wire[Other(p)]) : IsAnswer(a) \/ IsAsk(a) => a \in OnWire(wire'[Other(p)])
  BY <1>5 DEF IsAnswer, IsAsk
<1>8. Searches(p)' /\ Searches(Other(p))'
  BY <1>1, <1>2, <1>3, <1>4, <1>5, <1>6, <1>7, SearchesOn
<1> QED
  BY <1>1, <1>8 DEF SearchInv

LEMMA SearchStep ==
    ASSUME TypeOK, HeldInv, LinkInv, SearchInv, [Next]_vars
    PROVE  SearchInv'
<1>1. CASE Connect
  BY <1>1, SearchConnect
<1>2. ASSUME NEW p \in Peer, NEW x \in Edit,
             AppendTyped(p, x) \/ UNCHANGED <<tree, signing>>,
             UNCHANGED <<link, coordinator, wire>>
      PROVE  SearchInv'
  BY <1>2, TypedFacts, SearchGrow
<1>3. ASSUME NEW p \in Peer, NEW x \in Edit, Type(p, x)
      PROVE  SearchInv'
  BY <1>2, <1>3 DEF Type
<1>4. ASSUME NEW p \in Peer, Stamped(p)
      PROVE  SearchInv'
  <2>1. PICK x \in BagToSet(stamping[p]) :
          AppendTyped(p, x) /\ UNCHANGED <<link, coordinator, wire>>
    BY <1>4 DEF Stamped
  <2>2. x \in Edit
    BY DEF TypeOK, IsBagOf
  <2> QED
    BY <1>2, <2>1, <2>2
<1>5. ASSUME NEW p \in Peer, Verified(p)
      PROVE  SearchInv'
  <2>1. PICK h \in BagToSet(verifying[p]) :
          /\ h \in Payload
          /\ Appended(p, {h})
          /\ UNCHANGED <<link, coordinator, wire, signing>>
    BY <1>5, VerifiedFacts
  <2>2. {h} \in SUBSET Payload
    BY <2>1
  <2>3. Held(p) \subseteq Held(p)' /\ Held(Other(p))' = Held(Other(p))
    BY <2>1, <2>2, AppendedFacts
  <2>4. \A q \in Peer : Held(q) \subseteq Held(q)'
    BY <2>3, OtherFacts
  <2> QED
    BY <2>1, <2>4, SearchGrow
<1>6. ASSUME UNCHANGED <<tree, link, coordinator, wire, signing>>
      PROVE  SearchInv'
  <2>1. \A q \in Peer : Held(q)' = Held(q)
    BY <1>6 DEF Held
  <2> QED
    BY <1>6, <2>1, SearchGrow
<1>7. ASSUME NEW p \in Peer, TimerFires(p)
      PROVE  SearchInv'
  <2>1. CASE link[p] = "open"
    BY <1>7, <2>1, SearchReconcile DEF TimerFires
  <2>2. CASE link[p] # "open"
    BY <1>6, <1>7, <2>2 DEF TimerFires
  <2> QED
    BY <2>1, <2>2
<1>8. ASSUME NEW p \in Peer, Open(p)
      PROVE  SearchInv'
  <2>1. link'[Other(p)] = link[Other(p)]
    BY <1>8, OtherFacts DEF Open, TypeOK
  <2> QED
    BY <1>8, <2>1, SearchReconcile DEF Open
<1>9. ASSUME NEW p \in Peer, Close(p) \/ Signed(p)
      PROVE  SearchInv'
  BY <1>9, SearchClose, SearchSigned
<1>10. ASSUME NEW p \in Peer, ReceiveResponse(p)
       PROVE  SearchInv'
  <2>1. Answered(p, Arrived(p)) /\ Receives(p, "RESPONSE") /\ Arrived(p).type = "RESPONSE"
    BY <1>10, ResponseAnswered
  <2>2. UNCHANGED <<tree, link, signing>>
    BY <1>10 DEF ReceiveResponse
  <2>3. Held(p)' = Held(p) /\ Held(Other(p))' = Held(Other(p))
    BY <2>2 DEF Held
  <2> QED
    BY <2>1, <2>2, <2>3, SearchAnswered DEF IsAnswer
<1>11. ASSUME NEW p \in Peer, ReceiveBatch(p)
       PROVE  SearchInv'
  <2>1. /\ Answered(p, Arrived(p)) /\ Receives(p, "BATCH") /\ Arrived(p).type = "BATCH"
        /\ Arrived(p).edits \in SUBSET Payload
        /\ Appended(p, Arrived(p).edits)
    BY <1>11, BatchAnswered
  <2>2. UNCHANGED <<link, signing>>
    BY <1>11 DEF ReceiveBatch
  <2>3. Held(p)' = Held(p) \cup Arrived(p).edits /\ Held(Other(p))' = Held(Other(p))
    BY <2>1, AppendedFacts
  <2> QED
    BY <2>1, <2>2, <2>3, SearchAnswered DEF IsAnswer
<1>12. ASSUME NEW p \in Peer, Receive(p)
       PROVE  SearchInv'
  BY <1>10, <1>11, <1>12, SearchStart, SearchQuery, SearchSet, SearchFull DEF Receive
<1>13. CASE UNCHANGED vars
  BY <1>6, <1>13 DEF vars
<1> QED
  BY <1>1, <1>3, <1>4, <1>5, <1>7, <1>8, <1>9, <1>12, <1>13 DEF Next

----------------------------------------------------------------------------
(* The theorems.                                                           *)

LEMMA InvInit == Init => IInv
<1> SUFFICES ASSUME Init
             PROVE  IInv
  OBVIOUS
<1>1. TypeOK
  BY TypeInit
<1>2. ASSUME NEW p \in Peer
      PROVE  /\ IsFiniteSet(Held(p)) /\ \A h \in Held(p) : \E x \in Edit : h = Typed(x)
             /\ shown[p] = Covered(Held(p)) /\ link[p] = "closed"
             /\ coordinator[p] = NoCoordinator /\ wire[p] = <<>>
             /\ stamping[p] = EmptyBag /\ signing[p] = EmptyBag /\ verifying[p] = EmptyBag
  BY <1>2, TreesAssumption DEF Init, Held
<1>3. OnWire(<<>>) = {} /\ BagToSet(EmptyBag) = {}
  BY WireEmpty, EmptyBagFacts
<1>4. HeldInv
  BY <1>2, <1>3, NoCoordinatorFacts DEF HeldInv, Holds
<1>5. AuthorInv
  <2> SUFFICES ASSUME NEW p \in Peer
               PROVE  Authors(p)
    BY DEF AuthorInv
  <2>1. \A x \in Edit : Typed(x) \in Held(p) => x \in shown[p]
    BY <1>2, PayloadFacts DEF Covered
  <2>2. \A h \in Held(p) : Authored(h.covers)
    BY <1>2, PayloadFacts DEF Authored
  <2>3. IsMerge(NoCoordinator.snapshot) /\ Covered(NoCoordinator.out.hashes) = {}
    BY NoCoordinatorFacts DEF IsMerge, Authored, Covered
  <2> QED
    BY <1>2, <1>3, <2>1, <2>2, <2>3 DEF Authors
<1>6. LinkInv /\ SearchInv
  BY <1>2, NoCoordinatorFacts, OtherFacts DEF LinkInv, Linked, SearchInv, Searches
<1> QED
  BY <1>1, <1>4, <1>5, <1>6 DEF IInv

LEMMA InvNext == IInv /\ [Next]_vars => IInv'
BY TypeStep, HeldStep, AuthorStep, LinkStep, SearchStep DEF IInv

THEOREM Invariance == Spec => []IInv
BY InvInit, InvNext, PTL DEF Spec

\* Type correctness.
THEOREM TypeCorrect == Spec => []TypeOK
<1>1. IInv => TypeOK
  BY DEF IInv
<1> QED
  BY <1>1, Invariance, PTL

\* When all is quiet nothing is pursued any more.
LEMMA PullFromInv == IInv => PullIsComplete
<1> SUFFICES ASSUME IInv, Connected, Quiet, NEW p \in Peer,
                    coordinator[p].searching, Matches(p) => Agrees(p)
             PROVE  Covered(coordinator[Other(p)].out.hashes) \subseteq shown[p]
  BY DEF PullIsComplete
<1> DEFINE theirs == coordinator[Other(p)].out.hashes
<1>1. Other(p) \in Peer /\ Other(Other(p)) = p
  BY OtherFacts
<1>2. /\ wire[p] = <<>> /\ wire[Other(p)] = <<>>
      /\ signing[Other(p)] = EmptyBag /\ link[Other(p)] # "closed"
  BY <1>1 DEF Quiet, Connected
<1>3. OnWire(<<>>) = {} /\ BagToSet(EmptyBag) = {}
  BY WireEmpty, EmptyBagFacts
<1>4. theirs \subseteq Held(p)
  <2>1. CASE Matches(p)
    BY <2>1 DEF Agrees, IInv, HeldInv, Holds
  <2>2. CASE ~Matches(p)
    <3>1. \A h : ~Pursued(p, h)
      BY <1>2, <1>3 DEF Pursued, Active
    <3>2. NoStart(wire[Other(p)])
      BY <1>2, <1>3 DEF NoStart
    <3> QED
      BY <1>2, <2>2, <3>1, <3>2 DEF IInv, SearchInv, Searches
  <2> QED
    BY <2>1, <2>2
<1>5. ASSUME NEW x \in Covered(theirs)
      PROVE  x \in shown[p]
  <2>1. Typed(x) \in theirs \/ Typed(x) \in Held(p)
    BY <1>1 DEF IInv, AuthorInv, Authors
  <2>2. x \in Edit
    BY <1>1, SearchFacts, PayloadFacts DEF IInv, IsSession
  <2> QED
    BY <1>4, <2>1, <2>2 DEF IInv, AuthorInv, Authors
<1> QED
  BY <1>5

\* A search finds everything: with both ends open and nothing under way, a peer
\* that searched shows every edit the other one announced, unless the START
\* looked like the own tree and was not.
THEOREM PullCorrect == Spec => []PullIsComplete
BY Invariance, PullFromInv, PTL

============================================================================
