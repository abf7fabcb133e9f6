------------------------ MODULE SnapshotExchangeProofs ------------------------
(***************************************************************************)
(* Proofs about SnapshotExchange, for every set of snapshots, every number *)
(* of chunks, and every budget and bound: its types, that a requested CID  *)
(* is pursued in exactly one way, that an offered tip arrives, and that    *)
(* the exchange implements BlockTransfer.                                  *)
(*                                                                         *)
(* The two channels meet the proofs only through what a channel says about *)
(* one CID: whether a message on it asks for the CID or answers for it,    *)
(* that at most one does, and which chunk is next.  A first group of       *)
(* lemmas tells how taking a message and appending messages change that.   *)
(***************************************************************************)
EXTENDS SnapshotExchange, FiniteSetTheorems, TLAPS

Asked(s, c)        == Asking(s, c) # {}
Answered(s, c)     == Answering(s, c) # {}
AskedOnce(s, c)    == \A i, j \in Asking(s, c) : i = j
AnsweredOnce(s, c) == \A i, j \in Answering(s, c) : i = j

(* The chunk that a channel answers with is the one after n. *)
InStep(s, c, n) == \A i \in Answering(s, c) : s[i].type = "block" => s[i].part = n + 1

(* A catalog on the channel names t, and no later message refuses t. *)
NoNak(s, t)    == \A j \in DOMAIN s : s[j] # Nak(t)
Promised(s, t) ==
  \E i \in DOMAIN s :
    /\ s[i].type = "catalog" /\ s[i].tip = t
    /\ \A j \in DOMAIN s : j > i => s[j] # Nak(t)

(* What is sent: catalogs are finite and a request names a CID once. *)
Injective(s) == \A i, j \in DOMAIN s : s[i] = s[j] => i = j

Sent ==
  {m \in Messages : /\ m.type = "catalog" => IsFiniteSet(m.cids)
                    /\ m.type = "request" => Injective(m.asked)}

-----------------------------------------------------------------------------
(* The inductive invariant. *)
Had(p, c) == delivered[p][c] > 0

Pursued(p, c) ==
  LET A == Asked(chan[Other(p)], c)
      R == Answered(chan[p], c)
      V == c \in verifying[p]
      D == Had(p, c)
  IN /\ AskedOnce(chan[Other(p)], c) /\ AnsweredOnce(chan[p], c)
     /\ InStep(chan[p], c, pending[p][c])
     /\ pending[p][c] > 0 => R
     /\ c \in requested[p] <=> A \/ R \/ V \/ D
     /\ ~(A /\ R) /\ ~(A /\ V) /\ ~(A /\ D) /\ ~(R /\ V) /\ ~(R /\ D) /\ ~(V /\ D)

(* The resolver keeps in IndexedDB what it has in memory and what was       *)
(* delivered.                                                               *)
Kept(p) ==
  /\ IsFiniteSet(stored[p]) /\ mem[p] \subseteq stored[p]
  /\ \A c \in Cids : Had(p, c) => c \in stored[p]

(* An offered tip is in memory, and the other peer has it, is about to hear *)
(* of it or has asked for it and will not be refused.                       *)
Offer(p) ==
  LET t == offered[p]
      q == Other(p)
  IN t # 0 =>
       /\ t \in mem[p]
       /\ t \notin Invalid =>
            \/ t \in stored[q]
            \/ Promised(chan[q], t)
            \/ t \in requested[q] /\ NoNak(chan[q], t)

(* TypeOK, variable by variable, with what is sent for the messages. *)
Typed ==
  /\ mem \in [Peers -> SUBSET Cids] /\ stored \in [Peers -> SUBSET Cids]
  /\ requested \in [Peers -> SUBSET Cids] /\ verifying \in [Peers -> SUBSET Cids]
  /\ tip \in [Peers -> Cids \cup {0}] /\ offered \in [Peers -> Cids \cup {0}]
  /\ chan \in [Peers -> Seq(Sent)]
  /\ pending \in [Peers -> [Cids -> Nat]] /\ delivered \in [Peers -> [Cids -> Nat]]
  /\ \A p \in Peers, c \in Cids : pending[p][c] < Parts(c)
  /\ adverts \in [Peers -> 0..MaxAdverts]
  /\ obtained \in 0..MaxObtained /\ losses \in 0..MaxLosses

IInv ==
  /\ Typed
  /\ \A p \in Peers : Kept(p) /\ Offer(p)
  /\ \A p \in Peers, c \in Cids : Pursued(p, c)

-----------------------------------------------------------------------------
(* Messages and channels. *)

(* The fields of each kind of message. *)
LEMMA Shapes ==
  ASSUME NEW m \in Messages
  PROVE  /\ m.type \in {"catalog", "request", "block", "nak"}
         /\ m.type = "catalog" => m.cids \subseteq Cids /\ m.tip \in Cids \cup {0}
         /\ m.type = "request" => m.asked \in Seq(Cids)
         /\ m.type = "block" => /\ m.cid \in Cids /\ m.part \in Nat \ {0}
                               /\ m = Chunks(m.cid, m.part)
         /\ m.type = "nak" => m.cid \in Cids /\ m = Nak(m.cid)
  BY DEF Messages, Chunks, Nak

(* Each kind of message is a message. *)
LEMMA Made ==
  /\ \A e \in SUBSET Cids, t \in Cids \cup {0} : Catalog(e, t) \in Messages
  /\ \A a \in Seq(Cids) : Request(a) \in Messages
  /\ \A c \in Cids, i \in Nat \ {0} : Chunks(c, i) \in Messages
  /\ \A c \in Cids : Nak(c) \in Messages
  BY DEF Messages, Chunks, Nak, Catalog, Request

(* A block with more chunks to come after this one. *)
More(m) == m.type = "block" /\ m.part < Parts(m.cid)

(* What is left on a channel: the same messages without the first, or with  *)
(* the next chunk of the first.                                             *)
LEMMA RestShape ==
  ASSUME NEW s \in Seq(Messages), s # <<>>
  PROVE  /\ s[1] \in Messages /\ Head(s) = s[1] /\ 1 \in DOMAIN s
         /\ ~More(s[1]) => /\ DOMAIN Rest(s) = 1..(Len(s) - 1)
                           /\ \A i \in 1..(Len(s) - 1) : Rest(s)[i] = s[i + 1]
         /\ More(s[1]) => /\ DOMAIN Rest(s) = 1..Len(s)
                          /\ Rest(s)[1] = Chunks(s[1].cid, s[1].part + 1)
                          /\ \A i \in 2..Len(s) : Rest(s)[i] = s[i]
<1>1. Len(s) \in Nat \ {0} /\ DOMAIN s = 1..Len(s) /\ Head(s) = s[1] /\ s[1] \in Messages
  OBVIOUS
<1>2. CASE ~More(s[1])
  <2>1. Rest(s) = Tail(s)
    BY <1>1, <1>2 DEF Rest, More
  <2>2. Len(Tail(s)) = Len(s) - 1 /\ \A i \in 1..(Len(s) - 1) : Tail(s)[i] = s[i + 1]
    BY <1>1
  <2>3. DOMAIN Tail(s) = 1..(Len(s) - 1)
    BY <1>1, <2>2
  <2>4. DOMAIN Rest(s) = 1..(Len(s) - 1)
    BY <2>1, <2>3, Zenon
  <2>5. \A i \in 1..(Len(s) - 1) : Rest(s)[i] = s[i + 1]
    BY <2>1, <2>2, Zenon
  <2>6. 1 \in DOMAIN s
    BY <1>1
  <2> QED BY <1>1, <1>2, <2>4, <2>5, <2>6, Zenon
<1>3. CASE More(s[1])
  <2>1. Rest(s) = [s EXCEPT ![1] = Chunks(s[1].cid, s[1].part + 1)]
    BY <1>1, <1>3 DEF Rest, More
  <2> QED BY <1>1, <1>3, <2>1
<1> QED BY <1>1, <1>2, <1>3

(* The same for two channels put one after the other. *)
LEMMA CatShape ==
  ASSUME NEW M, NEW s \in Seq(M), NEW t \in Seq(M)
  PROVE  /\ s \o t \in Seq(M) /\ Len(s) \in Nat /\ Len(t) \in Nat
         /\ DOMAIN s = 1..Len(s) /\ DOMAIN t = 1..Len(t)
         /\ DOMAIN (s \o t) = 1..(Len(s) + Len(t))
         /\ \A i \in 1..Len(s) : (s \o t)[i] = s[i]
         /\ \A i \in 1..Len(t) : (s \o t)[Len(s) + i] = t[i]
<1>1. Len(s \o t) = Len(s) + Len(t)
  OBVIOUS
<1>2. s \o t \in Seq(M) /\ DOMAIN (s \o t) = 1..Len(s \o t)
  OBVIOUS
<1> QED BY <1>1, <1>2

LEMMA AppendCat ==
  ASSUME NEW M, NEW s \in Seq(M), NEW m \in M
  PROVE  Append(s, m) = s \o <<m>> /\ <<m>> \in Seq(M)
  OBVIOUS

(* What is sent stays so on its way. *)
LEMMA SentIsMessage == Sent \subseteq Messages /\ Seq(Sent) \subseteq Seq(Messages)
<1>1. Sent \subseteq Messages
  BY DEF Sent
<1> QED BY <1>1

LEMMA SentRest ==
  ASSUME NEW s \in Seq(Sent), s # <<>>
  PROVE  Rest(s) \in Seq(Sent) /\ s[1] \in Sent
<1>1. s[1] \in Sent /\ Tail(s) \in Seq(Sent) /\ Head(s) = s[1]
  OBVIOUS
<1>2. s[1] \in Messages
  BY <1>1, SentIsMessage
<1>3. CASE More(s[1])
  <2>1. Rest(s) = [s EXCEPT ![1] = Chunks(s[1].cid, s[1].part + 1)]
    BY <1>1, <1>3 DEF Rest, More
  <2>2. s[1].cid \in Cids /\ s[1].part + 1 \in Nat \ {0}
    BY <1>2, <1>3, Shapes DEF More
  <2>3. Chunks(s[1].cid, s[1].part + 1) \in Messages
    BY <2>2, Made
  <2>4. Chunks(s[1].cid, s[1].part + 1) \in Sent
    BY <2>3 DEF Sent, Chunks
  <2>5. \A x \in Sent : [s EXCEPT ![1] = x] \in Seq(Sent)
    OBVIOUS
  <2> QED BY <1>1, <2>1, <2>4, <2>5
<1>4. CASE ~More(s[1])
  BY <1>1, <1>4 DEF Rest, More
<1> QED BY <1>1, <1>3, <1>4
-----------------------------------------------------------------------------
(* Taking the next message. *)

(* A request for c is gone once it is the message that was taken. *)
LEMMA AskedRest ==
  ASSUME NEW s \in Seq(Messages), s # <<>>, NEW c
  PROVE  /\ AskedOnce(s, c) => AskedOnce(Rest(s), c)
         /\ ~Asks(s[1], c) => (Asked(Rest(s), c) <=> Asked(s, c))
         /\ Asks(s[1], c) /\ AskedOnce(s, c) => ~Asked(Rest(s), c)
<1> DEFINE r == Rest(s)
<1>0. Len(s) \in Nat /\ DOMAIN s = 1..Len(s) /\ 1 \in DOMAIN s
  BY RestShape
<1>1. CASE ~More(s[1])
  <2>1. DOMAIN r = 1..(Len(s) - 1) /\ \A i \in 1..(Len(s) - 1) : r[i] = s[i + 1]
    BY <1>1, RestShape
  <2>2. \A i \in Asking(r, c) : i \in Nat /\ i + 1 \in Asking(s, c) /\ i + 1 # 1
    BY <1>0, <2>1 DEF Asking
  <2>3. \A i \in Asking(s, c) : i # 1 => i - 1 \in Asking(r, c)
    BY <1>0, <2>1 DEF Asking
  <2>4. 1 \in Asking(s, c) <=> Asks(s[1], c)
    BY <1>0 DEF Asking
  <2>5. AskedOnce(s, c) => AskedOnce(r, c)
    BY <2>2 DEF AskedOnce
  <2>6. ~Asks(s[1], c) => (Asked(r, c) <=> Asked(s, c))
    BY <2>2, <2>3, <2>4 DEF Asked
  <2>7. Asks(s[1], c) /\ AskedOnce(s, c) => ~Asked(r, c)
    BY <2>2, <2>4 DEF AskedOnce, Asked
  <2> QED BY <2>5, <2>6, <2>7
<1>2. CASE More(s[1])
  <2>1. /\ DOMAIN r = 1..Len(s) /\ \A i \in 2..Len(s) : r[i] = s[i]
        /\ r[1] = Chunks(s[1].cid, s[1].part + 1)
    BY <1>2, RestShape
  <2>2. ~Asks(s[1], c) /\ ~Asks(r[1], c)
    BY <1>2, <2>1 DEF More, Asks, Chunks
  <2>3. Asking(r, c) = Asking(s, c)
    BY <1>0, <2>1, <2>2 DEF Asking
  <2> QED BY <2>2, <2>3 DEF Asked, AskedOnce
<1> QED BY <1>1, <1>2

(* An answer for c stays until its last message is taken; what is left of a *)
(* block goes on with the next chunk.                                       *)
LEMMA AnsweredRest ==
  ASSUME NEW s \in Seq(Messages), s # <<>>, NEW c
  PROVE  /\ AnsweredOnce(s, c) => AnsweredOnce(Rest(s), c)
         /\ ~Answers(s[1], c) => /\ Answered(Rest(s), c) <=> Answered(s, c)
                                /\ \A n : InStep(s, c, n) => InStep(Rest(s), c, n)
         /\ Answers(s[1], c) /\ AnsweredOnce(s, c) /\ ~More(s[1]) => ~Answered(Rest(s), c)
         /\ Answers(s[1], c) /\ AnsweredOnce(s, c) /\ More(s[1]) =>
              Answered(Rest(s), c) /\ InStep(Rest(s), c, s[1].part)
<1> DEFINE r == Rest(s)
<1>0. Len(s) \in Nat /\ DOMAIN s = 1..Len(s) /\ 1 \in DOMAIN s
  BY RestShape
<1>1. CASE ~More(s[1])
  <2>1. DOMAIN r = 1..(Len(s) - 1) /\ \A i \in 1..(Len(s) - 1) : r[i] = s[i + 1]
    BY <1>1, RestShape
  <2>2. \A i \in Answering(r, c) :
          i \in Nat /\ i + 1 \in Answering(s, c) /\ i + 1 # 1 /\ r[i] = s[i + 1]
    BY <1>0, <2>1 DEF Answering
  <2>3. \A i \in Answering(s, c) : i # 1 => i - 1 \in Answering(r, c)
    BY <1>0, <2>1 DEF Answering
  <2>4. 1 \in Answering(s, c) <=> Answers(s[1], c)
    BY <1>0 DEF Answering
  <2>5. AnsweredOnce(s, c) => AnsweredOnce(r, c)
    BY <2>2 DEF AnsweredOnce
  <2>6. ~Answers(s[1], c) => (Answered(r, c) <=> Answered(s, c))
    BY <2>2, <2>3, <2>4 DEF Answered
  <2>7. \A n : InStep(s, c, n) => InStep(r, c, n)
    BY <2>2 DEF InStep
  <2>8. Answers(s[1], c) /\ AnsweredOnce(s, c) => ~Answered(r, c)
    BY <2>2, <2>4 DEF AnsweredOnce, Answered
  <2> QED BY <1>1, <2>5, <2>6, <2>7, <2>8
<1>2. CASE More(s[1])
  <2>1. /\ DOMAIN r = 1..Len(s) /\ \A i \in 2..Len(s) : r[i] = s[i]
        /\ r[1] = Chunks(s[1].cid, s[1].part + 1)
    BY <1>2, RestShape
  <2>2. Answers(r[1], c) <=> Answers(s[1], c)
    BY <1>2, <2>1 DEF More, Answers, Chunks
  <2>3. Answering(r, c) = Answering(s, c)
    BY <1>0, <2>1, <2>2 DEF Answering
  <2>4. ~Answers(s[1], c) => \A n : InStep(s, c, n) => InStep(r, c, n)
    <3>1. ~Answers(s[1], c) => \A i \in Answering(r, c) : r[i] = s[i]
      BY <1>0, <2>1, <2>2 DEF Answering
    <3> QED BY <2>3, <3>1 DEF InStep
  <2>5. Answers(s[1], c) => 1 \in Answering(r, c)
    BY <1>0, <2>1, <2>2 DEF Answering
  <2>6. Answers(s[1], c) /\ AnsweredOnce(s, c) => InStep(r, c, s[1].part)
    <3>1. Answers(s[1], c) /\ AnsweredOnce(s, c) => \A i \in Answering(r, c) : i = 1
      BY <2>3, <2>5 DEF AnsweredOnce
    <3>2. r[1].part = s[1].part + 1
      BY <2>1 DEF Chunks
    <3> QED BY <3>1, <3>2 DEF InStep
  <2> QED BY <1>2, <2>3, <2>4, <2>5, <2>6 DEF Answered, AnsweredOnce
<1> QED BY <1>1, <1>2

(* A promised catalog stays promised until it is taken, and then no refusal *)
(* is left behind it.                                                       *)
LEMMA PromisedRest ==
  ASSUME NEW s \in Seq(Messages), s # <<>>, NEW t
  PROVE  /\ NoNak(s, t) => NoNak(Rest(s), t)
         /\ Promised(s, t) => \/ Promised(Rest(s), t)
                              \/ s[1].type = "catalog" /\ s[1].tip = t /\ NoNak(Rest(s), t)
<1> DEFINE r == Rest(s)
<1>0. Len(s) \in Nat /\ DOMAIN s = 1..Len(s) /\ 1 \in DOMAIN s
  BY RestShape
<1>1. CASE ~More(s[1])
  <2>1. DOMAIN r = 1..(Len(s) - 1) /\ \A i \in 1..(Len(s) - 1) : r[i] = s[i + 1]
    BY <1>1, RestShape
  <2>2. NoNak(s, t) => NoNak(r, t)
    BY <1>0, <2>1 DEF NoNak
  <2>3. ASSUME Promised(s, t)
        PROVE  Promised(r, t) \/ (s[1].type = "catalog" /\ s[1].tip = t /\ NoNak(r, t))
    <3>1. PICK i \in DOMAIN s : /\ s[i].type = "catalog" /\ s[i].tip = t
                                /\ \A j \in DOMAIN s : j > i => s[j] # Nak(t)
      BY <2>3 DEF Promised
    <3>2. CASE i = 1
      BY <1>0, <2>1, <3>1, <3>2 DEF NoNak
    <3>3. CASE i # 1
      <4>1. i - 1 \in DOMAIN r /\ r[i - 1] = s[i]
        BY <1>0, <2>1, <3>3
      <4>2. \A j \in DOMAIN r : j > i - 1 => j + 1 \in DOMAIN s /\ j + 1 > i /\ r[j] = s[j + 1]
        BY <1>0, <2>1
      <4> QED BY <3>1, <4>1, <4>2 DEF Promised
    <3> QED BY <3>2, <3>3
  <2> QED BY <2>2, <2>3
<1>2. CASE More(s[1])
  <2>1. /\ DOMAIN r = 1..Len(s) /\ \A i \in 2..Len(s) : r[i] = s[i]
        /\ r[1] = Chunks(s[1].cid, s[1].part + 1)
    BY <1>2, RestShape
  <2>2. r[1] # Nak(t)
    <3>1. r[1].type = "block" /\ Nak(t).type = "nak"
      BY <2>1 DEF Chunks, Nak
    <3> QED BY <3>1
  <2>3. NoNak(s, t) => NoNak(r, t)
    BY <1>0, <2>1, <2>2 DEF NoNak
  <2>4. ASSUME Promised(s, t)
        PROVE  Promised(r, t)
    <3>1. PICK i \in DOMAIN s : /\ s[i].type = "catalog" /\ s[i].tip = t
                                /\ \A j \in DOMAIN s : j > i => s[j] # Nak(t)
      BY <2>4 DEF Promised
    <3>2. i # 1
      BY <1>2, <3>1 DEF More
    <3>3. i \in DOMAIN r /\ r[i] = s[i] /\ \A j \in DOMAIN r : j > i => r[j] # Nak(t)
      BY <1>0, <2>1, <3>1, <3>2
    <3> QED BY <3>1, <3>3 DEF Promised
  <2> QED BY <2>3, <2>4
<1> QED BY <1>1, <1>2
-----------------------------------------------------------------------------
(* Sending more messages. *)

LEMMA AskedCat ==
  ASSUME NEW s \in Seq(Messages), NEW t \in Seq(Messages), NEW c
  PROVE  /\ Asked(s \o t, c) <=> Asked(s, c) \/ Asked(t, c)
         /\ /\ AskedOnce(s, c) /\ AskedOnce(t, c) /\ ~(Asked(s, c) /\ Asked(t, c))
            => AskedOnce(s \o t, c)
<1> DEFINE u == s \o t
           n == Len(s)
<1>0. /\ n \in Nat /\ Len(t) \in Nat /\ DOMAIN s = 1..n /\ DOMAIN t = 1..Len(t)
      /\ DOMAIN u = 1..(n + Len(t))
      /\ \A i \in 1..n : u[i] = s[i]
      /\ \A i \in 1..Len(t) : u[n + i] = t[i]
  BY CatShape
<1> HIDE DEF u, n
<1>1. \A i \in Asking(s, c) : i \in Asking(u, c)
  BY <1>0 DEF Asking
<1>2. \A i \in Asking(t, c) : n + i \in Asking(u, c)
  BY <1>0 DEF Asking
<1>3. ASSUME NEW i \in Asking(u, c)
      PROVE  i \in Nat /\ (i \in Asking(s, c) \/ i - n \in Asking(t, c))
  <2>1. i \in DOMAIN u /\ Asks(u[i], c)
    BY DEF Asking
  <2>2. CASE i \leq n
    BY <1>0, <2>1, <2>2 DEF Asking
  <2>3. CASE i > n
    <3>1. i - n \in DOMAIN t /\ n + (i - n) = i
      BY <1>0, <2>1, <2>3
    <3>2. t[i - n] = u[i]
      BY <1>0, <3>1
    <3> QED BY <1>0, <2>1, <3>1, <3>2 DEF Asking
  <2> QED BY <1>0, <2>1, <2>2, <2>3
<1>4. Asked(u, c) <=> Asked(s, c) \/ Asked(t, c)
  BY <1>1, <1>2, <1>3 DEF Asked
<1>5. /\ AskedOnce(s, c) /\ AskedOnce(t, c) /\ ~(Asked(s, c) /\ Asked(t, c))
      => AskedOnce(u, c)
  BY <1>0, <1>3 DEF Asked, AskedOnce
<1> QED BY <1>4, <1>5 DEF u

LEMMA AnsweredCat ==
  ASSUME NEW s \in Seq(Messages), NEW t \in Seq(Messages), NEW c
  PROVE  /\ Answered(s \o t, c) <=> Answered(s, c) \/ Answered(t, c)
         /\ /\ AnsweredOnce(s, c) /\ AnsweredOnce(t, c) /\ ~(Answered(s, c) /\ Answered(t, c))
            => AnsweredOnce(s \o t, c)
         /\ \A k : InStep(s, c, k) /\ InStep(t, c, k) => InStep(s \o t, c, k)
<1> DEFINE u == s \o t
           n == Len(s)
<1>0. /\ n \in Nat /\ Len(t) \in Nat /\ DOMAIN s = 1..n /\ DOMAIN t = 1..Len(t)
      /\ DOMAIN u = 1..(n + Len(t))
      /\ \A i \in 1..n : u[i] = s[i]
      /\ \A i \in 1..Len(t) : u[n + i] = t[i]
  BY CatShape
<1> HIDE DEF u, n
<1>1. \A i \in Answering(s, c) : i \in Answering(u, c)
  BY <1>0 DEF Answering
<1>2. \A i \in Answering(t, c) : n + i \in Answering(u, c)
  BY <1>0 DEF Answering
<1>3. ASSUME NEW i \in Answering(u, c)
      PROVE  /\ i \in Nat
             /\ \/ i \in Answering(s, c) /\ u[i] = s[i]
                \/ i - n \in Answering(t, c) /\ u[i] = t[i - n]
  <2>1. i \in DOMAIN u /\ Answers(u[i], c)
    BY DEF Answering
  <2>2. CASE i \leq n
    BY <1>0, <2>1, <2>2 DEF Answering
  <2>3. CASE i > n
    <3>1. i - n \in DOMAIN t /\ n + (i - n) = i
      BY <1>0, <2>1, <2>3
    <3>2. t[i - n] = u[i]
      BY <1>0, <3>1
    <3> QED BY <1>0, <2>1, <3>1, <3>2 DEF Answering
  <2> QED BY <1>0, <2>1, <2>2, <2>3
<1>4. Answered(u, c) <=> Answered(s, c) \/ Answered(t, c)
  BY <1>1, <1>2, <1>3 DEF Answered
<1>5. /\ AnsweredOnce(s, c) /\ AnsweredOnce(t, c) /\ ~(Answered(s, c) /\ Answered(t, c))
      => AnsweredOnce(u, c)
  BY <1>0, <1>3 DEF Answered, AnsweredOnce
<1>6. ASSUME NEW k, InStep(s, c, k), InStep(t, c, k)
      PROVE  InStep(u, c, k)
  BY <1>3, <1>6 DEF InStep
<1> QED BY <1>4, <1>5, <1>6 DEF u

LEMMA PromisedCat ==
  ASSUME NEW s \in Seq(Messages), NEW u \in Seq(Messages), NEW t, NoNak(u, t)
  PROVE  /\ NoNak(s, t) => NoNak(s \o u, t)
         /\ Promised(s, t) => Promised(s \o u, t)
<1> DEFINE w == s \o u
           n == Len(s)
<1>0. /\ n \in Nat /\ Len(u) \in Nat /\ DOMAIN s = 1..n /\ DOMAIN u = 1..Len(u)
      /\ DOMAIN w = 1..(n + Len(u))
      /\ \A i \in 1..n : w[i] = s[i]
      /\ \A i \in 1..Len(u) : w[n + i] = u[i]
  BY CatShape
<1> HIDE DEF w, n
<1>1. ASSUME NEW j \in DOMAIN w, j > n
      PROVE  w[j] # Nak(t)
  <2>1. j - n \in DOMAIN u /\ n + (j - n) = j
    BY <1>0, <1>1
  <2>2. u[j - n] = w[j]
    BY <1>0, <2>1
  <2> QED BY <2>1, <2>2 DEF NoNak
<1>2. \A j \in DOMAIN w : j > n \/ (j \in DOMAIN s /\ w[j] = s[j])
  BY <1>0
<1>3. NoNak(s, t) => NoNak(w, t)
  BY <1>1, <1>2 DEF NoNak
<1>4. ASSUME Promised(s, t)
      PROVE  Promised(w, t)
  <2>1. PICK i \in DOMAIN s : /\ s[i].type = "catalog" /\ s[i].tip = t
                              /\ \A j \in DOMAIN s : j > i => s[j] # Nak(t)
    BY <1>4 DEF Promised
  <2>2. i \in DOMAIN w /\ w[i] = s[i]
    BY <1>0
  <2>3. \A j \in DOMAIN w : j > i => w[j] # Nak(t)
    BY <1>1, <1>2, <2>1
  <2> QED BY <2>1, <2>2, <2>3 DEF Promised
<1> QED BY <1>3, <1>4 DEF w

(* One message. *)
LEMMA One ==
  ASSUME NEW m, NEW c
  PROVE  /\ Asked(<<m>>, c) <=> Asks(m, c)
         /\ Answered(<<m>>, c) <=> Answers(m, c)
         /\ AskedOnce(<<m>>, c) /\ AnsweredOnce(<<m>>, c)
         /\ m.type # "block" => \A n : InStep(<<m>>, c, n)
         /\ m # Nak(c) => NoNak(<<m>>, c)
<1>1. DOMAIN <<m>> = {1} /\ <<m>>[1] = m
  OBVIOUS
<1>2. /\ Asking(<<m>>, c) = IF Asks(m, c) THEN {1} ELSE {}
      /\ Answering(<<m>>, c) = IF Answers(m, c) THEN {1} ELSE {}
  BY <1>1 DEF Asking, Answering
<1> QED BY <1>1, <1>2 DEF Asked, Answered, AskedOnce, AnsweredOnce, InStep, NoNak

(* A catalog that has just been sent is promised. *)
LEMMA PromisedLast ==
  ASSUME NEW s \in Seq(Messages), NEW m \in Messages, m.type = "catalog"
  PROVE  Promised(Append(s, m), m.tip)
<1>1. Len(s) + 1 \in DOMAIN Append(s, m) /\ Append(s, m)[Len(s) + 1] = m
  OBVIOUS
<1>2. \A j \in DOMAIN Append(s, m) : ~(j > Len(s) + 1)
  OBVIOUS
<1> QED BY <1>1, <1>2 DEF Promised

(* What a channel asks, or answers, about c has not changed. *)
AsksAlike(s, t, c) ==
  /\ Asked(t, c) <=> Asked(s, c)
  /\ AskedOnce(s, c) => AskedOnce(t, c)

AnswersAlike(s, t, c) ==
  /\ Answered(t, c) <=> Answered(s, c)
  /\ AnsweredOnce(s, c) => AnsweredOnce(t, c)
  /\ \A n : InStep(s, c, n) => InStep(t, c, n)

LEMMA AlikeSame == \A s, c : AsksAlike(s, s, c) /\ AnswersAlike(s, s, c)
  BY DEF AsksAlike, AnswersAlike

LEMMA AlikeRest ==
  ASSUME NEW s \in Seq(Messages), s # <<>>, NEW c
  PROVE  /\ ~Asks(s[1], c) => AsksAlike(s, Rest(s), c)
         /\ ~Answers(s[1], c) => AnswersAlike(s, Rest(s), c)
  BY AskedRest, AnsweredRest DEF AsksAlike, AnswersAlike

LEMMA AlikeCat ==
  ASSUME NEW s \in Seq(Messages), NEW t \in Seq(Messages), NEW c
  PROVE  /\ ~Asked(t, c) => AsksAlike(s, s \o t, c)
         /\ ~Answered(t, c) => AnswersAlike(s, s \o t, c)
<1>1. ~Asked(t, c) => AskedOnce(t, c)
  BY DEF Asked, AskedOnce
<1>2. ~Answered(t, c) => AnsweredOnce(t, c) /\ \A n : InStep(t, c, n)
  BY DEF Answered, AnsweredOnce, InStep
<1> QED BY <1>1, <1>2, AskedCat, AnsweredCat DEF AsksAlike, AnswersAlike

(* The answers to a request: one for each CID, the first chunk or a refusal *)
(* if the block is not in memory.                                           *)
LEMMA Replies ==
  ASSUME NEW p \in Peers, NEW asked \in Seq(Cids), Injective(asked)
  PROVE  LET t == [i \in DOMAIN asked |-> Answer(p, asked[i])] IN
         /\ t \in Seq(Sent)
         /\ \A c : /\ ~Asked(t, c) /\ AskedOnce(t, c) /\ AnsweredOnce(t, c) /\ InStep(t, c, 0)
                   /\ Answered(t, c) <=> \E i \in DOMAIN asked : asked[i] = c
                   /\ c \in mem[p] => NoNak(t, c)
<1> DEFINE t == [i \in DOMAIN asked |-> Answer(p, asked[i])]
<1>1. \A c \in Cids : Answer(p, c) \in Sent
  <2>1. \A c \in Cids : Chunks(c, 1) \in Messages /\ Nak(c) \in Messages
    BY Made
  <2>2. \A c \in Cids : Chunks(c, 1).type = "block" /\ Nak(c).type = "nak"
    BY DEF Chunks, Nak
  <2>3. \A c \in Cids : Chunks(c, 1) \in Sent /\ Nak(c) \in Sent
    BY <2>1, <2>2 DEF Sent
  <2> QED BY <2>3, Zenon DEF Answer
<1>2. t \in Seq(Sent) /\ DOMAIN t = DOMAIN asked
  BY <1>1
<1>3. \A i \in DOMAIN t : asked[i] \in Cids /\ t[i] = Answer(p, asked[i])
  OBVIOUS
<1> HIDE DEF t
<1>4. ASSUME NEW c
      PROVE  /\ Asking(t, c) = {}
             /\ Answering(t, c) = {i \in DOMAIN asked : asked[i] = c}
             /\ \A i \in DOMAIN t : t[i].type = "block" => t[i].part = 1
             /\ c \in mem[p] => NoNak(t, c)
  <2>1. ASSUME NEW d
        PROVE  /\ Answer(p, d).type \in {"block", "nak"} /\ Answer(p, d).cid = d
               /\ Answer(p, d).type = "block" => Answer(p, d).part = 1
               /\ Answer(p, d).type = "nak" => d \notin mem[p]
    BY DEF Answer, Chunks, Nak
  <2>2. Asking(t, c) = {}
    BY <1>3, <2>1 DEF Asking, Asks
  <2>3. Answering(t, c) = {i \in DOMAIN asked : asked[i] = c}
    BY <1>2, <1>3, <2>1 DEF Answering, Answers
  <2>4. \A i \in DOMAIN t : t[i].type = "block" => t[i].part = 1
    BY <1>3, <2>1
  <2>5. c \in mem[p] => NoNak(t, c)
    <3>1. Nak(c).type = "nak" /\ Nak(c).cid = c
      BY DEF Nak
    <3> QED BY <1>3, <2>1, <3>1 DEF NoNak
  <2> QED BY <2>2, <2>3, <2>4, <2>5
<1>5. ASSUME NEW c
      PROVE  /\ ~Asked(t, c) /\ AskedOnce(t, c) /\ AnsweredOnce(t, c) /\ InStep(t, c, 0)
             /\ Answered(t, c) <=> \E i \in DOMAIN asked : asked[i] = c
  <2>1. ~Asked(t, c) /\ AskedOnce(t, c)
    BY <1>4 DEF Asked, AskedOnce
  <2>2. AnsweredOnce(t, c)
    BY <1>4 DEF AnsweredOnce, Injective
  <2>3. InStep(t, c, 0)
    BY <1>4 DEF InStep, Answering
  <2>4. Answered(t, c) <=> \E i \in DOMAIN asked : asked[i] = c
    BY <1>4 DEF Answered
  <2> QED BY <2>1, <2>2, <2>3, <2>4
<1> QED BY <1>2, <1>4, <1>5 DEF t
-----------------------------------------------------------------------------
(* The two peers, and what one asks for. *)

LEMMA Others ==
  ASSUME NEW p \in Peers
  PROVE  /\ Other(p) \in Peers /\ Other(p) # p /\ Other(Other(p)) = p
         /\ \A q \in Peers : q = p \/ q = Other(p)
<1>1. PICK a, b \in Peers : a # b /\ Peers = {a, b}
  BY ExchangeAssumption
<1>2. \E q \in Peers : q # p
  BY <1>1
<1>3. Other(p) \in Peers /\ Other(p) # p
  BY <1>2 DEF Other
<1>4. \A q \in Peers : q = p \/ q = Other(p)
  BY <1>1, <1>3
<1>5. \E q \in Peers : q # Other(p)
  BY <1>3
<1>6. Other(Other(p)) \in Peers /\ Other(Other(p)) # Other(p)
  BY <1>5 DEF Other
<1>7. Other(Other(p)) = p
  BY <1>4, <1>6
<1> QED BY <1>3, <1>4, <1>7

(* What a catalog makes a peer ask for: finitely many CIDs, among them the  *)
(* tip unless it is in memory.                                              *)
LEMMA Selection ==
  ASSUME NEW p \in Peers, NEW m \in Sent, m.type = "catalog"
  PROVE  /\ Selected(p, m) \subseteq Cids /\ IsFiniteSet(Selected(p, m))
         /\ m.tip # 0 /\ m.tip \notin mem[p] => m.tip \in Selected(p, m)
<1> DEFINE wanted == {m.tip} \ ({0} \cup mem[p])
           others == (m.cids \ mem[p]) \ {m.tip}
           high == Highest(Budget - Cardinality(wanted), others)
<1>1. m.cids \subseteq Cids /\ m.tip \in Cids \cup {0} /\ IsFiniteSet(m.cids)
  BY Shapes DEF Sent
<1>2. high \subseteq m.cids
  BY DEF Highest
<1>3. Selected(p, m) = wanted \cup high
  BY DEF Selected
<1>4. IsFiniteSet({m.tip})
  BY FS_Singleton
<1>5. IsFiniteSet({m.tip} \cup m.cids)
  BY <1>1, <1>4, FS_Union
<1>6. wanted \subseteq {m.tip} \ {0}
  OBVIOUS
<1>9. m.tip # 0 /\ m.tip \notin mem[p] => m.tip \in wanted
  OBVIOUS
<1> HIDE DEF wanted, high
<1>7. IsFiniteSet(wanted \cup high)
  <2>1. wanted \cup high \in SUBSET ({m.tip} \cup m.cids)
    BY <1>2, <1>6
  <2> QED BY <1>5, <2>1, FS_Subset
<1>8. wanted \cup high \subseteq Cids
  BY <1>1, <1>2, <1>6
<1> QED BY <1>3, <1>7, <1>8, <1>9

(* A request asks for each of a finite set of CIDs once. *)
LEMMA Ordered ==
  ASSUME NEW S \in SUBSET Cids, IsFiniteSet(S), NEW t, NEW asked \in InOrder(S, t)
  PROVE  /\ Request(asked) \in Sent
         /\ \A c : (Asks(Request(asked), c) <=> c \in S) /\ ~Answers(Request(asked), c)
         /\ \A c : Request(asked) # Nak(c)
<1>1. Cardinality(S) \in Nat
  BY FS_CardinalityType
<1>2. /\ asked \in [1..Cardinality(S) -> S] /\ S = {asked[i] : i \in DOMAIN asked}
      /\ \A i, j \in DOMAIN asked :
           i < j => asked[j] # t /\ (asked[i] = t \/ asked[i] > asked[j])
  BY DEF InOrder
<1>3. asked \in Seq(Cids) /\ DOMAIN asked \subseteq Nat
  BY <1>1, <1>2
<1>4. \A i, j \in DOMAIN asked : i < j => asked[i] # asked[j]
  <2>1. SUFFICES ASSUME NEW i \in DOMAIN asked, NEW j \in DOMAIN asked,
                        i < j, asked[i] = asked[j]
                 PROVE  FALSE
    OBVIOUS
  <2>2. asked[i] > asked[j]
    BY <1>2, <2>1
  <2>3. asked[i] \in Nat
    BY <1>2, ExchangeAssumption
  <2> QED BY <2>1, <2>2, <2>3
<1>5. Injective(asked)
  BY <1>3, <1>4 DEF Injective
<1>6. Request(asked).type = "request" /\ Request(asked).asked = asked
  BY DEF Request
<1>7. Request(asked) \in Sent
  BY <1>3, <1>5, <1>6, Made DEF Sent
<1>8. \A c : (Asks(Request(asked), c) <=> c \in S) /\ ~Answers(Request(asked), c)
  BY <1>2, <1>6 DEF Asks, Answers
<1>9. \A c : Nak(c).type = "nak"
  BY DEF Nak
<1> QED BY <1>6, <1>7, <1>8, <1>9

-----------------------------------------------------------------------------
(* What a step that leaves a part of the state alone preserves. *)

LEMMA SamePursuit ==
  ASSUME NEW p \in Peers, NEW c, Pursued(p, c),
         AnswersAlike(chan[p], chan'[p], c),
         AsksAlike(chan[Other(p)], chan'[Other(p)], c),
         c \in requested'[p] <=> c \in requested[p], pending'[p][c] = pending[p][c],
         c \in verifying'[p] <=> c \in verifying[p], Had(p, c)' <=> Had(p, c)
  PROVE  Pursued(p, c)'
<1> USE DEF AsksAlike, AnswersAlike, Pursued
<1>1. AskedOnce(chan'[Other(p)], c) /\ AnsweredOnce(chan'[p], c)
  OBVIOUS
<1>2. InStep(chan'[p], c, pending'[p][c])
  OBVIOUS
<1>3. pending'[p][c] > 0 => Answered(chan'[p], c)
  OBVIOUS
<1> QED BY <1>1, <1>2, <1>3

LEMMA SameKept ==
  ASSUME NEW p \in Peers, Kept(p), mem'[p] \subseteq mem[p], stored' = stored,
         \A c \in Cids : Had(p, c)' => Had(p, c)
  PROVE  Kept(p)'
  BY DEF Kept

LEMMA SameOffer ==
  ASSUME NEW p \in Peers, Offer(p), offered'[p] = offered[p],
         offered[p] # 0 /\ offered[p] \in mem[p] =>
           /\ offered[p] \in mem'[p]
           /\ offered[p] \notin Invalid =>
                \/ offered[p] \in stored'[Other(p)]
                \/ /\ stored[Other(p)] \subseteq stored'[Other(p)]
                   /\ Promised(chan[Other(p)], offered[p]) =>
                        \/ Promised(chan'[Other(p)], offered[p])
                        \/ /\ offered[p] \in requested'[Other(p)]
                           /\ NoNak(chan'[Other(p)], offered[p])
                   /\ /\ offered[p] \in requested[Other(p)]
                      /\ NoNak(chan[Other(p)], offered[p])
                      => /\ offered[p] \in requested'[Other(p)]
                         /\ NoNak(chan'[Other(p)], offered[p])
  PROVE  Offer(p)'
  BY DEF Offer

LEMMA TypedType == Typed => TypeOK
<1>1. Seq(Sent) \subseteq Seq(Messages)
  BY SentIsMessage
<1> QED BY <1>1 DEF Typed, TypeOK
-----------------------------------------------------------------------------
(* The steps, one lemma each. *)

LEMMA InitInv == Init => IInv
<1> SUFFICES ASSUME Init PROVE IInv
  OBVIOUS
<1> USE DEF Init
<1>1. Typed
  <2>1. /\ \A c \in Cids : Parts(c) \in Nat \ {0}
        /\ MaxAdverts \in Nat /\ MaxObtained \in Nat /\ MaxLosses \in Nat
    BY ExchangeAssumption
  <2>2. <<>> \in Seq(Sent)
    OBVIOUS
  <2> QED BY <2>1, <2>2 DEF Typed
<1>2. \A p \in Peers : Kept(p) /\ Offer(p)
  BY FS_EmptySet DEF Kept, Offer, Had
<1>3. \A p \in Peers, c \in Cids : Pursued(p, c)
  <2> TAKE p \in Peers, c \in Cids
  <2>1. chan[p] = <<>> /\ chan[Other(p)] = <<>>
    BY Others
  <2>2. Asking(<<>>, c) = {} /\ Answering(<<>>, c) = {}
    BY DEF Asking, Answering
  <2> QED BY <2>1, <2>2 DEF Pursued, Had, Asked, Answered, AskedOnce, AnsweredOnce, InStep
<1> QED BY <1>1, <1>2, <1>3 DEF IInv

(* A catalog of what the peer has joins the channel to the other one: the   *)
(* offer is promised.                                                       *)
LEMMA AdvertiseStep ==
  ASSUME IInv, NEW p \in Peers, Advertise(p)
  PROVE  IInv'
<1> DEFINE o == Other(p)
           m == Catalog(Has(p), tip[p])
<1>0. o \in Peers /\ o # p /\ Other(o) = p /\ \A q \in Peers : q = p \/ q = o
  BY Others
<1>1. Typed /\ Kept(p)
  BY DEF IInv
<1>2. m \in Sent /\ m.type = "catalog" /\ m.tip = tip[p]
  <2>1. Has(p) \in SUBSET Cids /\ tip[p] \in Cids \cup {0}
    BY <1>1 DEF Typed, Has
  <2>2. IsFiniteSet(Has(p))
    <3>1. Has(p) = stored[p]
      BY <1>1 DEF Has, Kept
    <3> QED BY <1>1, <3>1 DEF Kept
  <2>3. m \in Messages
    BY <2>1, Made
  <2> QED BY <2>2, <2>3 DEF Sent, Catalog
<1> HIDE DEF o, m
<1>3. chan[o] \in Seq(Sent) /\ chan[o] \in Seq(Messages)
  BY <1>0, <1>1, SentIsMessage DEF Typed
<1>4. /\ chan' = [chan EXCEPT ![o] = Append(@, m)]
      /\ chan'[o] = Append(chan[o], m) /\ chan'[p] = chan[p]
  BY <1>0, <1>1 DEF Advertise, Typed, o, m
<1>5. Append(chan[o], m) = chan[o] \o <<m>> /\ <<m>> \in Seq(Messages) /\ m \in Messages
  BY <1>2, <1>3, AppendCat, SentIsMessage
<1>6. Typed'
  <2>1. chan' \in [Peers -> Seq(Sent)]
    BY <1>0, <1>1, <1>2, <1>3, <1>4 DEF Typed
  <2>2. offered' \in [Peers -> Cids \cup {0}]
    BY <1>1 DEF Typed, Advertise
  <2>3. adverts' \in [Peers -> 0..MaxAdverts]
    BY <1>1, ExchangeAssumption DEF Typed, Advertise
  <2> QED BY <1>1, <2>1, <2>2, <2>3 DEF Typed, Advertise, resolverVars
<1>7. \A c : ~Asked(<<m>>, c) /\ ~Answered(<<m>>, c) /\ NoNak(<<m>>, c)
  <2>1. \A c : ~Asks(m, c) /\ ~Answers(m, c) /\ m # Nak(c)
    <3>1. \A c : Nak(c).type = "nak"
      BY DEF Nak
    <3> QED BY <1>2, <3>1 DEF Asks, Answers
  <2> QED BY <2>1, One
<1>8. \A q \in Peers : Kept(q)'
  BY SameKept DEF IInv, Advertise, resolverVars, Had
<1>9. \A q \in Peers : Offer(q)'
  <2>1. Offer(o)'
    <3>1. offered'[o] = offered[o]
      BY <1>0, <1>1 DEF Advertise, Typed
    <3> QED BY <1>0, <1>4, <3>1, SameOffer DEF IInv, Advertise, resolverVars
  <2>2. Offer(p)'
    <3>1. offered'[p] = IF tip[p] \in mem[p] THEN tip[p] ELSE 0
      BY <1>1 DEF Advertise, Typed
    <3>2. Promised(chan'[o], tip[p])
      BY <1>2, <1>3, <1>4, <1>5, PromisedLast
    <3> QED BY <3>1, <3>2 DEF Offer, Advertise, resolverVars, o
  <2> QED BY <1>0, <2>1, <2>2
<1>10. ASSUME NEW q \in Peers, NEW c \in Cids
       PROVE  Pursued(q, c)'
  <2>1. Pursued(q, c)
    BY DEF IInv
  <2>2. AsksAlike(chan[o], chan'[o], c) /\ AnswersAlike(chan[o], chan'[o], c)
    BY <1>3, <1>4, <1>5, <1>7, AlikeCat
  <2>3. AsksAlike(chan[p], chan'[p], c) /\ AnswersAlike(chan[p], chan'[p], c)
    BY <1>4, AlikeSame
  <2>4. AnswersAlike(chan[q], chan'[q], c) /\ AsksAlike(chan[Other(q)], chan'[Other(q)], c)
    BY <1>0, <2>2, <2>3 DEF o
  <2> QED BY <2>1, <2>4, SamePursuit DEF Advertise, Had
<1> QED BY <1>6, <1>8, <1>9, <1>10 DEF IInv

(* A message of the channel to p is taken. *)
LEMMA TakenShape ==
  ASSUME Typed, NEW p \in Peers, chan[p] # <<>>
  PROVE  /\ chan[p] \in Seq(Sent) /\ chan[p] \in Seq(Messages)
         /\ Head(chan[p]) = chan[p][1] /\ chan[p][1] \in Sent /\ chan[p][1] \in Messages
         /\ Rest(chan[p]) \in Seq(Sent)
<1>1. chan[p] \in Seq(Sent)
  BY DEF Typed
<1> QED BY <1>1, SentIsMessage, SentRest, RestShape

(* A refusal settles the CID, which is free to be requested again. *)
LEMMA NakStep ==
  ASSUME IInv, NEW p \in Peers, chan[p] # <<>>, Head(chan[p]).type = "nak",
         OnNak(p, Head(chan[p]).cid),
         UNCHANGED <<resolverVars, delivered, adverts, offered, obtained, losses>>
  PROVE  IInv'
<1> DEFINE o == Other(p)
           m == chan[p][1]
           d == m.cid
<1>0. o \in Peers /\ o # p /\ Other(o) = p /\ \A q \in Peers : q = p \/ q = o
  BY Others
<1>1. Typed
  BY DEF IInv
<1>2. /\ chan[p] \in Seq(Messages) /\ chan[o] \in Seq(Messages)
      /\ Head(chan[p]) = m /\ m \in Messages /\ Rest(chan[p]) \in Seq(Sent)
  BY <1>0, <1>1, TakenShape, SentIsMessage DEF Typed
<1>3. /\ m.type = "nak" /\ d \in Cids /\ m = Nak(d) /\ ~More(m)
      /\ \A c : ~Asks(m, c) /\ (Answers(m, c) <=> c = d)
  BY <1>2, Shapes DEF More, Asks, Answers
<1> HIDE DEF o, m, d
<1>4. /\ chan' = [chan EXCEPT ![p] = Rest(chan[p])]
      /\ chan'[p] = Rest(chan[p]) /\ chan'[o] = chan[o]
      /\ requested' = [requested EXCEPT ![p] = @ \ {d}]
      /\ pending' = [pending EXCEPT ![p][d] = 0]
      /\ verifying' = verifying
  BY <1>0, <1>1, <1>2 DEF OnNak, Typed, m, d
<1>5. /\ requested'[p] = requested[p] \ {d} /\ requested'[o] = requested[o]
      /\ pending'[p] = [pending[p] EXCEPT ![d] = 0] /\ pending'[o] = pending[o]
  BY <1>0, <1>1, <1>4 DEF Typed
<1>6. Typed'
  <2>1. chan' \in [Peers -> Seq(Sent)]
    BY <1>1, <1>2, <1>4 DEF Typed
  <2>2. requested' \in [Peers -> SUBSET Cids]
    BY <1>1, <1>4 DEF Typed
  <2>3. pending' \in [Peers -> [Cids -> Nat]]
    BY <1>1, <1>3, <1>4 DEF Typed
  <2>4. \A q \in Peers, c \in Cids : pending'[q][c] < Parts(c)
    <3> TAKE q \in Peers, c \in Cids
    <3>1. pending[q][c] < Parts(c) /\ 0 < Parts(c)
      <4>1. Parts(c) \in Nat \ {0}
        BY ExchangeAssumption
      <4> QED BY <1>1, <4>1 DEF Typed
    <3>2. pending \in [Peers -> [Cids -> Nat]]
      BY <1>1 DEF Typed
    <3>3. pending'[q][c] = IF q = p /\ c = d THEN 0 ELSE pending[q][c]
      BY <1>3, <1>4, <3>2
    <3> QED BY <3>1, <3>3
  <2> QED BY <1>1, <1>4, <2>1, <2>2, <2>3, <2>4 DEF Typed, resolverVars
<1>7. \A q \in Peers : Kept(q)'
  BY SameKept DEF IInv, resolverVars, Had
<1>8. \A q \in Peers : Offer(q)'
  <2>1. Offer(p)'
    BY <1>0, <1>4, <1>5, SameOffer DEF IInv, resolverVars, o
  <2>2. Offer(o)'
    <3> DEFINE t == offered[o]
    <3>1. NoNak(chan[p], t) => t # d /\ NoNak(chan'[p], t)
      <4>1. NoNak(chan[p], t) => t # d
        BY <1>2, <1>3, RestShape DEF NoNak, m
      <4> QED BY <1>2, <1>4, <4>1, PromisedRest
    <3>2. Promised(chan[p], t) => Promised(chan'[p], t)
      BY <1>2, <1>3, <1>4, PromisedRest DEF m
    <3> HIDE DEF t
    <3> QED BY <1>0, <1>5, <3>1, <3>2, SameOffer DEF IInv, resolverVars, t
  <2> QED BY <1>0, <2>1, <2>2
<1>9. ASSUME NEW c \in Cids
      PROVE  Pursued(o, c)'
  <2>1. AsksAlike(chan[p], chan'[p], c) /\ AnswersAlike(chan[o], chan'[o], c)
    BY <1>2, <1>3, <1>4, AlikeRest, AlikeSame DEF m
  <2> QED BY <1>0, <1>4, <1>5, <2>1, SamePursuit DEF IInv, Had
<1>10. ASSUME NEW c \in Cids
       PROVE  Pursued(p, c)'
  <2>1. AsksAlike(chan[o], chan'[o], c)
    BY <1>4, AlikeSame
  <2>2. Pursued(p, c) /\ Had(p, c)' = Had(p, c)
    BY DEF IInv, Had
  <2>3. CASE c # d
    <3>1. AnswersAlike(chan[p], chan'[p], c)
      BY <1>2, <1>3, <1>4, <2>3, AlikeRest DEF m
    <3>2. pending'[p][c] = pending[p][c]
      BY <1>1, <1>5, <2>3 DEF Typed
    <3> QED BY <1>4, <1>5, <2>1, <2>2, <2>3, <3>1, <3>2, SamePursuit DEF o
  <2>4. CASE c = d
    <3>1. Answered(chan[p], c) /\ AnsweredOnce(chan[p], c)
      <4>1. 1 \in Answering(chan[p], c)
        BY <1>2, <1>3, <2>4, RestShape DEF Answering, m
      <4> QED BY <2>2, <4>1 DEF Answered, Pursued
    <3>2. ~Answered(chan'[p], c)
      BY <1>2, <1>3, <1>4, <2>4, <3>1, AnsweredRest DEF m
    <3>3. AnsweredOnce(chan'[p], c) /\ InStep(chan'[p], c, 0)
      BY <3>2 DEF Answered, AnsweredOnce, InStep
    <3>4. pending'[p][c] = 0 /\ c \notin requested'[p]
      BY <1>1, <1>5, <2>4 DEF Typed
    <3>5. AskedOnce(chan'[o], c) /\ ~Asked(chan'[o], c) /\ c \notin verifying'[p] /\ ~Had(p, c)
      BY <1>4, <2>2, <3>1 DEF Pursued, o
    <3> QED BY <2>2, <3>2, <3>3, <3>4, <3>5 DEF Pursued, o
  <2> QED BY <2>3, <2>4
<1> QED BY <1>0, <1>6, <1>7, <1>8, <1>9, <1>10 DEF IInv
(* A chunk is the one the reassembly waits for, and it is the last of the   *)
(* block exactly when nothing of the block stays on the channel.            *)
LEMMA ChunkStep ==
  ASSUME IInv, NEW p \in Peers, chan[p] # <<>>, Head(chan[p]).type = "block",
         OnChunk(p, Head(chan[p]).cid),
         UNCHANGED <<resolverVars, delivered, adverts, offered, obtained, losses>>
  PROVE  IInv'
<1> DEFINE o == Other(p)
           m == chan[p][1]
           d == m.cid
           last == pending[p][d] + 1 >= Parts(d)
<1>0. o \in Peers /\ o # p /\ Other(o) = p /\ \A q \in Peers : q = p \/ q = o
  BY Others
<1>1. Typed
  BY DEF IInv
<1>2. /\ chan[p] \in Seq(Messages) /\ chan[o] \in Seq(Messages)
      /\ Head(chan[p]) = m /\ m \in Messages /\ Rest(chan[p]) \in Seq(Sent)
  BY <1>0, <1>1, TakenShape, SentIsMessage DEF Typed
<1>3. /\ m.type = "block" /\ d \in Cids /\ m.part \in Nat
      /\ \A c : ~Asks(m, c) /\ (Answers(m, c) <=> c = d)
  BY <1>2, Shapes DEF Asks, Answers
<1>4. Parts(d) \in Nat \ {0}
  BY <1>3, ExchangeAssumption
<1>5. /\ pending \in [Peers -> [Cids -> Nat]] /\ pending[p][d] \in Nat
      /\ pending[p][d] < Parts(d)
  BY <1>1, <1>3 DEF Typed
<1>6. Answered(chan[p], d) /\ m.part = pending[p][d] + 1
  <2>1. 1 \in Answering(chan[p], d)
    BY <1>2, <1>3, RestShape DEF Answering
  <2>2. InStep(chan[p], d, pending[p][d])
    BY <1>3 DEF IInv, Pursued
  <2> QED BY <1>3, <2>1, <2>2 DEF Answered, InStep
<1>7. More(m) <=> ~last
  BY <1>3, <1>4, <1>5, <1>6 DEF More
<1>8. /\ chan' = [chan EXCEPT ![p] = Rest(chan[p])]
      /\ requested' = requested
      /\ pending' = [pending EXCEPT ![p][d] = IF last THEN 0 ELSE @ + 1]
      /\ verifying' = IF last THEN [verifying EXCEPT ![p] = @ \cup {d}] ELSE verifying
  <2>1. Head(chan[p]).cid = d
    BY <1>2
  <2>2. CASE last
    <3>1. ~(pending[p][d] + 1 < Parts(d))
      BY <1>4, <1>5, <2>2
    <3> QED BY <2>1, <2>2, <3>1 DEF OnChunk
  <2>3. CASE ~last
    BY <2>1, <2>3 DEF OnChunk
  <2> QED BY <2>2, <2>3
<1> HIDE DEF o, m, d, last
<1>9. chan'[p] = Rest(chan[p]) /\ chan'[o] = chan[o]
  BY <1>0, <1>1, <1>8 DEF Typed
<1>10. \A q \in Peers, c \in Cids :
         pending'[q][c] = IF q = p /\ c = d THEN IF last THEN 0 ELSE pending[p][d] + 1
                          ELSE pending[q][c]
  BY <1>3, <1>5, <1>8
<1>11. \A q \in Peers : \A c :
         c \in verifying'[q] <=> c \in verifying[q] \/ (q = p /\ c = d /\ last)
  BY <1>1, <1>8 DEF Typed
<1>12. Typed'
  <2>1. chan' \in [Peers -> Seq(Sent)]
    BY <1>1, <1>2, <1>8 DEF Typed
  <2>2. verifying' \in [Peers -> SUBSET Cids]
    BY <1>1, <1>3, <1>8 DEF Typed
  <2>3. pending' \in [Peers -> [Cids -> Nat]]
    <3>1. \A n \in Nat : [pending EXCEPT ![p][d] = n] \in [Peers -> [Cids -> Nat]]
      BY <1>3, <1>5
    <3>2. (IF last THEN 0 ELSE pending[p][d] + 1) \in Nat
      BY <1>5
    <3> QED BY <1>8, <3>1, <3>2
  <2>4. \A q \in Peers, c \in Cids : pending'[q][c] < Parts(c)
    <3> TAKE q \in Peers, c \in Cids
    <3>1. pending[q][c] < Parts(c)
      BY <1>1 DEF Typed
    <3>2. ~last => pending[p][d] + 1 < Parts(d)
      BY <1>4, <1>5 DEF last
    <3>3. 0 < Parts(d)
      BY <1>4
    <3> QED BY <1>10, <3>1, <3>2, <3>3
  <2> QED BY <1>1, <1>8, <2>1, <2>2, <2>3, <2>4 DEF Typed, resolverVars
<1>13. \A q \in Peers : Kept(q)'
  BY SameKept DEF IInv, resolverVars, Had
<1>14. \A q \in Peers : Offer(q)'
  <2>1. Offer(p)'
    BY <1>0, <1>8, <1>9, SameOffer DEF IInv, resolverVars, o
  <2>2. Offer(o)'
    <3> DEFINE t == offered[o]
    <3>1. NoNak(chan[p], t) => NoNak(chan'[p], t)
      BY <1>2, <1>9, PromisedRest
    <3>2. Promised(chan[p], t) => Promised(chan'[p], t)
      BY <1>2, <1>3, <1>9, PromisedRest DEF m
    <3> HIDE DEF t
    <3> QED BY <1>0, <1>8, <3>1, <3>2, SameOffer DEF IInv, resolverVars, t
  <2> QED BY <1>0, <2>1, <2>2
<1>15. ASSUME NEW c \in Cids
       PROVE  Pursued(o, c)'
  <2>1. AsksAlike(chan[p], chan'[p], c) /\ AnswersAlike(chan[o], chan'[o], c)
    BY <1>2, <1>3, <1>9, AlikeRest, AlikeSame DEF m
  <2> QED BY <1>0, <1>8, <1>10, <1>11, <2>1, SamePursuit DEF IInv, Had
<1>16. ASSUME NEW c \in Cids
       PROVE  Pursued(p, c)'
  <2>1. AsksAlike(chan[o], chan'[o], c)
    BY <1>9, AlikeSame
  <2>2. Pursued(p, c) /\ Had(p, c)' = Had(p, c)
    BY DEF IInv, Had
  <2>3. CASE c # d
    <3>1. AnswersAlike(chan[p], chan'[p], c)
      BY <1>2, <1>3, <1>9, <2>3, AlikeRest DEF m
    <3> QED BY <1>8, <1>10, <1>11, <2>1, <2>2, <2>3, <3>1, SamePursuit DEF o
  <2>4. CASE c = d
    <3>1. Answered(chan[p], c) /\ AnsweredOnce(chan[p], c) /\ Answers(m, c)
      BY <1>3, <1>6, <2>2, <2>4 DEF Pursued
    <3>2. /\ AskedOnce(chan'[o], c) /\ ~Asked(chan'[o], c)
          /\ c \notin verifying[p] /\ ~Had(p, c)' /\ c \in requested'[p]
      BY <1>8, <1>9, <2>2, <3>1 DEF Pursued, o
    <3>3. CASE last
      <4>1. ~Answered(chan'[p], c)
        BY <1>2, <1>7, <1>9, <3>1, <3>3, AnsweredRest DEF m
      <4>2. AnsweredOnce(chan'[p], c) /\ InStep(chan'[p], c, 0)
        BY <4>1 DEF Answered, AnsweredOnce, InStep
      <4>3. pending'[p][c] = 0 /\ c \in verifying'[p]
        BY <1>10, <1>11, <2>4, <3>3
      <4> QED BY <3>2, <4>1, <4>2, <4>3 DEF Pursued, o
    <3>4. CASE ~last
      <4>1. /\ Answered(chan'[p], c) /\ AnsweredOnce(chan'[p], c)
            /\ InStep(chan'[p], c, m.part)
        BY <1>2, <1>7, <1>9, <3>1, <3>4, AnsweredRest DEF m
      <4>2. pending'[p][c] = m.part /\ c \notin verifying'[p]
        BY <1>6, <1>10, <1>11, <2>4, <3>2, <3>4
      <4> QED BY <3>2, <4>1, <4>2 DEF Pursued, o
    <3> QED BY <3>3, <3>4
  <2> QED BY <2>3, <2>4
<1> QED BY <1>0, <1>12, <1>13, <1>14, <1>15, <1>16 DEF IInv
(* A request is answered for each of its CIDs: what was asked is answered.  *)
LEMMA RequestStep ==
  ASSUME IInv, NEW p \in Peers, chan[p] # <<>>, Head(chan[p]).type = "request",
         OnRequest(p, Head(chan[p]).asked),
         UNCHANGED <<resolverVars, delivered, adverts, offered, obtained, losses>>
  PROVE  IInv'
<1> DEFINE o == Other(p)
           m == chan[p][1]
           t == [i \in DOMAIN m.asked |-> Answer(p, m.asked[i])]
<1>0. o \in Peers /\ o # p /\ Other(o) = p /\ \A q \in Peers : q = p \/ q = o
  BY Others
<1>1. Typed
  BY DEF IInv
<1>2. /\ chan[p] \in Seq(Messages) /\ chan[o] \in Seq(Messages) /\ chan[o] \in Seq(Sent)
      /\ Head(chan[p]) = m /\ m \in Messages /\ m \in Sent /\ Rest(chan[p]) \in Seq(Sent)
  BY <1>0, <1>1, TakenShape, SentIsMessage DEF Typed
<1>3. m.type = "request" /\ m.asked \in Seq(Cids) /\ Injective(m.asked)
  BY <1>2, Shapes DEF Sent
<1>4. /\ t \in Seq(Sent)
      /\ \A c : /\ ~Asked(t, c) /\ AskedOnce(t, c) /\ AnsweredOnce(t, c) /\ InStep(t, c, 0)
                /\ Answered(t, c) <=> Asks(m, c)
                /\ c \in mem[p] => NoNak(t, c)
  BY <1>3, Replies DEF Asks
<1>5. t \in Seq(Messages) /\ \A c : ~Answers(m, c)
  BY <1>3, <1>4, SentIsMessage DEF Answers
<1>6. /\ chan' = [chan EXCEPT ![p] = Rest(chan[p]), ![o] = chan[o] \o t]
      /\ UNCHANGED <<requested, pending, verifying>>
  BY <1>0, <1>1, <1>2 DEF OnRequest, Typed
<1> HIDE DEF o, m, t
<1>7. chan'[p] = Rest(chan[p]) /\ chan'[o] = chan[o] \o t
  BY <1>0, <1>1, <1>6 DEF Typed
<1>8. Typed'
  <2>1. chan[o] \o t \in Seq(Sent)
    BY <1>2, <1>4, CatShape
  <2>2. chan' \in [Peers -> Seq(Sent)]
    BY <1>1, <1>2, <1>6, <2>1 DEF Typed
  <2> QED BY <1>1, <1>6, <2>2 DEF Typed, resolverVars
<1>9. \A q \in Peers : Kept(q)'
  BY SameKept DEF IInv, resolverVars, Had
<1>10. \A q \in Peers : Offer(q)'
  <2>1. Offer(p)'
    <3> DEFINE x == offered[p]
    <3>1. x \in mem[p] => /\ Promised(chan[o], x) => Promised(chan'[o], x)
                          /\ NoNak(chan[o], x) => NoNak(chan'[o], x)
      BY <1>2, <1>4, <1>5, <1>7, PromisedCat
    <3> HIDE DEF x
    <3> QED BY <1>0, <1>6, <3>1, SameOffer DEF IInv, resolverVars, x, o
  <2>2. Offer(o)'
    <3> DEFINE x == offered[o]
    <3>1. NoNak(chan[p], x) => NoNak(chan'[p], x)
      BY <1>2, <1>7, PromisedRest
    <3>2. Promised(chan[p], x) => Promised(chan'[p], x)
      BY <1>2, <1>3, <1>7, PromisedRest DEF m
    <3> HIDE DEF x
    <3> QED BY <1>0, <1>6, <3>1, <3>2, SameOffer DEF IInv, resolverVars, x
  <2> QED BY <1>0, <2>1, <2>2
<1>11. ASSUME NEW c \in Cids
       PROVE  Pursued(p, c)'
  <2>1. AnswersAlike(chan[p], chan'[p], c)
    BY <1>2, <1>5, <1>7, AlikeRest DEF m
  <2>2. AsksAlike(chan[o], chan'[o], c)
    BY <1>2, <1>4, <1>5, <1>7, AlikeCat
  <2> QED BY <1>6, <2>1, <2>2, SamePursuit DEF IInv, Had, o
<1>12. ASSUME NEW c \in Cids
       PROVE  Pursued(o, c)'
  <2>1. Pursued(o, c) /\ Had(o, c)' = Had(o, c)
    BY <1>0 DEF IInv, Had
  <2>2. CASE ~Asks(m, c)
    <3>1. AsksAlike(chan[p], chan'[p], c)
      BY <1>2, <1>7, <2>2, AlikeRest DEF m
    <3>2. AnswersAlike(chan[o], chan'[o], c)
      BY <1>2, <1>4, <1>5, <1>7, <2>2, AlikeCat
    <3> QED BY <1>0, <1>6, <2>1, <3>1, <3>2, SamePursuit
  <2>3. CASE Asks(m, c)
    <3>1. Asked(chan[p], c) /\ AskedOnce(chan[p], c)
      <4>1. 1 \in Asking(chan[p], c)
        BY <1>2, <2>3, RestShape DEF Asking, m
      <4> QED BY <1>0, <2>1, <4>1 DEF Asked, Pursued
    <3>2. ~Asked(chan'[p], c) /\ AskedOnce(chan'[p], c)
      BY <1>2, <1>7, <2>3, <3>1, AskedRest DEF m
    <3>3. /\ ~Answered(chan[o], c) /\ c \in requested'[o]
          /\ c \notin verifying'[o] /\ ~Had(o, c)'
      BY <1>0, <1>6, <2>1, <3>1 DEF Pursued
    <3>4. AnsweredOnce(chan[o], c) /\ InStep(chan[o], c, 0)
      BY <3>3 DEF Answered, AnsweredOnce, InStep
    <3>5. Answered(chan'[o], c) /\ AnsweredOnce(chan'[o], c) /\ InStep(chan'[o], c, 0)
      BY <1>2, <1>4, <1>5, <1>7, <2>3, <3>3, <3>4, AnsweredCat
    <3>6. pending'[o][c] = 0
      <4>1. pending[o][c] \in Nat
        BY <1>0, <1>1 DEF Typed
      <4> QED BY <1>6, <2>1, <3>3, <4>1 DEF Pursued
    <3> QED BY <1>0, <3>2, <3>3, <3>5, <3>6 DEF Pursued
  <2> QED BY <2>2, <2>3
<1> QED BY <1>0, <1>8, <1>9, <1>10, <1>11, <1>12 DEF IInv

(* A catalog makes the peer ask for what it never asked for on this         *)
(* connection, the tip among it unless it has it or asked for it before.    *)
LEMMA CatalogStep ==
  ASSUME IInv, NEW p \in Peers, chan[p] # <<>>, Head(chan[p]).type = "catalog",
         OnCatalog(p, Head(chan[p])),
         UNCHANGED <<resolverVars, delivered, adverts, offered, obtained, losses>>
  PROVE  IInv'
<1> DEFINE o == Other(p)
           m == chan[p][1]
           fresh == Selected(p, m) \ requested[p]
<1>0. o \in Peers /\ o # p /\ Other(o) = p /\ \A q \in Peers : q = p \/ q = o
  BY Others
<1>1. Typed
  BY DEF IInv
<1>2. /\ chan[p] \in Seq(Messages) /\ chan[o] \in Seq(Messages) /\ chan[o] \in Seq(Sent)
      /\ Head(chan[p]) = m /\ m \in Messages /\ m \in Sent /\ Rest(chan[p]) \in Seq(Sent)
  BY <1>0, <1>1, TakenShape, SentIsMessage DEF Typed
<1>3. m.type = "catalog" /\ \A c : ~Asks(m, c) /\ ~Answers(m, c)
  BY <1>2 DEF Asks, Answers
<1>4. fresh \in SUBSET Cids /\ IsFiniteSet(fresh)
  <2>1. Selected(p, m) \subseteq Cids /\ IsFiniteSet(Selected(p, m))
    BY <1>2, <1>3, Selection
  <2>2. fresh \in SUBSET Selected(p, m)
    OBVIOUS
  <2> QED BY <2>1, <2>2, FS_Subset
<1>5. m.tip # 0 /\ m.tip \notin mem[p] => m.tip \in fresh \cup requested[p]
  BY <1>2, <1>3, Selection
<1>6. /\ requested' = [requested EXCEPT ![p] = @ \cup fresh]
      /\ UNCHANGED <<pending, verifying>>
      /\ \/ fresh = {} /\ chan' = [chan EXCEPT ![p] = Rest(@)]
         \/ \E asked \in InOrder(fresh, m.tip) :
              chan' = [chan EXCEPT ![p] = Rest(@), ![o] = Append(@, Request(asked))]
  BY <1>2 DEF OnCatalog, Ask
<1> HIDE DEF o, m, fresh
<1> DEFINE Grown(c) == /\ Asked(chan'[o], c) <=> Asked(chan[o], c) \/ c \in fresh
                       /\ AskedOnce(chan[o], c) /\ ~(Asked(chan[o], c) /\ c \in fresh)
                          => AskedOnce(chan'[o], c)
                       /\ AnswersAlike(chan[o], chan'[o], c)
                       /\ NoNak(chan[o], c) => NoNak(chan'[o], c)
                       /\ Promised(chan[o], c) => Promised(chan'[o], c)
<1>7. /\ chan'[p] = Rest(chan[p]) /\ chan' \in [Peers -> Seq(Sent)]
      /\ \A c : Grown(c)
  <2>1. CASE fresh = {} /\ chan' = [chan EXCEPT ![p] = Rest(@)]
    <3>1. chan' \in [Peers -> Seq(Sent)] /\ chan'[p] = Rest(chan[p]) /\ chan'[o] = chan[o]
      BY <1>0, <1>1, <1>2, <2>1 DEF Typed
    <3> QED BY <1>2, <2>1, <3>1, AlikeSame
  <2>2. ASSUME NEW asked \in InOrder(fresh, m.tip),
               chan' = [chan EXCEPT ![p] = Rest(@), ![o] = Append(@, Request(asked))]
        PROVE  /\ chan'[p] = Rest(chan[p]) /\ chan' \in [Peers -> Seq(Sent)]
               /\ \A c : Grown(c)
    <3> DEFINE r == Request(asked)
    <3>1. /\ r \in Sent /\ \A c : (Asks(r, c) <=> c \in fresh) /\ ~Answers(r, c)
          /\ \A c : r # Nak(c)
      BY <1>4, Ordered
    <3> HIDE DEF r
    <3> DEFINE t == <<r>>
    <3>2. Append(chan[o], r) = chan[o] \o t /\ t \in Seq(Sent) /\ t \in Seq(Messages)
      BY <1>2, <3>1, AppendCat, SentIsMessage
    <3>3. \A c : /\ Asked(t, c) <=> c \in fresh
                 /\ ~Answered(t, c) /\ AskedOnce(t, c) /\ NoNak(t, c)
      BY <3>1, One
    <3> HIDE DEF t
    <3>4. chan[o] \o t \in Seq(Sent)
      BY <1>2, <3>2, CatShape
    <3>5. chan' = [chan EXCEPT ![p] = Rest(chan[p]), ![o] = chan[o] \o t]
      BY <1>0, <1>1, <2>2, <3>2 DEF Typed, r
    <3>6. /\ chan'[p] = Rest(chan[p]) /\ chan'[o] = chan[o] \o t
          /\ chan' \in [Peers -> Seq(Sent)]
      BY <1>0, <1>1, <1>2, <3>4, <3>5 DEF Typed
    <3>7. ASSUME NEW c
          PROVE  Grown(c)
      <4>1. /\ Asked(chan'[o], c) <=> Asked(chan[o], c) \/ c \in fresh
            /\ AskedOnce(chan[o], c) /\ ~(Asked(chan[o], c) /\ c \in fresh)
               => AskedOnce(chan'[o], c)
        BY <1>2, <3>2, <3>3, <3>6, AskedCat
      <4>2. AnswersAlike(chan[o], chan'[o], c)
        BY <1>2, <3>2, <3>3, <3>6, AlikeCat
      <4>3. /\ NoNak(chan[o], c) => NoNak(chan'[o], c)
            /\ Promised(chan[o], c) => Promised(chan'[o], c)
        BY <1>2, <3>2, <3>3, <3>6, PromisedCat
      <4> QED BY <4>1, <4>2, <4>3
    <3> QED BY <3>6, <3>7
  <2> QED BY <1>6, <2>1, <2>2
<1>8. requested'[p] = requested[p] \cup fresh /\ requested'[o] = requested[o]
  BY <1>0, <1>1, <1>6 DEF Typed
<1>9. Typed'
  <2>1. requested' \in [Peers -> SUBSET Cids]
    BY <1>1, <1>4, <1>6 DEF Typed
  <2> QED BY <1>1, <1>6, <1>7, <2>1 DEF Typed, resolverVars
<1>10. \A q \in Peers : Kept(q)'
  BY SameKept DEF IInv, resolverVars, Had
<1>11. \A q \in Peers : Offer(q)'
  <2>1. Offer(p)'
    BY <1>0, <1>6, <1>7, <1>8, SameOffer DEF IInv, resolverVars, o
  <2>2. Offer(o)'
    <3> DEFINE x == offered[o]
    <3>1. /\ NoNak(chan[p], x) => NoNak(chan'[p], x)
          /\ Promised(chan[p], x) => \/ Promised(chan'[p], x)
                                     \/ m.tip = x /\ NoNak(chan'[p], x)
      BY <1>2, <1>7, PromisedRest DEF m
    <3>2. x # 0 /\ m.tip = x => x \in stored[p] \/ x \in requested'[p]
      BY <1>5, <1>8 DEF IInv, Kept
    <3>3. stored' = stored /\ mem' = mem /\ offered' = offered
      BY DEF resolverVars
    <3> HIDE DEF x
    <3> QED BY <1>0, <1>8, <3>1, <3>2, <3>3, SameOffer DEF IInv, x
  <2> QED BY <1>0, <2>1, <2>2
<1>12. ASSUME NEW c \in Cids
       PROVE  Pursued(o, c)'
  <2>1. AsksAlike(chan[p], chan'[p], c)
    BY <1>2, <1>3, <1>7, AlikeRest DEF m
  <2> QED BY <1>0, <1>6, <1>7, <1>8, <2>1, SamePursuit DEF IInv, Had
<1>13. ASSUME NEW c \in Cids
       PROVE  Pursued(p, c)'
  <2>1. Pursued(p, c) /\ Had(p, c)' = Had(p, c)
    BY DEF IInv, Had
  <2>2. AnswersAlike(chan[p], chan'[p], c)
    BY <1>2, <1>3, <1>7, AlikeRest DEF m
  <2>3. CASE c \notin fresh
    <3>1. AsksAlike(chan[o], chan'[o], c)
      BY <1>7, <2>3 DEF AsksAlike
    <3> QED BY <1>6, <1>8, <2>1, <2>2, <2>3, <3>1, SamePursuit DEF o
  <2>4. CASE c \in fresh
    <3>1. c \notin requested[p] /\ c \in requested'[p]
      BY <1>8, <2>4 DEF fresh
    <3>2. /\ ~Asked(chan[o], c) /\ AskedOnce(chan[o], c)
          /\ ~Answered(chan[p], c) /\ c \notin verifying'[p] /\ ~Had(p, c)'
      BY <1>6, <2>1, <3>1 DEF Pursued, o
    <3>3. Asked(chan'[o], c) /\ AskedOnce(chan'[o], c)
      BY <1>7, <2>4, <3>2
    <3> QED BY <1>6, <2>1, <2>2, <3>1, <3>2, <3>3 DEF Pursued, AnswersAlike, o
  <2> QED BY <2>3, <2>4
<1> QED BY <1>0, <1>9, <1>10, <1>11, <1>12, <1>13 DEF IInv
(* A block that fails is free again, one that passes has been handed over. *)
LEMMA VerifiedStep ==
  ASSUME IInv, NEW p \in Peers, NEW d \in Cids, Verified(p, d)
  PROVE  IInv'
<1> DEFINE o == Other(p)
<1>0. o \in Peers /\ o # p /\ Other(o) = p /\ \A q \in Peers : q = p \/ q = o
  BY Others
<1> HIDE DEF o
<1>1. Typed
  BY DEF IInv
<1>2. /\ d \in verifying[p] /\ verifying' = [verifying EXCEPT ![p] = @ \ {d}]
      /\ UNCHANGED <<chan, pending, adverts, offered, obtained, losses>>
  BY DEF Verified
<1>3. /\ ~Asked(chan[o], d) /\ ~Answered(chan[p], d) /\ ~Had(p, d) /\ d \in requested[p]
  BY <1>2 DEF IInv, Pursued, o
<1>4. \A q \in Peers : \A c : c \in verifying'[q] <=> c \in verifying[q] /\ ~(q = p /\ c = d)
  BY <1>1, <1>2 DEF Typed
<1>5. verifying' \in [Peers -> SUBSET Cids]
  BY <1>1, <1>2 DEF Typed
<1>6. \A q \in Peers : \A c : AnswersAlike(chan[q], chan'[q], c) /\ AsksAlike(chan[q], chan'[q], c)
  BY <1>2, AlikeSame
<1>7. /\ AskedOnce(chan'[o], d) /\ AnsweredOnce(chan'[p], d)
      /\ InStep(chan'[p], d, pending'[p][d]) /\ (pending'[p][d] > 0 => Answered(chan'[p], d))
      /\ ~Asked(chan'[o], d) /\ ~Answered(chan'[p], d) /\ d \notin verifying'[p]
  BY <1>2, <1>3, <1>4 DEF IInv, Pursued, o
<1>8. CASE d \in Invalid
  <2>1. /\ requested' = [requested EXCEPT ![p] = @ \ {d}]
        /\ UNCHANGED <<resolverVars, delivered>>
    BY <1>8 DEF Verified
  <2>2. \A q \in Peers : \A c : c \in requested'[q] <=> c \in requested[q] /\ ~(q = p /\ c = d)
    BY <1>1, <2>1 DEF Typed
  <2>3. Typed'
    <3>1. requested' \in [Peers -> SUBSET Cids]
      BY <1>1, <2>1 DEF Typed
    <3> QED BY <1>1, <1>2, <1>5, <2>1, <3>1 DEF Typed, resolverVars
  <2>4. \A q \in Peers : Kept(q)'
    BY <2>1, SameKept DEF IInv, resolverVars, Had
  <2>5. ASSUME NEW q \in Peers
        PROVE  Offer(q)'
    <3>1. Other(q) \in Peers
      BY Others
    <3>2. offered[q] \notin Invalid => offered[q] # d
      BY <1>8
    <3> QED BY <1>2, <2>1, <2>2, <3>1, <3>2, SameOffer DEF IInv, resolverVars
  <2>6. ASSUME NEW q \in Peers, NEW c \in Cids
        PROVE  Pursued(q, c)'
    <3>1. CASE q = p /\ c = d
      <4>1. d \notin requested'[p] /\ ~Had(p, d)'
        BY <1>3, <2>1, <2>2 DEF Had
      <4> QED BY <1>7, <3>1, <4>1 DEF Pursued, o
    <3>2. CASE ~(q = p /\ c = d)
      <4>1. Pursued(q, c) /\ Other(q) \in Peers
        BY Others DEF IInv
      <4> QED BY <1>2, <1>4, <1>6, <2>1, <2>2, <3>2, <4>1, SamePursuit DEF Had
    <3> QED BY <3>1, <3>2
  <2> QED BY <2>3, <2>4, <2>5, <2>6 DEF IInv
<1>9. CASE d \notin Invalid
  <2>1. /\ delivered' = [delivered EXCEPT ![p][d] = @ + 1]
        /\ mem' = [mem EXCEPT ![p] = @ \cup {d}]
        /\ stored' = [stored EXCEPT ![p] = @ \cup {d}]
        /\ \E t \in {tip[p], d} : tip' = [tip EXCEPT ![p] = t]
        /\ requested' = requested
    BY <1>9 DEF Verified, Handed
  <2>2. /\ \A q \in Peers : /\ mem'[q] = IF q = p THEN mem[q] \cup {d} ELSE mem[q]
                            /\ stored'[q] = IF q = p THEN stored[q] \cup {d} ELSE stored[q]
        /\ \A q \in Peers, c \in Cids :
             delivered'[q][c] = IF q = p /\ c = d THEN delivered[p][d] + 1 ELSE delivered[q][c]
        /\ \A q \in Peers, c \in Cids : delivered[q][c] \in Nat
    <3>1. /\ mem \in [Peers -> SUBSET Cids] /\ stored \in [Peers -> SUBSET Cids]
          /\ delivered \in [Peers -> [Cids -> Nat]]
      BY <1>1 DEF Typed
    <3>2. /\ \A q \in Peers : mem'[q] = IF q = p THEN mem[q] \cup {d} ELSE mem[q]
          /\ \A q \in Peers : stored'[q] = IF q = p THEN stored[q] \cup {d} ELSE stored[q]
      <4>1. \A f \in [Peers -> SUBSET Cids], q \in Peers :
              [f EXCEPT ![p] = @ \cup {d}][q] = IF q = p THEN f[q] \cup {d} ELSE f[q]
        OBVIOUS
      <4> QED BY <2>1, <3>1, <4>1, Zenon
    <3>3. \A q \in Peers, c \in Cids :
            delivered'[q][c] = IF q = p /\ c = d THEN delivered[p][d] + 1 ELSE delivered[q][c]
      BY <2>1, <3>1
    <3>4. \A q \in Peers, c \in Cids : delivered[q][c] \in Nat
      BY <3>1
    <3> QED BY <3>2, <3>3, <3>4, Zenon
  <2>3. /\ Had(p, d)'
        /\ \A q \in Peers, c \in Cids : ~(q = p /\ c = d) => (Had(q, c)' <=> Had(q, c))
    <3>1. delivered'[p][d] = delivered[p][d] + 1 /\ delivered[p][d] \in Nat
      BY <2>2
    <3>2. Had(p, d)'
      BY <3>1 DEF Had
    <3> QED BY <2>2, <3>2 DEF Had
  <2>4. Typed'
    <3>1. /\ mem' \in [Peers -> SUBSET Cids] /\ stored' \in [Peers -> SUBSET Cids]
          /\ tip' \in [Peers -> Cids \cup {0}]
      BY <1>1, <2>1 DEF Typed
    <3>2. delivered' \in [Peers -> [Cids -> Nat]]
      <4>1. \A n \in Nat : [delivered EXCEPT ![p][d] = n] \in [Peers -> [Cids -> Nat]]
        BY <1>1 DEF Typed
      <4>2. delivered[p][d] + 1 \in Nat
        BY <2>2
      <4> QED BY <2>1, <4>1, <4>2
    <3> QED BY <1>1, <1>2, <1>5, <2>1, <3>1, <3>2 DEF Typed
  <2>5. ASSUME NEW q \in Peers
        PROVE  Kept(q)'
    <3>1. Kept(q)
      BY DEF IInv
    <3>2. IsFiniteSet(stored'[q])
      <4>1. IsFiniteSet(stored[q]) /\ IsFiniteSet(stored[q] \cup {d})
        BY <3>1, FS_AddElement DEF Kept
      <4>2. stored'[q] = stored[q] \cup {d} \/ stored'[q] = stored[q]
        BY <2>2
      <4> QED BY <4>1, <4>2
    <3>3. mem'[q] \subseteq stored'[q]
      BY <2>2, <3>1 DEF Kept
    <3>4. \A c \in Cids : Had(q, c)' => c \in stored'[q]
      BY <2>2, <2>3, <3>1 DEF Kept
    <3> QED BY <3>2, <3>3, <3>4 DEF Kept
  <2>6. ASSUME NEW q \in Peers
        PROVE  Offer(q)'
    <3>1. Other(q) \in Peers
      BY Others
    <3>2. mem[q] \subseteq mem'[q] /\ stored[Other(q)] \subseteq stored'[Other(q)]
      BY <2>2, <3>1
    <3>3. stored[Other(q)] \subseteq stored'[Other(q)] /\ offered' = offered /\ chan' = chan
      BY <1>2, <3>2
    <3> QED BY <2>1, <3>2, <3>3, SameOffer DEF IInv
  <2>7. ASSUME NEW q \in Peers, NEW c \in Cids
        PROVE  Pursued(q, c)'
    <3>1. CASE q = p /\ c = d
      <4>1. d \in requested'[p]
        BY <1>3, <2>1
      <4> QED BY <1>7, <2>3, <3>1, <4>1 DEF Pursued, o
    <3>2. CASE ~(q = p /\ c = d)
      <4>1. Pursued(q, c) /\ Other(q) \in Peers
        BY Others DEF IInv
      <4> QED BY <1>2, <1>4, <1>6, <2>1, <2>3, <3>2, <4>1, SamePursuit
    <3> QED BY <3>1, <3>2
  <2> QED BY <2>4, <2>5, <2>6, <2>7 DEF IInv
<1> QED BY <1>8, <1>9

(* A block comes by another route: the peer has more. *)
LEMMA ObtainStep ==
  ASSUME IInv, NEW p \in Peers, NEW d \in Cids, Obtain(p, d)
  PROVE  IInv'
<1>1. Typed
  BY DEF IInv
<1>2. /\ obtained < MaxObtained /\ obtained' = obtained + 1
      /\ mem' = [mem EXCEPT ![p] = @ \cup {d}]
      /\ stored' = [stored EXCEPT ![p] = @ \cup {d}]
      /\ \E t \in {tip[p]} \cup ({d} \ Invalid) : tip' = [tip EXCEPT ![p] = t]
      /\ UNCHANGED <<chan, requested, pending, verifying, delivered, adverts, offered, losses>>
  BY DEF Obtain
<1>3. \A q \in Peers : /\ mem'[q] = IF q = p THEN mem[q] \cup {d} ELSE mem[q]
                       /\ stored'[q] = IF q = p THEN stored[q] \cup {d} ELSE stored[q]
  BY <1>1, <1>2 DEF Typed
<1>4. Typed'
  <2>1. /\ mem' \in [Peers -> SUBSET Cids] /\ stored' \in [Peers -> SUBSET Cids]
        /\ tip' \in [Peers -> Cids \cup {0}]
    BY <1>1, <1>2 DEF Typed
  <2>2. obtained' \in 0..MaxObtained
    BY <1>1, <1>2, ExchangeAssumption DEF Typed
  <2> QED BY <1>1, <1>2, <2>1, <2>2 DEF Typed
<1>5. ASSUME NEW q \in Peers
      PROVE  Kept(q)'
  <2>1. Kept(q)
    BY DEF IInv
  <2>2. IsFiniteSet(stored'[q])
    <3>1. IsFiniteSet(stored[q]) /\ IsFiniteSet(stored[q] \cup {d})
      BY <2>1, FS_AddElement DEF Kept
    <3>2. stored'[q] = stored[q] \cup {d} \/ stored'[q] = stored[q]
      BY <1>3
    <3> QED BY <3>1, <3>2
  <2> QED BY <1>2, <1>3, <2>1, <2>2 DEF Kept, Had
<1>6. ASSUME NEW q \in Peers
      PROVE  Offer(q)'
  <2>1. Other(q) \in Peers
    BY Others
  <2>2. mem[q] \subseteq mem'[q] /\ stored[Other(q)] \subseteq stored'[Other(q)]
    BY <1>3, <2>1
  <2> QED BY <1>2, <2>2, SameOffer DEF IInv
<1>7. ASSUME NEW q \in Peers, NEW c \in Cids
      PROVE  Pursued(q, c)'
  BY <1>2, AlikeSame, SamePursuit DEF IInv, Had
<1> QED BY <1>4, <1>5, <1>6, <1>7 DEF IInv

(* A tip that leaves the memory is no longer on offer. *)
LEMMA EvictStep ==
  ASSUME IInv, NEW p \in Peers, NEW d \in Cids, Evict(p, d)
  PROVE  IInv'
<1>1. Typed
  BY DEF IInv
<1>2. /\ losses < MaxLosses /\ losses' = losses + 1
      /\ mem' = [mem EXCEPT ![p] = @ \ {d}]
      /\ offered' = [offered EXCEPT ![p] = IF @ = d THEN 0 ELSE @]
      /\ UNCHANGED <<stored, tip, chan, requested, pending, verifying, delivered, adverts,
                     obtained>>
  BY DEF Evict
<1>3. \A q \in Peers : /\ mem'[q] = IF q = p THEN mem[q] \ {d} ELSE mem[q]
                       /\ offered'[q] = IF q = p /\ offered[q] = d THEN 0 ELSE offered[q]
  BY <1>1, <1>2 DEF Typed
<1>4. Typed'
  <2>1. mem' \in [Peers -> SUBSET Cids] /\ offered' \in [Peers -> Cids \cup {0}]
    BY <1>1, <1>2 DEF Typed
  <2>2. losses' \in 0..MaxLosses
    BY <1>1, <1>2, ExchangeAssumption DEF Typed
  <2> QED BY <1>1, <1>2, <2>1, <2>2 DEF Typed
<1>5. ASSUME NEW q \in Peers
      PROVE  Kept(q)'
  BY <1>2, <1>3, SameKept DEF IInv, Had
<1>6. ASSUME NEW q \in Peers
      PROVE  Offer(q)'
  <2>1. CASE offered'[q] = 0
    BY <2>1 DEF Offer
  <2>2. CASE offered'[q] # 0
    <3>1. offered'[q] = offered[q] /\ (offered[q] \in mem[q] => offered[q] \in mem'[q])
      BY <1>3, <2>2
    <3> QED BY <1>2, <3>1, SameOffer DEF IInv
  <2> QED BY <2>1, <2>2
<1>7. ASSUME NEW q \in Peers, NEW c \in Cids
      PROVE  Pursued(q, c)'
  BY <1>2, AlikeSame, SamePursuit DEF IInv, Had
<1> QED BY <1>4, <1>5, <1>6, <1>7 DEF IInv

(* A new connection starts with nothing asked, sent or offered. *)
LEMMA ReconnectStep ==
  ASSUME IInv, NEW reloaded \in SUBSET Peers, Reconnect(reloaded)
  PROVE  IInv'
<1>1. Typed
  BY DEF IInv
<1> USE DEF Reconnect
<1>2. Typed'
  <2>1. /\ <<>> \in Seq(Sent) /\ 0 \in 0..MaxAdverts
        /\ \A c \in Cids : 0 < Parts(c)
    <3>1. MaxAdverts \in Nat /\ \A c \in Cids : Parts(c) \in Nat \ {0}
      BY ExchangeAssumption
    <3> QED BY <3>1
  <2>2. losses' \in 0..MaxLosses
    BY <1>1, ExchangeAssumption DEF Typed
  <2> QED BY <1>1, <2>1, <2>2 DEF Typed
<1>3. ASSUME NEW q \in Peers
      PROVE  Kept(q)' /\ Offer(q)'
  <2>1. mem'[q] \subseteq mem[q] /\ offered'[q] = 0 /\ \A c \in Cids : delivered'[q][c] = 0
    OBVIOUS
  <2>2. Kept(q)'
    BY <2>1 DEF Kept, IInv, Had
  <2> QED BY <2>1, <2>2 DEF Offer
<1>4. ASSUME NEW q \in Peers, NEW c \in Cids
      PROVE  Pursued(q, c)'
  <2>1. chan'[q] = <<>> /\ chan'[Other(q)] = <<>>
    BY Others
  <2>2. Asking(<<>>, c) = {} /\ Answering(<<>>, c) = {}
    BY DEF Asking, Answering
  <2> QED BY <2>1, <2>2 DEF Pursued, Had, Asked, Answered, AskedOnce, AnsweredOnce, InStep
<1> QED BY <1>2, <1>3, <1>4 DEF IInv

(* A step that changes nothing. *)
LEMMA StutterStep == IInv /\ UNCHANGED vars => IInv'
<1> SUFFICES ASSUME IInv, UNCHANGED vars PROVE IInv'
  OBVIOUS
<1>1. Typed'
  BY DEF IInv, Typed, vars, resolverVars
<1>2. \A p \in Peers : Kept(p)' /\ Offer(p)'
  BY DEF IInv, Kept, Offer, Had, vars, resolverVars
<1>3. \A p \in Peers, c \in Cids : Pursued(p, c)'
  BY DEF IInv, Pursued, Had, vars, resolverVars
<1> QED BY <1>1, <1>2, <1>3 DEF IInv

LEMMA ReceiveStep ==
  ASSUME IInv, NEW p \in Peers, Receive(p)
  PROVE  IInv'
  BY CatalogStep, RequestStep, NakStep, ChunkStep DEF Receive

LEMMA InvStep == IInv /\ [Next]_vars => IInv'
  BY AdvertiseStep, ReceiveStep, VerifiedStep, ObtainStep, EvictStep, ReconnectStep, StutterStep
     DEF Next

THEOREM Invariant == Spec => []IInv
  BY InitInv, InvStep, PTL DEF Spec
-----------------------------------------------------------------------------
(* What the invariant says. *)

(* Type invariant: every message of the channels and every reassembly is of *)
(* its type, and a reassembly never holds a whole block.                    *)
THEOREM TypeCorrect == Spec => []TypeOK
<1>1. IInv => TypeOK
  BY TypedType DEF IInv
<1> QED BY <1>1, Invariant, PTL

(* A channel that asks, or answers, at most once does so in one place. *)
LEMMA Single ==
  ASSUME NEW p, NEW c
  PROVE  /\ Asked(chan[Other(p)], c) /\ AskedOnce(chan[Other(p)], c)
            => \E i : Asking(chan[Other(p)], c) = {i}
         /\ Answered(chan[p], c) /\ AnsweredOnce(chan[p], c)
            => \E i : Answering(chan[p], c) = {i}
<1>1. \A S : S # {} /\ (\A i, j \in S : i = j) => \E i : S = {i}
  OBVIOUS
<1> QED BY <1>1, Zenon DEF Asked, Answered, AskedOnce, AnsweredOnce

LEMMA PursuedWay ==
  ASSUME NEW p \in Peers, NEW c \in Cids, Pursued(p, c)
  PROVE  Cardinality(Ways(p, c)) = IF c \in requested[p] THEN 1 ELSE 0
<1> DEFINE A == Asking(chan[Other(p)], c)
           R == Answering(chan[p], c)
           WA == {<<"asked", i>> : i \in A}
           WR == {<<"answered", i>> : i \in R}
           WV == {<<"verifying", d>> : d \in {c} \cap verifying[p]}
           WD == {<<"delivered", d>> : d \in {e \in {c} : delivered[p][e] > 0}}
<1>1. Ways(p, c) = WA \cup WR \cup WV \cup WD
  BY DEF Ways
<1>2. /\ Asked(chan[Other(p)], c) => \E i : A = {i}
      /\ Answered(chan[p], c) => \E i : R = {i}
  BY Single DEF Pursued
<1>3. /\ Asked(chan[Other(p)], c) => \E x : WA = {x}
      /\ ~Asked(chan[Other(p)], c) => WA = {}
  <2>1. \A i : A = {i} => WA = {<<"asked", i>>}
    OBVIOUS
  <2>2. A = {} => WA = {}
    OBVIOUS
  <2> HIDE DEF A, WA
  <2> QED BY <1>2, <2>1, <2>2 DEF Asked, A
<1>4. /\ Answered(chan[p], c) => \E x : WR = {x}
      /\ ~Answered(chan[p], c) => WR = {}
  <2>1. \A i : R = {i} => WR = {<<"answered", i>>}
    OBVIOUS
  <2>2. R = {} => WR = {}
    OBVIOUS
  <2> HIDE DEF R, WR
  <2> QED BY <1>2, <2>1, <2>2 DEF Answered, R
<1>5. /\ c \in verifying[p] => WV = {<<"verifying", c>>}
      /\ c \notin verifying[p] => WV = {}
  OBVIOUS
<1>6. /\ Had(p, c) => WD = {<<"delivered", c>>}
      /\ ~Had(p, c) => WD = {}
  BY DEF Had
<1>7. \A x : Cardinality({x}) = 1
  BY FS_Singleton
<1>8. Cardinality({}) = 0
  BY FS_EmptySet
<1> HIDE DEF A, R, WA, WR, WV, WD
<1>9. CASE c \notin requested[p]
  <2>1. Ways(p, c) = {}
    BY <1>1, <1>3, <1>4, <1>5, <1>6, <1>9 DEF Pursued
  <2> QED BY <1>8, <1>9, <2>1
<1>10. CASE c \in requested[p]
  <2>1. \E x : Ways(p, c) = {x}
    <3>1. CASE Asked(chan[Other(p)], c)
      <4>1. WR = {} /\ WV = {} /\ WD = {}
        BY <1>4, <1>5, <1>6, <3>1 DEF Pursued
      <4>2. Ways(p, c) = WA
        BY <1>1, <4>1
      <4> QED BY <1>3, <3>1, <4>2
    <3>2. CASE Answered(chan[p], c)
      <4>1. WA = {} /\ WV = {} /\ WD = {}
        BY <1>3, <1>5, <1>6, <3>2 DEF Pursued
      <4>2. Ways(p, c) = WR
        BY <1>1, <4>1
      <4> QED BY <1>4, <3>2, <4>2
    <3>3. CASE c \in verifying[p]
      <4>1. WA = {} /\ WR = {} /\ WD = {}
        BY <1>3, <1>4, <1>6, <3>3 DEF Pursued
      <4>2. Ways(p, c) = WV
        BY <1>1, <4>1
      <4> QED BY <1>5, <3>3, <4>2
    <3>4. CASE Had(p, c)
      <4>1. WA = {} /\ WR = {} /\ WV = {}
        BY <1>3, <1>4, <1>5, <3>4 DEF Pursued
      <4>2. Ways(p, c) = WD
        BY <1>1, <4>1
      <4> QED BY <1>6, <3>4, <4>2
    <3> QED BY <1>10, <3>1, <3>2, <3>3, <3>4 DEF Pursued
  <2> QED BY <1>7, <1>10, <2>1
<1> QED BY <1>9, <1>10

(* A requested CID is pursued in exactly one way, and what is left of its   *)
(* block starts with the chunk that its reassembly waits for.               *)
THEOREM PursuitCorrect == Spec => []RequestedIsPursued
<1>1. IInv => RequestedIsPursued
  <2> SUFFICES ASSUME IInv, NEW p \in Peers, NEW c \in Cids
               PROVE  /\ Cardinality(Ways(p, c)) = IF c \in requested[p] THEN 1 ELSE 0
                      /\ \A i \in Answering(chan[p], c) :
                           chan[p][i].type = "block" => chan[p][i].part = pending[p][c] + 1
                      /\ pending[p][c] > 0 => Answering(chan[p], c) # {}
    BY DEF RequestedIsPursued
  <2>1. Pursued(p, c)
    BY DEF IInv
  <2>2. Cardinality(Ways(p, c)) = IF c \in requested[p] THEN 1 ELSE 0
    BY <2>1, PursuedWay
  <2>3. \A i \in Answering(chan[p], c) :
          chan[p][i].type = "block" => chan[p][i].part = pending[p][c] + 1
    BY <2>1 DEF Pursued, InStep
  <2>4. pending[p][c] > 0 => Answering(chan[p], c) # {}
    BY <2>1 DEF Pursued, Answered
  <2> QED BY <2>2, <2>3, <2>4
<1> QED BY <1>1, Invariant, PTL

(* At rest, an offered tip that is valid has arrived: no catalog that       *)
(* promises it is left on the channel, and if it was asked for, the only    *)
(* way left of being pursued is that it was handed over.                    *)
THEOREM OfferCorrect == Spec => []OfferedTipArrives
<1>1. IInv => OfferedTipArrives
  <2> SUFFICES ASSUME IInv, Quiet, NEW p \in Peers, offered[p] \notin {0} \cup Invalid
               PROVE  offered[p] \in Has(Other(p))
    BY DEF OfferedTipArrives
  <2> DEFINE t == offered[p]
             q == Other(p)
  <2>1. q \in Peers /\ Other(q) = p
    BY Others
  <2>2. t \in Cids
    BY DEF IInv, Typed
  <2>3. chan[q] = <<>> /\ chan[p] = <<>> /\ verifying[q] = {}
    BY <2>1 DEF Quiet
  <2>4. ~Promised(chan[q], t)
    BY <2>3 DEF Promised
  <2>5. CASE t \in stored[q]
    BY <2>5 DEF Has
  <2>6. CASE t \in requested[q]
    <3>1. ~Asked(chan[Other(q)], t) /\ ~Answered(chan[q], t) /\ t \notin verifying[q]
      BY <2>1, <2>3 DEF Asked, Answered, Asking, Answering
    <3>2. Pursued(q, t) /\ Kept(q)
      BY <2>1, <2>2 DEF IInv
    <3>3. Had(q, t)
      BY <2>6, <3>1, <3>2 DEF Pursued
    <3> QED BY <2>2, <3>2, <3>3 DEF Kept, Has
  <2>7. Offer(p)
    BY DEF IInv
  <2> QED BY <2>4, <2>5, <2>6, <2>7 DEF Offer
<1> QED BY <1>1, Invariant, PTL

-----------------------------------------------------------------------------
(* The exchange implements the transfer of blocks. *)

Stages == [p \in Peers |-> [c \in Cids |-> Stage(p, c)]]

(* The stage of a CID depends on these three. *)
LEMMA SameStage ==
  ASSUME NEW p \in Peers, NEW c \in Cids,
         c \in requested'[p] <=> c \in requested[p],
         c \in verifying'[p] <=> c \in verifying[p], Had(p, c)' <=> Had(p, c)
  PROVE  Stage(p, c)' = Stage(p, c)
  BY DEF Stage, Had

(* One stage moves, the others stay. *)
LEMMA OneMoves ==
  ASSUME NEW p \in Peers, NEW d \in Cids,
         \A q \in Peers, c \in Cids : ~(q = p /\ c = d) => Stage(q, c)' = Stage(q, c)
  PROVE  Transfer!Move(p, d, Stage(p, d), Stage(p, d)')
<1>1. Stages[p][d] = Stage(p, d)
  BY DEF Stages
<1>2. Stages' = [Stages EXCEPT ![p][d] = Stage(p, d)']
  BY DEF Stages
<1> QED BY <1>1, <1>2 DEF Transfer!Move, Stages
(* Nothing moves. *)
LEMMA NoneMoves ==
  ASSUME UNCHANGED <<requested, verifying, delivered>>
  PROVE  UNCHANGED Stages
<1>1. \A p \in Peers, c \in Cids : Stage(p, c)' = Stage(p, c)
  BY SameStage DEF Had
<1> QED BY <1>1 DEF Stages

(* A catalog asks for idle blocks. *)
LEMMA CatalogAsks ==
  ASSUME IInv, NEW p \in Peers, NEW m, OnCatalog(p, m), UNCHANGED delivered
  PROVE  Transfer!Ask(p, (Selected(p, m) \ requested[p]) \cap Cids)
<1> DEFINE fresh == Selected(p, m) \ requested[p]
           S == fresh \cap Cids
<1>1. Typed
  BY DEF IInv
<1>2. requested' = [requested EXCEPT ![p] = @ \cup fresh] /\ verifying' = verifying
  BY DEF OnCatalog, Ask
<1>3. \A q \in Peers : \A c : c \in requested'[q] <=> c \in requested[q] \/ (q = p /\ c \in fresh)
  BY <1>1, <1>2 DEF Typed
<1>4. ASSUME NEW c \in S
      PROVE  Stage(p, c) = "idle" /\ Stage(p, c)' = "asked"
  <2>1. Pursued(p, c) /\ c \notin requested[p] /\ c \in requested'[p]
    BY <1>3 DEF IInv
  <2>2. c \notin verifying[p] /\ ~Had(p, c) /\ c \notin verifying'[p] /\ ~Had(p, c)'
    BY <1>2, <2>1 DEF Pursued, Had
  <2> QED BY <2>1, <2>2 DEF Stage, Had
<1>5. \A q \in Peers, c \in Cids : ~(q = p /\ c \in S) => Stage(q, c)' = Stage(q, c)
  BY <1>2, <1>3, SameStage DEF Had
<1> HIDE DEF fresh, S
<1>6. S \subseteq Cids
  BY DEF S
<1>7. \A c \in S : Stages[p][c] = "idle"
  BY <1>4, <1>6 DEF Stages
<1>8. Stages' = [Stages EXCEPT ![p] = [c \in Cids |-> IF c \in S THEN "asked" ELSE Stages[p][c]]]
  BY <1>4, <1>5, <1>6 DEF Stages
<1> QED BY <1>7, <1>8 DEF Transfer!Ask, Stages, S, fresh

(* A refusal lets a block be asked for again. *)
LEMMA NakRefuses ==
  ASSUME IInv, NEW p \in Peers, chan[p] # <<>>, Head(chan[p]).type = "nak",
         OnNak(p, Head(chan[p]).cid), UNCHANGED delivered
  PROVE  \E c \in Cids : Transfer!Refused(p, c)
<1>1. Typed /\ chan[p] \in Seq(Messages) /\ Head(chan[p]) = chan[p][1] /\ chan[p][1] \in Messages
  BY TakenShape DEF IInv
<1>2. PICK d \in Cids : d = Head(chan[p]).cid /\ Answers(chan[p][1], d)
  BY <1>1, Shapes DEF Answers
<1>3. Answered(chan[p], d)
  BY <1>1, <1>2, RestShape DEF Answered, Answering
<1>4. Pursued(p, d)
  BY <1>2 DEF IInv
<1>5. requested' = [requested EXCEPT ![p] = @ \ {d}] /\ verifying' = verifying
  BY <1>2 DEF OnNak
<1>6. \A q \in Peers : \A c : c \in requested'[q] <=> c \in requested[q] /\ ~(q = p /\ c = d)
  BY <1>1, <1>5 DEF Typed
<1>7. Stage(p, d) = "asked" /\ Stage(p, d)' = "idle"
  <2>1. d \in requested[p] /\ d \notin verifying[p] /\ ~Had(p, d)
    BY <1>3, <1>4 DEF Pursued
  <2>2. d \notin requested'[p] /\ d \notin verifying'[p] /\ ~Had(p, d)'
    BY <1>5, <1>6, <2>1 DEF Had
  <2> QED BY <2>1, <2>2 DEF Stage, Had
<1>8. \A q \in Peers, c \in Cids : ~(q = p /\ c = d) => Stage(q, c)' = Stage(q, c)
  BY <1>5, <1>6, SameStage DEF Had
<1>9. Transfer!Move(p, d, Stage(p, d), Stage(p, d)')
  BY <1>2, <1>8, OneMoves
<1> QED BY <1>2, <1>7, <1>9 DEF Transfer!Refused

(* The last chunk completes a block, the others leave it asked for. *)
LEMMA ChunkCompletes ==
  ASSUME IInv, NEW p \in Peers, chan[p] # <<>>, Head(chan[p]).type = "block",
         OnChunk(p, Head(chan[p]).cid), UNCHANGED delivered
  PROVE  UNCHANGED Stages \/ \E c \in Cids : Transfer!Complete(p, c)
<1>1. Typed /\ chan[p] \in Seq(Messages) /\ Head(chan[p]) = chan[p][1] /\ chan[p][1] \in Messages
  BY TakenShape DEF IInv
<1>2. PICK d \in Cids : d = Head(chan[p]).cid /\ Answers(chan[p][1], d)
  BY <1>1, Shapes DEF Answers
<1>3. Answered(chan[p], d)
  BY <1>1, <1>2, RestShape DEF Answered, Answering
<1>4. Pursued(p, d)
  BY <1>2 DEF IInv
<1>5. /\ requested' = requested
      /\ verifying' = verifying \/ verifying' = [verifying EXCEPT ![p] = @ \cup {d}]
  BY <1>2 DEF OnChunk
<1>6. CASE verifying' = verifying
  BY <1>5, <1>6, NoneMoves
<1>7. CASE verifying' = [verifying EXCEPT ![p] = @ \cup {d}]
  <2>1. \A q \in Peers : \A c : c \in verifying'[q] <=> c \in verifying[q] \/ (q = p /\ c = d)
    BY <1>1, <1>7 DEF Typed
  <2>2. Stage(p, d) = "asked" /\ Stage(p, d)' = "checking"
    <3>1. d \in requested[p] /\ d \notin verifying[p] /\ ~Had(p, d)
      BY <1>3, <1>4 DEF Pursued
    <3> QED BY <2>1, <3>1 DEF Stage, Had
  <2>3. \A q \in Peers, c \in Cids : ~(q = p /\ c = d) => Stage(q, c)' = Stage(q, c)
    BY <1>5, <2>1, SameStage DEF Had
  <2>4. Transfer!Move(p, d, Stage(p, d), Stage(p, d)')
    BY <1>2, <2>3, OneMoves
  <2> QED BY <1>2, <2>2, <2>4 DEF Transfer!Complete
<1> QED BY <1>5, <1>6, <1>7

(* A verified block is had if it passes and free again if it fails. *)
LEMMA VerifiedSettles ==
  ASSUME IInv, NEW p \in Peers, NEW d \in Cids, Verified(p, d)
  PROVE  Transfer!Passed(p, d) \/ Transfer!Failed(p, d)
<1>1. Typed /\ Pursued(p, d)
  BY DEF IInv
<1>2. d \in verifying[p] /\ verifying' = [verifying EXCEPT ![p] = @ \ {d}]
  BY DEF Verified
<1>3. Stage(p, d) = "checking" /\ ~Had(p, d)
  BY <1>1, <1>2 DEF Stage, Pursued
<1>4. \A q \in Peers : \A c : c \in verifying'[q] <=> c \in verifying[q] /\ ~(q = p /\ c = d)
  BY <1>1, <1>2 DEF Typed
<1>5. CASE d \in Invalid
  <2>1. requested' = [requested EXCEPT ![p] = @ \ {d}] /\ delivered' = delivered
    BY <1>5 DEF Verified
  <2>2. \A q \in Peers : \A c : c \in requested'[q] <=> c \in requested[q] /\ ~(q = p /\ c = d)
    BY <1>1, <2>1 DEF Typed
  <2>3. Stage(p, d)' = "idle"
    <3>1. d \notin verifying'[p] /\ d \notin requested'[p] /\ ~Had(p, d)'
      BY <1>3, <1>4, <2>1, <2>2 DEF Had
    <3> QED BY <3>1 DEF Stage, Had
  <2>4. \A q \in Peers, c \in Cids : ~(q = p /\ c = d) => Stage(q, c)' = Stage(q, c)
    BY <1>4, <2>1, <2>2, SameStage DEF Had
  <2>5. Transfer!Move(p, d, Stage(p, d), Stage(p, d)')
    BY <2>4, OneMoves
  <2> QED BY <1>3, <1>5, <2>3, <2>5 DEF Transfer!Failed
<1>6. CASE d \notin Invalid
  <2>1. requested' = requested /\ delivered' = [delivered EXCEPT ![p][d] = @ + 1]
    BY <1>6 DEF Verified
  <2>2. /\ delivered'[p][d] = delivered[p][d] + 1 /\ delivered[p][d] \in Nat
        /\ \A q \in Peers, c \in Cids : ~(q = p /\ c = d) => delivered'[q][c] = delivered[q][c]
    BY <1>1, <2>1 DEF Typed
  <2>3. Stage(p, d)' = "had"
    <3>1. d \notin verifying'[p] /\ delivered'[p][d] > 0
      BY <1>4, <2>2
    <3> QED BY <3>1 DEF Stage
  <2>4. \A q \in Peers, c \in Cids : ~(q = p /\ c = d) => Stage(q, c)' = Stage(q, c)
    BY <1>4, <2>1, <2>2, SameStage DEF Had
  <2>5. Transfer!Move(p, d, Stage(p, d), Stage(p, d)')
    BY <2>4, OneMoves
  <2> QED BY <1>3, <1>6, <2>3, <2>5 DEF Transfer!Passed
<1> QED BY <1>5, <1>6

LEMMA ReconnectRenews ==
  ASSUME NEW reloaded \in SUBSET Peers, Reconnect(reloaded)
  PROVE  Transfer!Renew
<1>1. \A p \in Peers, c \in Cids : Stage(p, c)' = "idle"
  BY DEF Reconnect, Stage
<1> QED BY <1>1 DEF Transfer!Renew

(* Every step of the exchange is a step of the transfer or leaves it alone. *)
LEMMA StepTransfers ==
  ASSUME IInv, [Next]_vars
  PROVE  Transfer!Next \/ UNCHANGED Stages
<1>1. ASSUME NEW p \in Peers, Receive(p)
      PROVE  Transfer!Next \/ UNCHANGED Stages
  <2>1. delivered' = delivered
    BY <1>1 DEF Receive
  <2>2. CASE Head(chan[p]).type = "catalog" /\ OnCatalog(p, Head(chan[p]))
    BY <2>1, <2>2, CatalogAsks DEF Transfer!Next
  <2>3. CASE Head(chan[p]).type = "request" /\ OnRequest(p, Head(chan[p]).asked)
    BY <2>1, <2>3, NoneMoves DEF OnRequest
  <2>4. CASE Head(chan[p]).type = "nak" /\ OnNak(p, Head(chan[p]).cid)
    BY <1>1, <2>1, <2>4, NakRefuses DEF Transfer!Next, Receive
  <2>5. CASE Head(chan[p]).type = "block" /\ OnChunk(p, Head(chan[p]).cid)
    BY <1>1, <2>1, <2>5, ChunkCompletes DEF Transfer!Next, Receive
  <2> QED BY <1>1, <2>2, <2>3, <2>4, <2>5 DEF Receive
<1>2. ASSUME NEW p \in Peers, NEW c \in Cids, Verified(p, c)
      PROVE  Transfer!Next
  BY <1>2, VerifiedSettles DEF Transfer!Next
<1>3. ASSUME NEW p \in Peers, Advertise(p) \/ \E c \in Cids : Obtain(p, c) \/ Evict(p, c)
      PROVE  UNCHANGED Stages
  BY <1>3, NoneMoves DEF Advertise, Obtain, Evict
<1>4. ASSUME NEW reloaded \in SUBSET Peers, Reconnect(reloaded)
      PROVE  Transfer!Next
  BY <1>4, ReconnectRenews DEF Transfer!Next
<1>5. CASE UNCHANGED vars
  BY <1>5, NoneMoves DEF vars
<1> QED BY <1>1, <1>2, <1>3, <1>4, <1>5 DEF Next

LEMMA InitTransfers == Init => Transfer!Init
  BY DEF Init, Transfer!Init, Stage

(* The exchange implements the abstract transfer of blocks: on one          *)
(* connection a block is asked for while nothing else is known of it, is    *)
(* verified once, and is handed over at most once, after the verification.  *)
THEOREM TransferImplemented == Spec => ImplementsTransfer
<1>1. IInv /\ [Next]_vars => [Transfer!Next]_Stages
  BY StepTransfers
<1> QED BY <1>1, InitTransfers, Invariant, PTL
        DEF Spec, ImplementsTransfer, Transfer!Spec, Stages
=============================================================================
