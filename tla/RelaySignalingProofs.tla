------------------------- MODULE RelaySignalingProofs -------------------------
(***************************************************************************)
(* Proofs about RelaySignaling, for any finite sets of relays and browsers *)
(* and every bound.                                                        *)
(***************************************************************************)
EXTENDS RelaySignaling, SequenceTheorems, FiniteSetTheorems, TLAPS
-----------------------------------------------------------------------------
\* What can be under way on a stream.
Rest == {<<>>, <<"end">>}
Done == {<<>>, <<"end">>, <<"leave", "end">>, <<"join", "end">>,
         <<"join", "leave", "end">>}
Frames == Done \cup {<<"join">>}

LEMMA FrameFacts ==
  /\ Tail(<<"join">>) = <<>> /\ Head(<<"join">>) = "join"
  /\ Tail(<<"end">>) = <<>> /\ Head(<<"end">>) = "end"
  /\ Tail(<<"leave", "end">>) = <<"end">> /\ Head(<<"leave", "end">>) = "leave"
  /\ Tail(<<"join", "end">>) = <<"end">> /\ Head(<<"join", "end">>) = "join"
  /\ Tail(<<"join", "leave", "end">>) = <<"leave", "end">>
  /\ Head(<<"join", "leave", "end">>) = "join"
OBVIOUS

LEMMA LeaveFacts ==
  /\ <<>> \o <<"leave", "end">> = <<"leave", "end">>
  /\ <<"join">> \o <<"leave", "end">> = <<"join", "leave", "end">>
<1> DEFINE S == {"join", "leave", "end"}
           j == <<"join">>
           l == <<"leave", "end">>
           t == <<"join", "leave", "end">>
<1>1. j \in Seq(S) /\ l \in Seq(S) /\ t \in Seq(S)
  OBVIOUS
<1>2. <<>> \o l = l
  <2> HIDE DEF l, S
  <2> QED BY <1>1, ConcatEmptySeq
<1>3. Len(j) = 1 /\ Len(l) = 2 /\ Len(t) = 3
  OBVIOUS
<1>4. j[1] = t[1] /\ l[1] = t[2] /\ l[2] = t[3]
  OBVIOUS
<1>5. j \o l = t
  <2> HIDE DEF j, l, t, S
  <2>1. /\ j \o l \in Seq(S) /\ Len(j \o l) = Len(j) + Len(l)
        /\ \A i \in 1..(Len(j) + Len(l)) :
             (j \o l)[i] = IF i <= Len(j) THEN j[i] ELSE l[i - Len(j)]
    BY <1>1, ConcatProperties, Zenon
  <2>2. Len(j \o l) = Len(t)
    BY <1>3, <2>1
  <2>3. \A i \in 1..Len(j \o l) : (j \o l)[i] = t[i]
    BY <1>3, <1>4, <2>1
  <2> QED BY <1>1, <2>1, <2>2, <2>3, SeqEqual, Zenon
<1> QED BY <1>2, <1>5

LEMMA AppendTwo ==
  Append(<<"join">>, "end") = <<"join", "end">>
<1> DEFINE S == {"join", "end"}
           j == <<"join">>
           e == "end"
           t == <<"join", "end">>
<1>1. j \in Seq(S) /\ t \in Seq(S) /\ e \in S
  OBVIOUS
<1>2. Len(j) = 1 /\ Len(t) = 2 /\ j[1] = t[1] /\ t[2] = e
  OBVIOUS
<1> HIDE DEF j, t, e, S
<1>3. /\ Append(j, e) \in Seq(S) /\ Len(Append(j, e)) = Len(j) + 1
      /\ \A i \in 1..Len(j) : Append(j, e)[i] = j[i]
      /\ Append(j, e)[Len(j) + 1] = e
  BY <1>1, AppendProperties
<1>4. Len(Append(j, e)) = Len(t) /\ \A i \in 1..Len(Append(j, e)) : Append(j, e)[i] = t[i]
  BY <1>2, <1>3
<1>5. Append(j, e) = t
  BY <1>1, <1>3, <1>4, SeqEqual, Zenon
<1> QED BY <1>5 DEF j, t, e

LEMMA BreakFacts ==
  ASSUME NEW f \in {<<>>, <<"join">>}, NEW n \in 0..Len(f)
  PROVE  Append(SubSeq(f, 1, n), "end") \in {<<"end">>, <<"join", "end">>}
<1>0. Append(<<>>, "end") = <<"end">>
  OBVIOUS
<1>1. CASE n = 0
  <2>1. SubSeq(f, 1, n) = <<>>
    BY <1>1, SubSeqEmpty
  <2> QED BY <2>1, <1>0
<1>2. CASE n # 0
  <2>1. f = <<"join">>
    BY <1>2
  <2>2. Len(f) = 1 /\ f \in Seq({"join"})
    BY <2>1
  <2>3. n = 1
    BY <1>2, <2>2
  <2>4. SubSeq(f, 1, n) = f
    BY <2>2, <2>3, SubSeqFull
  <2>5. Append(<<"join">>, "end") = <<"join", "end">>
    BY AppendTwo
  <2> QED BY <2>1, <2>4, <2>5
<1> QED BY <1>1, <1>2

LEMMA FramesAreSequences == Frames \subseteq Seq({"join", "leave", "end"})
BY DEF Frames, Done

LEMMA Distinct ==
  /\ <<>> # <<"end">> /\ <<>> # <<"join">> /\ <<>> # <<"leave", "end">>
  /\ <<>> # <<"join", "end">> /\ <<>> # <<"join", "leave", "end">>
OBVIOUS

\* The parts of a stream.
LEMMA StreamParts ==
  ASSUME NEW s \in Streams
  PROVE  /\ Owner(s) \in Browsers /\ At(s) \in Relays /\ s[3] \in 1..MaxStreams
         /\ s = <<Owner(s), At(s), s[3]>> /\ s \notin {None, Virtual}
<1>1. s \notin {None, Virtual}
  BY EntriesAssumption
<1> QED BY <1>1 DEF Streams, Owner, At

LEMMA StreamMade ==
  ASSUME NEW s \in Streams, NEW n \in 1..MaxStreams
  PROVE  /\ <<Owner(s), At(s), n>> \in Streams
         /\ Owner(<<Owner(s), At(s), n>>) = Owner(s)
         /\ At(<<Owner(s), At(s), n>>) = At(s)
         /\ <<Owner(s), At(s), n>>[3] = n
BY DEF Streams, Owner, At
-----------------------------------------------------------------------------
(***************************************************************************)
(* The invariant.                                                          *)
(***************************************************************************)
Phases  == {"none", "open", "closed"}
Entries == Streams \cup {None, Virtual}

StreamsType ==
  /\ up \in [Streams -> Frames] /\ phase \in [Streams -> Phases]
  /\ told \in [Streams -> SUBSET Browsers]

\* What is under way on a stream, by its phase.
Shape(s) ==
  /\ phase[s] = "none" => up[s] = <<>>
  /\ phase[s] = "open" => up[s] \in {<<>>, <<"join">>}
  /\ phase[s] = "closed" => up[s] \in Done

Before(t, s) == Owner(t) = Owner(s) /\ At(t) = At(s) /\ t[3] < s[3]

\* Of the earlier streams of the same browser to the same relay only the end may
\* still be under way.
InTurn ==
  \A s, t \in Streams :
    phase[s] # "none" /\ Before(t, s) => phase[t] = "closed" /\ up[t] \in Rest

StreamsOK == StreamsType /\ (\A s \in Streams : Shape(s)) /\ InTurn

\* An entry for a stream: the relay has not seen the end of the stream.
Live(s, r, b) ==
  /\ Owner(s) = b /\ At(s) = r /\ phase[s] # "none"
  /\ phase[s] = "open" \/ up[s] # <<>>

TablesType ==
  /\ reg \in [Relays -> [Browsers -> Entries]]
  /\ remote \in [Relays -> [Browsers -> Relays \cup {None}]]

TablesOK ==
  \A r \in Relays, b \in Browsers :
    /\ reg[r][b] \in Streams => remote[r][b] = None /\ Live(reg[r][b], r, b)
    /\ reg[r][b] = Virtual => remote[r][b] \in Relays \ {r}

\* What relay a may send: it announces and takes back peers in its own name, and
\* announces only who had a stream to it.
Sent(a) ==
  {m \in Messages :
     /\ m.type \in {"join", "leave"} => m.owner = a
     /\ m.type = "join" =>
          \E t \in Streams : Owner(t) = m.peer /\ At(t) = a /\ phase[t] # "none"}

LinksOK ==
  /\ link \in [Relays -> [Relays -> Seq(Messages)]]
  /\ \A a, r \in Relays : link[a][r] \in Seq(Sent(a))
  /\ \A r \in Relays : link[r][r] = <<>>

CountsOK == opened \in 0..MaxOpened /\ restarts \in 0..MaxRestarts

IInv == StreamsOK /\ TablesType /\ TablesOK /\ LinksOK /\ CountsOK /\ OwnRelayKeepsIt

-----------------------------------------------------------------------------
\* Lemmas about the messages.
LEMMA MessageTypes ==
  ASSUME NEW r \in Relays, NEW b \in Browsers, NEW c \in Browsers,
         NEW what \in {"joined", "left"}
  PROVE  /\ Gone(r, b) \in Sent(r) /\ Signal(c, what, b) \in Sent(r)
         /\ Join(r, b) \in Messages
         /\ (\E t \in Streams : Owner(t) = b /\ At(t) = r /\ phase[t] # "none")
              => Join(r, b) \in Sent(r)
BY DEF Gone, Signal, Join, Sent, Messages

\* A finite set of messages makes a sequence of messages.
LEMMA SetToSeqType ==
  ASSUME NEW S, IsFiniteSet(S)
  PROVE  SetToSeq(S) \in Seq(S)
<1> DEFINE n == Cardinality(S)
<1>1. n \in Nat /\ ExistsBijection(1..n, S)
  BY FS_CardinalityType
<1>2. \E f \in [1..n -> S] : IsInjective(f)
  BY <1>1 DEF ExistsBijection, Bijection, Injection, IsInjective
<1>3. SetToSeq(S) \in [1..n -> S]
  BY <1>2 DEF SetToSeq
<1> HIDE DEF n
<1> QED BY <1>1, <1>3

LEMMA SignalsFinite ==
  ASSUME NEW far, far \subseteq Browsers, NEW what, NEW p
  PROVE  IsFiniteSet({Signal(b, what, p) : b \in far})
<1> DEFINE T == {Signal(b, what, p) : b \in far}
           f == [b \in far |-> Signal(b, what, p)]
<1>1. IsFiniteSet(far)
  BY SignalingAssumption, FS_Subset
<1>2. f \in Bijection(far, T)
  BY DEF Signal, Bijection, Injection, Surjection, IsInjective
<1> QED BY <1>1, <1>2, FS_Bijection DEF ExistsBijection

LEMMA JoinsFinite ==
  ASSUME NEW locals, locals \subseteq Browsers, NEW r
  PROVE  IsFiniteSet({Join(r, b) : b \in locals})
<1> DEFINE T == {Join(r, b) : b \in locals}
           f == [b \in locals |-> Join(r, b)]
<1>1. IsFiniteSet(locals)
  BY SignalingAssumption, FS_Subset
<1>2. f \in Bijection(locals, T)
  BY DEF Join, Bijection, Injection, Surjection, IsInjective
<1> QED BY <1>1, <1>2, FS_Bijection DEF ExistsBijection

LEMMA RelayedType ==
  ASSUME NEW r \in Relays, NEW entries, NEW members, members \subseteq Browsers,
         NEW what \in {"joined", "left"}, NEW p \in Browsers
  PROVE  Relayed(entries, members, what, p) \in Seq(Sent(r))
<1> DEFINE far == {b \in members : entries[b] = Virtual}
           T == {Signal(b, what, p) : b \in far}
<1>1. IsFiniteSet(T)
  <2>1. far \subseteq Browsers
    OBVIOUS
  <2> HIDE DEF far
  <2> QED BY <2>1, SignalsFinite
<1>2. T \subseteq Sent(r)
  BY MessageTypes
<1>3. Relayed(entries, members, what, p) = SetToSeq(T)
  BY DEF Relayed
<1> HIDE DEF T
<1>4. SetToSeq(T) \in Seq(T)
  BY <1>1, SetToSeqType
<1>5. SetToSeq(T) \in Seq(Sent(r))
  BY <1>2, <1>4, SeqMonotonic
<1> QED BY <1>3, <1>5

\* publish() adds what the relay may send to its links, and nothing to its own.
LEMMA PublishedKeeps ==
  ASSUME NEW l \in [Relays -> [Relays -> Seq(Messages)]], NEW r \in Relays,
         \A a, x \in Relays : l[a][x] \in Seq(Sent(a)),
         \A x \in Relays : l[x][x] = <<>>,
         NEW msgs \in Seq(Sent(r)), link' = Published(l, r, msgs),
         \A a \in Relays : Sent(a) \subseteq Sent(a)'
  PROVE  LinksOK'
<1>1. \A a, x \in Relays :
        link'[a][x] = IF a = r THEN (IF x = r THEN <<>> ELSE l[a][x] \o msgs) ELSE l[a][x]
  BY DEF Published
<1>2. \A a, x \in Relays : link'[a][x] \in Seq(Sent(a))
  <2> SUFFICES ASSUME NEW a \in Relays, NEW x \in Relays
               PROVE  link'[a][x] \in Seq(Sent(a))
    OBVIOUS
  <2> DEFINE S == Sent(a)
  <2>1. l[a][x] \in Seq(S) /\ <<>> \in Seq(S)
    OBVIOUS
  <2>2. a = r => l[a][x] \o msgs \in Seq(S)
    BY <2>1
  <2> HIDE DEF S
  <2>3. link'[a][x] \in Seq(S)
    BY <1>1, <2>1, <2>2
  <2> QED BY <2>3 DEF S
<1>3. \A a, x \in Relays : link'[a][x] \in Seq(Sent(a)')
  BY <1>2, SeqMonotonic
<1>4. \A a : Sent(a) \subseteq Messages
  BY DEF Sent
<1>5. \A a, x \in Relays : link'[a][x] \in Seq(Messages)
  BY <1>2, <1>4, SeqMonotonic
<1>6. link' \in [Relays -> [Relays -> Seq(Messages)]]
  <2> DEFINE new == [a \in Relays |-> IF a = r THEN <<>> ELSE l[r][a] \o msgs]
  <2>1. link' = [l EXCEPT ![r] = new]
    BY DEF Published
  <2>2. \A x \in Relays : new[x] = link'[r][x]
    BY <1>1
  <2>3. \A x \in Relays : new[x] \in Seq(Messages)
    BY <2>2, <1>5
  <2>4. new \in [Relays -> Seq(Messages)]
    BY <2>3
  <2> HIDE DEF new
  <2> QED BY <2>1, <2>4
<1>7. \A x \in Relays : link'[x][x] = <<>>
  BY <1>1
<1> QED BY <1>3, <1>6, <1>7 DEF LinksOK
-----------------------------------------------------------------------------
\* Used streams stay used, so what a relay may send only grows.
LEMMA SentGrows ==
  ASSUME \A s \in Streams : phase[s] # "none" => phase'[s] # "none"
  PROVE  \A a \in Relays : Sent(a) \subseteq Sent(a)'
BY DEF Sent

\* The links when a relay has taken a message of another, or none was sent.
LEMMA LinksKept ==
  ASSUME LinksOK, NEW l, l = link \/ \E a, r \in Relays :
           link[a][r] # <<>> /\ l = [link EXCEPT ![a][r] = Tail(@)]
  PROVE  /\ l \in [Relays -> [Relays -> Seq(Messages)]]
         /\ \A a, x \in Relays : l[a][x] \in Seq(Sent(a))
         /\ \A x \in Relays : l[x][x] = <<>>
<1>1. CASE l = link
  BY <1>1 DEF LinksOK
<1>2. ASSUME NEW a \in Relays, NEW r \in Relays, link[a][r] # <<>>,
             l = [link EXCEPT ![a][r] = Tail(@)]
      PROVE  /\ l \in [Relays -> [Relays -> Seq(Messages)]]
             /\ \A x, y \in Relays : l[x][y] \in Seq(Sent(x))
             /\ \A x \in Relays : l[x][x] = <<>>
  <2> DEFINE q == link[a][r]
  <2>1. Tail(q) \in Seq(Messages) /\ Tail(q) \in Seq(Sent(a))
    <3>1. q \in Seq(Messages) /\ q \in Seq(Sent(a)) /\ q # <<>>
      BY <1>2 DEF LinksOK
    <3> HIDE DEF q
    <3> QED BY <3>1, HeadTailProperties
  <2>2. l = [link EXCEPT ![a][r] = Tail(q)]
    BY <1>2
  <2>3. a # r
    BY <1>2 DEF LinksOK
  <2> HIDE DEF q
  <2> QED BY <2>1, <2>2, <2>3 DEF LinksOK
<1> QED BY <1>1, <1>2

LEMMA LinksStay ==
  ASSUME LinksOK, link' = link \/ \E a, r \in Relays :
           link[a][r] # <<>> /\ link' = [link EXCEPT ![a][r] = Tail(@)],
         \A s \in Streams : phase[s] # "none" => phase'[s] # "none"
  PROVE  LinksOK'
<1>1. /\ link' \in [Relays -> [Relays -> Seq(Messages)]]
      /\ \A a, x \in Relays : link'[a][x] \in Seq(Sent(a))
      /\ \A x \in Relays : link'[x][x] = <<>>
  BY LinksKept
<1>2. \A a \in Relays : Sent(a) \subseteq Sent(a)'
  BY SentGrows
<1>3. \A a, x \in Relays : link'[a][x] \in Seq(Sent(a)')
  BY <1>1, <1>2, SeqMonotonic
<1> QED BY <1>1, <1>3 DEF LinksOK

\* The head of a link is what the relay at its other end may send.
LEMMA HeadSent ==
  ASSUME LinksOK, NEW a \in Relays, NEW r \in Relays, link[a][r] # <<>>
  PROVE  Head(link[a][r]) \in Sent(a) /\ a # r
<1>1. link[a][r] \in Seq(Sent(a))
  BY DEF LinksOK
<1> QED BY <1>1, HeadTailProperties DEF LinksOK

\* Being told keeps the type.
LEMMA HearsType ==
  ASSUME told \in [Streams -> SUBSET Browsers], NEW s \in Streams, NEW what,
         NEW p \in Browsers
  PROVE  Hears(told, s, what, p)[s] \in SUBSET Browsers
BY DEF Hears

LEMMA ToldType ==
  ASSUME told \in [Streams -> SUBSET Browsers], NEW entries, NEW members, NEW what,
         NEW p \in Browsers
  PROVE  ToldLocally(entries, members, what, p) \in [Streams -> SUBSET Browsers]
BY HearsType DEF ToldLocally

-----------------------------------------------------------------------------
(***************************************************************************)
(* The browser's actions.                                                  *)
(***************************************************************************)
\* A step of the browsers on one stream: the tables and links are as before.
LEMMA TablesStay ==
  ASSUME TablesType, TablesOK, UNCHANGED <<reg, remote>>,
         \A s \in Streams : phase[s] # "none" => phase'[s] # "none",
         \A s \in Streams : phase[s] = "open" \/ up[s] # <<>>
                              => phase'[s] = "open" \/ up'[s] # <<>>
  PROVE  TablesType' /\ TablesOK'
<1>1. TablesType'
  BY DEF TablesType
<1>2. TablesOK'
  BY DEF TablesOK, Live
<1> QED BY <1>1, <1>2

LEMMA OpenSteps ==
  ASSUME IInv, NEW s \in Streams, Open(s)
  PROVE  IInv'
<1>1. /\ phase[s] = "none" /\ phase' = [phase EXCEPT ![s] = "open"]
      /\ up' = [up EXCEPT ![s] = <<"join">>]
      /\ opened < MaxOpened /\ opened' = opened + 1
      /\ UNCHANGED <<reg, remote, link, told, restarts>>
      /\ \A n \in 1..(s[3] - 1) : LET t == <<Owner(s), At(s), n>> IN
           phase[t] = "closed" /\ up[t] \in Rest
  BY DEF Open, Rest
<1>2. StreamsType'
  BY <1>1 DEF IInv, StreamsOK, StreamsType, Frames, Phases
<1>3. (\A t \in Streams : Shape(t))'
  BY <1>1 DEF IInv, StreamsOK, StreamsType, Shape
<1>4. InTurn'
  <2> SUFFICES ASSUME NEW x \in Streams, NEW t \in Streams, phase'[x] # "none",
                      Before(t, x)
               PROVE  phase'[t] = "closed" /\ up'[t] \in Rest
    BY DEF InTurn, Before
  <2>1. t # s
    <3> SUFFICES ASSUME t = s PROVE FALSE
      OBVIOUS
    <3>1. x # s
      BY StreamParts DEF Before
    <3>2. phase[x] # "none"
      BY <1>1, <3>1 DEF IInv, StreamsOK, StreamsType
    <3> QED BY <1>1, <3>2 DEF IInv, StreamsOK, InTurn
  <2>2. phase'[t] = phase[t] /\ up'[t] = up[t]
    BY <1>1, <2>1 DEF IInv, StreamsOK, StreamsType
  <2>3. CASE x = s
    <3>1. t[3] \in 1..(s[3] - 1) /\ t = <<Owner(s), At(s), t[3]>>
      BY <2>3, StreamParts DEF Before
    <3> QED BY <1>1, <2>2, <3>1
  <2>4. CASE x # s
    BY <1>1, <2>2, <2>4 DEF IInv, StreamsOK, StreamsType, InTurn
  <2> QED BY <2>3, <2>4
<1>5. \A t \in Streams : phase[t] # "none" => phase'[t] # "none"
  BY <1>1 DEF IInv, StreamsOK, StreamsType
<1>6. \A t \in Streams : phase[t] = "open" \/ up[t] # <<>> => phase'[t] = "open" \/ up'[t] # <<>>
  BY <1>1 DEF IInv, StreamsOK, StreamsType
<1>7. TablesType' /\ TablesOK'
  BY <1>1, <1>5, <1>6, TablesStay DEF IInv
<1>8. LinksOK'
  BY <1>1, <1>5, LinksStay DEF IInv
<1>9. CountsOK'
  BY <1>1, SignalingAssumption DEF IInv, CountsOK
<1>10. OwnRelayKeepsIt'
  BY <1>1, Distinct DEF IInv, StreamsOK, StreamsType, OwnRelayKeepsIt, Faithful
<1> QED BY <1>2, <1>3, <1>4, <1>7, <1>8, <1>9, <1>10 DEF IInv, StreamsOK

\* The browser is done with a stream: what is under way ends.
LEMMA ClosedSteps ==
  ASSUME IInv, NEW s \in Streams, phase[s] = "open", NEW f \in Done, f # <<>>,
         phase' = [phase EXCEPT ![s] = "closed"], up' = [up EXCEPT ![s] = f],
         UNCHANGED <<reg, remote, link, told, opened, restarts>>
  PROVE  IInv'
<1>1. StreamsType'
  BY DEF IInv, StreamsOK, StreamsType, Frames, Phases
<1>2. (\A t \in Streams : Shape(t))'
  BY DEF IInv, StreamsOK, StreamsType, Shape
<1>3. InTurn'
  <2> SUFFICES ASSUME NEW x \in Streams, NEW t \in Streams, phase'[x] # "none",
                      Before(t, x)
               PROVE  phase'[t] = "closed" /\ up'[t] \in Rest
    BY DEF InTurn, Before
  <2>1. phase[x] # "none"
    BY DEF IInv, StreamsOK, StreamsType
  <2>2. phase[t] = "closed" /\ up[t] \in Rest
    BY <2>1 DEF IInv, StreamsOK, InTurn
  <2>3. t # s
    BY <2>2
  <2> QED BY <2>2, <2>3 DEF IInv, StreamsOK, StreamsType
<1>4. \A t \in Streams : phase[t] # "none" => phase'[t] # "none"
  BY DEF IInv, StreamsOK, StreamsType
<1>5. \A t \in Streams : phase[t] = "open" \/ up[t] # <<>> => phase'[t] = "open" \/ up'[t] # <<>>
  BY DEF IInv, StreamsOK, StreamsType
<1>6. TablesType' /\ TablesOK'
  BY <1>4, <1>5, TablesStay DEF IInv
<1>7. LinksOK'
  BY <1>4, LinksStay DEF IInv
<1>8. CountsOK'
  BY DEF IInv, CountsOK
<1>9. OwnRelayKeepsIt'
  BY DEF IInv, StreamsOK, StreamsType, OwnRelayKeepsIt, Faithful
<1> QED BY <1>1, <1>2, <1>3, <1>6, <1>7, <1>8, <1>9 DEF IInv, StreamsOK

LEMMA LeaveSteps ==
  ASSUME IInv, NEW s \in Streams, Leave(s)
  PROVE  IInv'
<1> DEFINE f == up[s] \o <<"leave", "end">>
<1>1. /\ phase[s] = "open" /\ phase' = [phase EXCEPT ![s] = "closed"]
      /\ up' = [up EXCEPT ![s] = f]
      /\ UNCHANGED <<reg, remote, link, told, opened, restarts>>
  BY DEF Leave
<1>2. up[s] \in {<<>>, <<"join">>}
  BY <1>1 DEF IInv, StreamsOK, Shape
<1>3. f \in {<<"leave", "end">>, <<"join", "leave", "end">>}
  BY <1>2, LeaveFacts
<1> HIDE DEF f
<1>4. f \in Done /\ f # <<>>
  BY <1>3, Distinct DEF Done
<1> QED BY <1>1, <1>4, ClosedSteps

LEMMA BreakSteps ==
  ASSUME IInv, NEW s \in Streams, Break(s)
  PROVE  IInv'
<1>1. /\ phase[s] = "open" /\ phase' = [phase EXCEPT ![s] = "closed"]
      /\ UNCHANGED <<reg, remote, link, told, opened, restarts>>
  BY DEF Break
<1>2. PICK n \in 0..Len(up[s]) : up' = [up EXCEPT ![s] = Append(SubSeq(@, 1, n), "end")]
  BY DEF Break
<1> DEFINE f == Append(SubSeq(up[s], 1, n), "end")
<1>3. up' = [up EXCEPT ![s] = f]
  BY <1>2
<1>4. up[s] \in {<<>>, <<"join">>}
  BY <1>1 DEF IInv, StreamsOK, Shape
<1>5. f \in {<<"end">>, <<"join", "end">>}
  BY <1>4, BreakFacts
<1> HIDE DEF f
<1>6. f \in Done /\ f # <<>>
  BY <1>5, Distinct DEF Done
<1> QED BY <1>1, <1>3, <1>6, ClosedSteps
-----------------------------------------------------------------------------
(***************************************************************************)
(* A relay takes the next frame of a stream.                               *)
(***************************************************************************)
\* What a frame that is taken leaves under way.
LEMMA TakenFrame ==
  ASSUME IInv, NEW s \in Streams, up[s] # <<>>
  PROVE  /\ phase[s] # "none" /\ Tail(up[s]) \in Done
         /\ phase[s] = "open" => Head(up[s]) = "join" /\ Tail(up[s]) = <<>>
         /\ up[s] \in Rest => Head(up[s]) = "end" /\ Tail(up[s]) \in Rest
         /\ Head(up[s]) = "join" => phase[s] = "open" \/ Tail(up[s]) # <<>>
<1>1. Shape(s) /\ phase[s] \in Phases
  BY DEF IInv, StreamsOK, StreamsType
<1>2. CASE phase[s] = "open"
  <2>1. up[s] = <<"join">>
    BY <1>1, <1>2 DEF Shape
  <2>2. up[s] \notin Rest
    <3>1. Head(<<"join">>) # Head(<<"end">>)
      BY FrameFacts
    <3> QED BY <2>1, <3>1, Distinct DEF Rest
  <2>3. Tail(up[s]) = <<>> /\ Head(up[s]) = "join"
    BY <2>1, FrameFacts
  <2> QED BY <1>2, <2>2, <2>3 DEF Done
<1>3. CASE phase[s] = "closed"
  <2>1. up[s] \in {<<"end">>, <<"leave", "end">>, <<"join", "end">>, <<"join", "leave", "end">>}
    BY <1>1, <1>3 DEF Shape, Done
  <2>2. CASE up[s] = <<"end">>
    BY <1>3, <2>2, FrameFacts DEF Done, Rest
  <2>3. CASE up[s] = <<"leave", "end">>
    <3>1. up[s] \notin Rest
      BY <2>3, FrameFacts, Distinct DEF Rest
    <3> QED BY <1>3, <2>3, <3>1, FrameFacts DEF Done
  <2>4. CASE up[s] = <<"join", "end">>
    <3>1. up[s] \notin Rest
      BY <2>4, FrameFacts, Distinct DEF Rest
    <3> QED BY <1>3, <2>4, <3>1, FrameFacts, Distinct DEF Done
  <2>5. CASE up[s] = <<"join", "leave", "end">>
    <3>1. up[s] \notin Rest
      BY <2>5, FrameFacts, Distinct DEF Rest
    <3> QED BY <1>3, <2>5, <3>1, FrameFacts, Distinct DEF Done
  <2> QED BY <2>1, <2>2, <2>3, <2>4, <2>5
<1>4. CASE phase[s] = "none"
  BY <1>1, <1>4 DEF Shape
<1> QED BY <1>1, <1>2, <1>3, <1>4 DEF Phases

LEMMA ProcessStreams ==
  ASSUME IInv, NEW s \in Streams, up[s] # <<>>, up' = [up EXCEPT ![s] = Tail(@)],
         phase' = phase, told' \in [Streams -> SUBSET Browsers]
  PROVE  StreamsOK'
<1> DEFINE f == Tail(up[s])
<1>1. /\ phase[s] # "none" /\ f \in Done /\ (phase[s] = "open" => f = <<>>)
      /\ up[s] \in Rest => f \in Rest
  BY TakenFrame
<1>2. up' = [up EXCEPT ![s] = f]
  OBVIOUS
<1> HIDE DEF f
<1>3. StreamsType'
  BY <1>1, <1>2 DEF IInv, StreamsOK, StreamsType, Frames
<1>4. (\A t \in Streams : Shape(t))'
  BY <1>1, <1>2 DEF IInv, StreamsOK, StreamsType, Shape
<1>5. InTurn'
  BY <1>1, <1>2 DEF IInv, StreamsOK, StreamsType, InTurn, Before
<1> QED BY <1>3, <1>4, <1>5 DEF StreamsOK

\* The entry of the stream's browser at its relay is replaced or removed; the
\* others belong to other streams.
LEMMA ProcessTables ==
  ASSUME IInv, NEW s \in Streams, up[s] # <<>>, up' = [up EXCEPT ![s] = Tail(@)],
         phase' = phase, NEW e \in {None, s},
         e = s => Head(up[s]) = "join",
         reg' = [reg EXCEPT ![At(s)] = [@ EXCEPT ![Owner(s)] = e]],
         \/ remote' = [remote EXCEPT ![At(s)] = Cleared(@, Owner(s))]
         \/ e = None /\ remote' = remote
  PROVE  TablesType' /\ TablesOK'
<1> DEFINE r == At(s)
           b == Owner(s)
<1>1. r \in Relays /\ b \in Browsers /\ s \notin {None, Virtual}
  BY StreamParts
<1>2. TablesType'
  <2>1. reg[r] \in [Browsers -> Entries] /\ remote[r] \in [Browsers -> Relays \cup {None}]
    BY <1>1 DEF IInv, TablesType
  <2>2. e \in Entries
    BY DEF Entries
  <2>3. [reg[r] EXCEPT ![b] = e] \in [Browsers -> Entries]
    BY <2>1, <2>2
  <2>4. Cleared(remote[r], b) \in [Browsers -> Relays \cup {None}]
    BY <2>1 DEF Cleared
  <2>5. reg' \in [Relays -> [Browsers -> Entries]]
    BY <2>3 DEF IInv, TablesType
  <2>6. remote' \in [Relays -> [Browsers -> Relays \cup {None}]]
    BY <2>4 DEF IInv, TablesType
  <2> QED BY <2>5, <2>6 DEF TablesType
<1>3. ASSUME NEW x \in Relays, NEW c \in Browsers, ~ (x = r /\ c = b)
      PROVE  /\ reg'[x][c] = reg[x][c] /\ remote'[x][c] = remote[x][c]
             /\ reg[x][c] \in Streams => reg[x][c] # s
  BY <1>1, <1>3 DEF IInv, TablesType, TablesOK, Live, Cleared
<1>4. reg'[r][b] = e /\ (e = s => remote'[r][b] = None)
  BY <1>1 DEF IInv, TablesType, Cleared
<1>5. e = s => Live(s, r, b)'
  BY TakenFrame DEF Live, IInv, StreamsOK, StreamsType
<1>6. TablesOK'
  <2> SUFFICES ASSUME NEW x \in Relays, NEW c \in Browsers
               PROVE  /\ reg'[x][c] \in Streams => remote'[x][c] = None /\ Live(reg[x][c], x, c)'
                      /\ reg'[x][c] = Virtual => remote'[x][c] \in Relays \ {x}
    BY DEF TablesOK
  <2>1. CASE x = r /\ c = b
    BY <1>1, <1>4, <1>5, <2>1, SignalingAssumption, EntriesAssumption
  <2>2. CASE ~ (x = r /\ c = b)
    <3>1. /\ reg'[x][c] = reg[x][c] /\ remote'[x][c] = remote[x][c]
          /\ reg[x][c] \in Streams => reg[x][c] # s
      BY <1>3, <2>2
    <3>2. reg[x][c] \in Streams => Live(reg[x][c], x, c)'
      BY <3>1 DEF IInv, TablesOK, Live, StreamsOK, StreamsType
    <3> QED BY <3>1, <3>2 DEF IInv, TablesOK
  <2> QED BY <2>1, <2>2
<1> QED BY <1>2, <1>6

\* OwnRelayKeepsIt when a frame is taken: the older streams of a faithful peer have
\* nothing but their end under way, and their end removes no other stream's entry.
LEMMA ProcessFaithful ==
  ASSUME IInv, NEW s \in Streams, up[s] # <<>>, up' = [up EXCEPT ![s] = Tail(@)],
         phase' = phase,
         \A x \in Relays, c \in Browsers :
           ~ (x = At(s) /\ c = Owner(s)) => reg'[x][c] = reg[x][c],
         Head(up[s]) = "join" => reg'[At(s)][Owner(s)] = s,
         Head(up[s]) = "end" /\ reg[At(s)][Owner(s)] # s
           => reg'[At(s)][Owner(s)] = reg[At(s)][Owner(s)]
  PROVE  OwnRelayKeepsIt'
<1> SUFFICES ASSUME NEW b \in Browsers, NEW t \in Streams, Faithful(b, t)'
             PROVE  reg'[At(t)][b] = t
  BY DEF OwnRelayKeepsIt
<1>1. /\ Owner(t) = b /\ phase[t] = "open" /\ up'[t] = <<>>
      /\ \A x \in Streams : Owner(x) = b /\ phase[x] # "none" => At(x) = At(t)
  BY DEF Faithful
<1>2. CASE t = s
  BY <1>1, <1>2, TakenFrame
<1>3. CASE t # s
  <2>1. Faithful(b, t)
    BY <1>1, <1>3 DEF Faithful, IInv, StreamsOK, StreamsType
  <2>2. reg[At(t)][b] = t /\ At(t) \in Relays
    BY <2>1, StreamParts DEF IInv, OwnRelayKeepsIt
  <2>3. CASE ~ (At(t) = At(s) /\ b = Owner(s))
    BY <2>2, <2>3
  <2>4. CASE At(t) = At(s) /\ b = Owner(s)
    <3>1. phase[s] # "none"
      BY TakenFrame
    <3>2. s[3] # t[3] /\ s[3] \in Int /\ t[3] \in Int
      BY <1>1, <1>3, <2>4, StreamParts
    <3>3. ~ Before(t, s)
      BY <1>1, <3>1 DEF IInv, StreamsOK, InTurn
    <3>4. Before(s, t)
      BY <1>1, <2>4, <3>2, <3>3 DEF Before
    <3>5. up[s] \in Rest
      BY <1>1, <3>4 DEF IInv, StreamsOK, InTurn
    <3>6. Head(up[s]) = "end"
      BY <3>5, TakenFrame
    <3> QED BY <1>3, <2>2, <2>4, <3>6
  <2> QED BY <2>3, <2>4
<1> QED BY <1>2, <1>3

LEMMA ProcessSteps ==
  ASSUME IInv, NEW s \in Streams, Process(s)
  PROVE  IInv'
<1> DEFINE r == At(s)
           b == Owner(s)
<1>0. r \in Relays /\ b \in Browsers /\ Members(r) \subseteq Browsers
  BY StreamParts DEF Members
<1>1. /\ up[s] # <<>> /\ up' = [up EXCEPT ![s] = Tail(@)]
      /\ UNCHANGED <<phase, opened, restarts>>
  BY DEF Process
<1>2. told \in [Streams -> SUBSET Browsers] /\ phase[s] # "none"
  BY <1>1, TakenFrame DEF IInv, StreamsOK, StreamsType
<1>3. \A a \in Relays : Sent(a) \subseteq Sent(a)'
  BY <1>1, SentGrows
<1>4. CountsOK'
  BY <1>1 DEF IInv, CountsOK
<1>5. /\ link \in [Relays -> [Relays -> Seq(Messages)]]
      /\ \A a, x \in Relays : link[a][x] \in Seq(Sent(a))
      /\ \A x \in Relays : link[x][x] = <<>>
  BY DEF IInv, LinksOK
<1>6. CASE Head(up[s]) = "join" /\ OnJoin(s)
  <2> DEFINE msgs == Append(Relayed(reg[r], Members(r), "joined", b), Join(r, b))
  <2>1. /\ told' = [ToldLocally(reg[r], Members(r), "joined", b) EXCEPT ![s] = Members(r)]
        /\ link' = Published(link, r, msgs)
        /\ reg' = [reg EXCEPT ![r] = [@ EXCEPT ![b] = s]]
        /\ remote' = [remote EXCEPT ![r] = Cleared(@, b)]
    BY <1>6 DEF OnJoin
  <2>2. StreamsOK'
    <3>1. told' \in [Streams -> SUBSET Browsers]
      BY <1>0, <1>2, <2>1, ToldType
    <3> QED BY <1>1, <3>1, ProcessStreams
  <2>3. TablesType' /\ TablesOK'
    BY <1>1, <1>6, <2>1, ProcessTables
  <2>4. msgs \in Seq(Sent(r))
    <3>1. Join(r, b) \in Sent(r)
      BY <1>0, <1>2, MessageTypes
    <3>2. Relayed(reg[r], Members(r), "joined", b) \in Seq(Sent(r))
      BY <1>0, RelayedType
    <3> QED BY <3>1, <3>2, AppendProperties
  <2>5. LinksOK'
    <3> HIDE DEF msgs, r
    <3> QED BY <1>0, <1>3, <1>5, <2>1, <2>4, PublishedKeeps
  <2>6. OwnRelayKeepsIt'
    <3>1. /\ reg'[r][b] = s
          /\ \A x \in Relays, c \in Browsers : ~ (x = r /\ c = b) => reg'[x][c] = reg[x][c]
      BY <1>0, <2>1 DEF IInv, TablesType
    <3> QED BY <1>1, <1>6, <3>1, ProcessFaithful
  <2> QED BY <1>4, <2>2, <2>3, <2>5, <2>6 DEF IInv
<1>7. ASSUME Departed(r, b, [reg[r] EXCEPT ![b] = None]),
             Head(up[s]) = "leave" \/ (Head(up[s]) = "end" /\ reg[r][b] = s)
      PROVE  IInv'
  <2> DEFINE entries == [reg[r] EXCEPT ![b] = None]
             rest == {m \in Browsers : entries[m] # None}
             msgs == <<Gone(r, b)>> \o Relayed(entries, rest, "left", b)
  <2>1. /\ reg' = [reg EXCEPT ![r] = entries]
        /\ told' = ToldLocally(entries, rest, "left", b)
        /\ link' = Published(link, r, msgs)
        /\ remote' = remote
    BY <1>7 DEF Departed
  <2>2. StreamsOK'
    <3>1. told' \in [Streams -> SUBSET Browsers]
      BY <1>0, <1>2, <2>1, ToldType
    <3> QED BY <1>1, <3>1, ProcessStreams
  <2>3. TablesType' /\ TablesOK'
    <3>1. reg' = [reg EXCEPT ![r] = [@ EXCEPT ![b] = None]]
      BY <2>1
    <3> QED BY <1>1, <2>1, <3>1, ProcessTables, EntriesAssumption
  <2>4. msgs \in Seq(Sent(r))
    <3>1. <<Gone(r, b)>> \in Seq(Sent(r))
      BY <1>0, MessageTypes
    <3>2. Relayed(entries, rest, "left", b) \in Seq(Sent(r))
      <4> HIDE DEF entries
      <4> QED BY <1>0, RelayedType
    <3> QED BY <3>1, <3>2, ConcatProperties
  <2>5. LinksOK'
    <3> HIDE DEF msgs, r
    <3> QED BY <1>0, <1>3, <1>5, <2>1, <2>4, PublishedKeeps
  <2>6. OwnRelayKeepsIt'
    <3>1. \A x \in Relays, c \in Browsers : ~ (x = r /\ c = b) => reg'[x][c] = reg[x][c]
      BY <1>0, <2>1 DEF IInv, TablesType
    <3> QED BY <1>1, <1>7, <3>1, ProcessFaithful
  <2> QED BY <1>4, <2>2, <2>3, <2>5, <2>6 DEF IInv
<1>8. CASE Head(up[s]) = "end" /\ reg[r][b] # s /\ UNCHANGED <<reg, told, link, remote>>
  <2>1. StreamsOK'
    BY <1>1, <1>2, <1>8, ProcessStreams
  <2>2. TablesType' /\ TablesOK'
    <3>1. TablesType'
      BY <1>8 DEF IInv, TablesType
    <3>2. ASSUME NEW x \in Relays, NEW c \in Browsers, reg[x][c] \in Streams
          PROVE  Live(reg[x][c], x, c)'
      <4>1. reg[x][c] # s
        BY <1>8, <3>2 DEF IInv, TablesOK, Live
      <4> QED BY <1>1, <1>8, <3>2, <4>1 DEF IInv, TablesOK, Live, StreamsOK, StreamsType
    <3> QED BY <1>8, <3>1, <3>2 DEF IInv, TablesOK
  <2>3. LinksOK'
    BY <1>1, <1>8, LinksStay DEF IInv
  <2>4. OwnRelayKeepsIt'
    BY <1>1, <1>8, ProcessFaithful
  <2> QED BY <1>4, <2>1, <2>2, <2>3, <2>4 DEF IInv
<1>9. CASE Head(up[s]) = "join" /\ OnJoin(s)
  BY <1>6, <1>9
<1>10. CASE Head(up[s]) = "leave" /\ OnLeave(s)
  <2>1. Departed(r, b, [reg[r] EXCEPT ![b] = None])
    BY <1>10 DEF OnLeave
  <2>2. Head(up[s]) = "leave" \/ (Head(up[s]) = "end" /\ reg[r][b] = s)
    BY <1>10
  <2> QED BY <1>7, <2>1, <2>2, Zenon
<1>11. CASE Head(up[s]) = "end" /\ OnEnd(s)
  <2>1. CASE reg[r][b] = s
    BY <1>7, <1>11, <2>1 DEF OnEnd
  <2>2. CASE reg[r][b] # s
    BY <1>8, <1>11, <2>2 DEF OnEnd
  <2> QED BY <2>1, <2>2
<1> QED BY <1>9, <1>10, <1>11 DEF Process
-----------------------------------------------------------------------------
(***************************************************************************)
(* A relay takes the next message of another relay, or restarts.           *)
(***************************************************************************)
\* The tables after a message of relay a about peer b has set relay r's entries.
LEMMA GossipTables ==
  ASSUME IInv, NEW a \in Relays, NEW r \in Relays, a # r, NEW b \in Browsers,
         UNCHANGED <<up, phase>>,
         \/ /\ reg' = [reg EXCEPT ![r][b] = Virtual]
            /\ remote' = [remote EXCEPT ![r] = [remote[r] EXCEPT ![b] = a]]
         \/ /\ reg' = [reg EXCEPT ![r] = [reg[r] EXCEPT ![b] = None]]
            /\ remote' = [remote EXCEPT ![r] = Disowned(remote[r], b)]
  PROVE  TablesType' /\ TablesOK'
<1>1. PICK e \in {Virtual, None}, o \in {a, None} :
        /\ reg' = [reg EXCEPT ![r] = [reg[r] EXCEPT ![b] = e]]
        /\ remote' = [remote EXCEPT ![r] = [remote[r] EXCEPT ![b] = o]]
        /\ e = Virtual => o = a
  BY SignalingAssumption DEF Disowned
<1>2. reg[r] \in [Browsers -> Entries] /\ remote[r] \in [Browsers -> Relays \cup {None}]
  BY DEF IInv, TablesType
<1>3. TablesType'
  <2>1. [reg[r] EXCEPT ![b] = e] \in [Browsers -> Entries]
    BY <1>2 DEF Entries
  <2>2. [remote[r] EXCEPT ![b] = o] \in [Browsers -> Relays \cup {None}]
    BY <1>2
  <2> QED BY <1>1, <2>1, <2>2 DEF IInv, TablesType
<1>4. e \notin Streams
  BY EntriesAssumption
<1>5. \A x \in Relays, c \in Browsers :
        /\ reg'[x][c] = IF x = r /\ c = b THEN e ELSE reg[x][c]
        /\ remote'[x][c] = IF x = r /\ c = b THEN o ELSE remote[x][c]
  BY <1>1 DEF IInv, TablesType
<1>6. TablesOK'
  <2> SUFFICES ASSUME NEW x \in Relays, NEW c \in Browsers
               PROVE  /\ reg'[x][c] \in Streams => remote'[x][c] = None /\ Live(reg[x][c], x, c)'
                      /\ reg'[x][c] = Virtual => remote'[x][c] \in Relays \ {x}
    BY DEF TablesOK
  <2>1. CASE x = r /\ c = b
    BY <1>1, <1>4, <1>5, <2>1
  <2>2. CASE ~ (x = r /\ c = b)
    BY <1>5, <2>2 DEF IInv, TablesOK, Live
  <2> QED BY <2>1, <2>2
<1> QED BY <1>3, <1>6

\* A message about peer b that changes the entry of b at r leaves a faithful peer's
\* alone: another relay announces only who used it, and takes back only its own.
LEMMA GossipFaithful ==
  ASSUME IInv, NEW r \in Relays, NEW b \in Browsers, UNCHANGED <<up, phase>>,
         \A x \in Relays, c \in Browsers : ~ (x = r /\ c = b) => reg'[x][c] = reg[x][c],
         \/ reg[r][b] \notin Streams
         \/ \E t \in Streams : Owner(t) = b /\ At(t) # r /\ phase[t] # "none"
  PROVE  OwnRelayKeepsIt'
<1> SUFFICES ASSUME NEW c \in Browsers, NEW s \in Streams, Faithful(c, s)'
             PROVE  reg'[At(s)][c] = s
  BY DEF OwnRelayKeepsIt
<1>1. Faithful(c, s)
  BY DEF Faithful
<1>2. reg[At(s)][c] = s /\ At(s) \in Relays
  BY <1>1, StreamParts DEF IInv, OwnRelayKeepsIt
<1>3. ~ (At(s) = r /\ c = b)
  BY <1>1, <1>2 DEF Faithful
<1> QED BY <1>2, <1>3

LEMMA GossipSteps ==
  ASSUME IInv, NEW a \in Relays, NEW r \in Relays, Gossip(a, r)
  PROVE  IInv'
<1> DEFINE msg == Head(link[a][r])
           taken == [link EXCEPT ![a][r] = Tail(@)]
<1>1. link[a][r] # <<>> /\ UNCHANGED <<up, phase, opened, restarts>>
  BY DEF Gossip
<1>2. msg \in Sent(a) /\ a # r
  BY <1>1, HeadSent DEF IInv
<1>3. /\ taken \in [Relays -> [Relays -> Seq(Messages)]]
      /\ \A y, x \in Relays : taken[y][x] \in Seq(Sent(y))
      /\ \A x \in Relays : taken[x][x] = <<>>
  BY <1>1, LinksKept DEF IInv
<1>4. \A y \in Relays : Sent(y) \subseteq Sent(y)'
  BY <1>1, SentGrows
<1>5. told' \in [Streams -> SUBSET Browsers] => StreamsOK'
  BY <1>1 DEF IInv, StreamsOK, StreamsType, Shape, InTurn
<1>6. told \in [Streams -> SUBSET Browsers]
  BY DEF IInv, StreamsOK, StreamsType
<1>7. CountsOK'
  BY <1>1 DEF IInv, CountsOK
<1>8. link' = taken => LinksOK'
  BY <1>1, LinksStay DEF IInv
<1>9. ASSUME UNCHANGED <<reg, remote>>
      PROVE  TablesType' /\ TablesOK' /\ OwnRelayKeepsIt'
  <2>1. TablesType' /\ TablesOK'
    BY <1>1, <1>9, TablesStay DEF IInv
  <2>2. OwnRelayKeepsIt'
    BY <1>1, <1>9 DEF IInv, OwnRelayKeepsIt, Faithful
  <2> QED BY <2>1, <2>2
<1> HIDE DEF msg, taken
<1>10. CASE msg.type = "join" /\ RemoteJoin(a, r, msg)
  <2> DEFINE b == msg.peer
             known == [remote[r] EXCEPT ![b] = msg.owner]
             locals == Locals(r, known)
  <2>1. b \in Browsers /\ msg.owner = a
        /\ \E t \in Streams : Owner(t) = b /\ At(t) = a /\ phase[t] # "none"
    BY <1>2, <1>10 DEF Sent, Messages
  <2>2. CASE remote[r][b] = msg.owner
    <3>1. link' = taken /\ UNCHANGED <<reg, remote, told>>
      BY <1>10, <2>2 DEF RemoteJoin, taken
    <3> QED BY <3>1, <1>5, <1>6, <1>7, <1>8, <1>9 DEF IInv
  <2>3. CASE remote[r][b] # msg.owner
    <3>1. /\ remote' = [remote EXCEPT ![r] = known]
          /\ reg' = [reg EXCEPT ![r][b] = Virtual]
          /\ told' = ToldLocally(reg[r], locals, "joined", b)
          /\ link' = Published(taken, r, Announced(r, locals))
      BY <1>10, <2>3 DEF RemoteJoin, taken
    <3>2. StreamsOK'
      BY <1>5, <1>6, <2>1, <3>1, ToldType
    <3>3. TablesType' /\ TablesOK'
      BY <1>1, <1>2, <2>1, <3>1, GossipTables
    <3>4. OwnRelayKeepsIt'
      <4>1. \A x \in Relays, c \in Browsers : ~ (x = r /\ c = b) => reg'[x][c] = reg[x][c]
        BY <3>1 DEF IInv, TablesType
      <4>2. \E t \in Streams : Owner(t) = b /\ At(t) # r /\ phase[t] # "none"
        BY <1>2, <2>1
      <4> HIDE DEF b
      <4> QED BY <1>1, <2>1, <4>1, <4>2, GossipFaithful
    <3>5. locals \subseteq Browsers /\ \A c \in locals : Join(r, c) \in Sent(r)
      <4>1. locals \subseteq Browsers
        BY DEF Locals, Members
      <4> SUFFICES ASSUME NEW c \in locals PROVE Join(r, c) \in Sent(r)
        BY <4>1
      <4>2. reg[r][c] # None /\ known[c] = None /\ c \in Browsers
        BY DEF Locals, Members
      <4>3. remote[r][c] = None
        BY <2>1, <4>2, SignalingAssumption DEF IInv, TablesType
      <4>4. reg[r][c] \in Streams
        BY <4>2, <4>3, SignalingAssumption DEF IInv, TablesType, TablesOK, Entries
      <4>5. Live(reg[r][c], r, c)
        BY <4>2, <4>4 DEF IInv, TablesOK
      <4> QED BY <4>2, <4>4, <4>5, MessageTypes DEF Live
    <3>6. Announced(r, locals) \in Seq(Sent(r))
      <4> DEFINE T == {Join(r, c) : c \in locals}
      <4> HIDE DEF locals
      <4>1. IsFiniteSet(T) /\ T \subseteq Sent(r)
        BY <3>5, JoinsFinite
      <4>2. Announced(r, locals) = SetToSeq(T)
        BY DEF Announced
      <4> HIDE DEF T
      <4>3. SetToSeq(T) \in Seq(T)
        BY <4>1, SetToSeqType
      <4>4. SetToSeq(T) \in Seq(Sent(r))
        BY <4>1, <4>3, SeqMonotonic
      <4> QED BY <4>2, <4>4
    <3>7. LinksOK'
      <4> DEFINE msgs == Announced(r, locals)
      <4>1. msgs \in Seq(Sent(r)) /\ link' = Published(taken, r, msgs)
        BY <3>1, <3>6
      <4> HIDE DEF msgs
      <4> QED BY <1>3, <1>4, <4>1, PublishedKeeps
    <3> QED BY <1>7, <3>2, <3>3, <3>4, <3>7 DEF IInv
  <2> QED BY <2>2, <2>3
<1>11. CASE msg.type = "leave" /\ RemoteLeave(a, r, msg)
  <2> DEFINE b == msg.peer
             known == Disowned(remote[r], b)
             entries == [reg[r] EXCEPT ![b] = None]
             rest == {m \in Browsers : entries[m] # None /\ known[m] = None}
  <2>1. b \in Browsers /\ msg.owner = a
    BY <1>2, <1>11 DEF Sent, Messages
  <2>2. link' = taken
    BY <1>11 DEF RemoteLeave, taken
  <2>3. CASE remote[r][b] # msg.owner
    <3>1. UNCHANGED <<reg, remote, told>>
      BY <1>11, <2>3 DEF RemoteLeave
    <3> QED BY <3>1, <1>5, <1>6, <1>7, <1>8, <1>9, <2>2 DEF IInv
  <2>4. CASE remote[r][b] = msg.owner
    <3>1. /\ remote' = [remote EXCEPT ![r] = known]
          /\ reg' = [reg EXCEPT ![r] = entries]
          /\ told' = ToldLocally(entries, rest, "left", b)
      BY <1>11, <2>4 DEF RemoteLeave
    <3>2. StreamsOK'
      BY <1>5, <1>6, <2>1, <3>1, ToldType
    <3>3. TablesType' /\ TablesOK'
      BY <1>1, <1>2, <2>1, <3>1, GossipTables
    <3>4. OwnRelayKeepsIt'
      <4>1. \A x \in Relays, c \in Browsers : ~ (x = r /\ c = b) => reg'[x][c] = reg[x][c]
        BY <3>1 DEF IInv, TablesType
      <4>2. reg[r][b] \notin Streams
        BY <2>1, <2>4, SignalingAssumption DEF IInv, TablesOK
      <4> HIDE DEF b
      <4> QED BY <1>1, <2>1, <4>1, <4>2, GossipFaithful
    <3> QED BY <1>7, <1>8, <2>2, <3>2, <3>3, <3>4 DEF IInv
  <2> QED BY <2>3, <2>4
<1>12. CASE msg.type = "signal" /\ RemoteSignal(a, r, msg)
  <2>1. msg.peer \in Browsers
    BY <1>2, <1>12 DEF Sent, Messages
  <2>2. link' = taken /\ UNCHANGED <<reg, remote>>
    BY <1>12 DEF RemoteSignal, taken
  <2>3. told' \in [Streams -> SUBSET Browsers]
    <3>1. told' = [s \in Streams |->
                     IF s \in LocalTarget(r, msg.target)
                       THEN Hears(told, s, msg.what, msg.peer)[s] ELSE told[s]]
      BY <1>12 DEF RemoteSignal
    <3> QED BY <1>6, <2>1, <3>1, HearsType
  <2> QED BY <1>5, <1>7, <1>8, <1>9, <2>2, <2>3 DEF IInv
<1> QED BY <1>10, <1>11, <1>12 DEF Gossip, msg
LEMMA RestartSteps ==
  ASSUME IInv, NEW r \in Relays, Restart(r)
  PROVE  IInv'
<1>1. /\ restarts < MaxRestarts /\ restarts' = restarts + 1
      /\ reg' = [reg EXCEPT ![r] = [b \in Browsers |-> None]]
      /\ remote' = [remote EXCEPT ![r] = [b \in Browsers |-> None]]
      /\ link' = [a \in Relays |-> [x \in Relays |-> IF r \in {a, x} THEN <<>> ELSE link[a][x]]]
      /\ phase' = [s \in Streams |-> IF At(s) = r /\ phase[s] = "open" THEN "closed" ELSE phase[s]]
      /\ up' = [s \in Streams |-> IF At(s) = r THEN <<>> ELSE up[s]]
      /\ UNCHANGED <<told, opened>>
  BY DEF Restart
<1>2. StreamsType'
  BY <1>1 DEF IInv, StreamsOK, StreamsType, Phases, Frames, Done
<1>3. (\A s \in Streams : Shape(s))'
  BY <1>1 DEF IInv, StreamsOK, StreamsType, Phases, Shape, Done
<1>4. InTurn'
  BY <1>1 DEF IInv, StreamsOK, StreamsType, InTurn, Before, Rest
<1>5. \A s \in Streams : phase[s] # "none" => phase'[s] # "none"
  BY <1>1
<1>6. TablesType'
  <2>1. [b \in Browsers |-> None] \in [Browsers -> Entries]
    BY DEF Entries
  <2>2. reg' \in [Relays -> [Browsers -> Entries]]
    BY <1>1, <2>1 DEF IInv, TablesType
  <2>3. remote' \in [Relays -> [Browsers -> Relays \cup {None}]]
    BY <1>1 DEF IInv, TablesType
  <2> QED BY <2>2, <2>3 DEF TablesType
<1>7. \A x \in Relays, b \in Browsers :
        /\ reg'[x][b] = IF x = r THEN None ELSE reg[x][b]
        /\ remote'[x][b] = IF x = r THEN None ELSE remote[x][b]
  BY <1>1 DEF IInv, TablesType
<1>8. TablesOK'
  <2> SUFFICES ASSUME NEW x \in Relays, NEW b \in Browsers
               PROVE  /\ reg'[x][b] \in Streams => remote'[x][b] = None /\ Live(reg[x][b], x, b)'
                      /\ reg'[x][b] = Virtual => remote'[x][b] \in Relays \ {x}
    BY <1>7, EntriesAssumption DEF TablesOK
  <2>1. CASE x = r
    BY <1>7, <2>1, SignalingAssumption, EntriesAssumption
  <2>2. CASE x # r
    BY <1>1, <1>7, <2>2 DEF IInv, TablesOK, Live
  <2> QED BY <2>1, <2>2
<1>9. LinksOK'
  <2>1. \A a, x \in Relays : link'[a][x] = IF r \in {a, x} THEN <<>> ELSE link[a][x]
    BY <1>1
  <2>2. \A a, x \in Relays : link'[a][x] \in Seq(Sent(a)) /\ link'[a][x] \in Seq(Messages)
    <3> SUFFICES ASSUME NEW a \in Relays, NEW x \in Relays
                 PROVE  link'[a][x] \in Seq(Sent(a)) /\ link'[a][x] \in Seq(Messages)
      OBVIOUS
    <3>1. link[a][x] \in Seq(Sent(a)) /\ link[a][x] \in Seq(Messages)
      BY DEF IInv, LinksOK
    <3>2. <<>> \in Seq(Sent(a)) /\ <<>> \in Seq(Messages)
      OBVIOUS
    <3>3. link'[a][x] = <<>> \/ link'[a][x] = link[a][x]
      BY <2>1
    <3> QED BY <3>1, <3>2, <3>3
  <2>3. \A a \in Relays : Sent(a) \subseteq Sent(a)'
    BY <1>5, SentGrows
  <2>4. \A a, x \in Relays : link'[a][x] \in Seq(Sent(a)')
    BY <2>2, <2>3, SeqMonotonic
  <2>5. link' \in [Relays -> [Relays -> Seq(Messages)]]
    BY <1>1, <2>1, <2>2
  <2>6. \A x \in Relays : link'[x][x] = <<>>
    BY <2>1 DEF IInv, LinksOK
  <2> QED BY <2>4, <2>5, <2>6 DEF LinksOK
<1>10. CountsOK'
  BY <1>1, SignalingAssumption DEF IInv, CountsOK
<1>11. OwnRelayKeepsIt'
  <2> SUFFICES ASSUME NEW b \in Browsers, NEW s \in Streams, Faithful(b, s)'
               PROVE  reg'[At(s)][b] = s
    BY DEF OwnRelayKeepsIt
  <2>1. At(s) # r /\ phase[s] = "open" /\ up[s] = <<>> /\ Owner(s) = b
    BY <1>1 DEF Faithful
  <2>2. Faithful(b, s)
    BY <1>5, <2>1 DEF Faithful
  <2> QED BY <1>7, <2>1, <2>2, StreamParts DEF IInv, OwnRelayKeepsIt
<1> QED BY <1>2, <1>3, <1>4, <1>6, <1>8, <1>9, <1>10, <1>11 DEF IInv, StreamsOK

-----------------------------------------------------------------------------
LEMMA InitIInv == Init => IInv
<1> SUFFICES ASSUME Init PROVE IInv
  OBVIOUS
<1>1. StreamsOK
  BY DEF Init, StreamsOK, StreamsType, Frames, Done, Phases, Shape, InTurn
<1>2. TablesType /\ TablesOK
  BY SignalingAssumption, EntriesAssumption DEF Init, TablesType, TablesOK, Entries
<1>3. LinksOK
  BY DEF Init, LinksOK
<1>4. CountsOK
  BY SignalingAssumption DEF Init, CountsOK
<1>5. OwnRelayKeepsIt
  BY DEF Init, OwnRelayKeepsIt, Faithful
<1> QED BY <1>1, <1>2, <1>3, <1>4, <1>5 DEF IInv

LEMMA StutterIInv == IInv /\ UNCHANGED vars => IInv'
<1> SUFFICES ASSUME IInv, UNCHANGED <<up, phase, reg, remote, link, told, opened, restarts>>
             PROVE  IInv'
  BY DEF vars
<1>1. StreamsOK'
  BY DEF IInv, StreamsOK, StreamsType, Shape, InTurn
<1>2. TablesType' /\ TablesOK'
  BY TablesStay DEF IInv
<1>3. LinksOK'
  BY LinksStay DEF IInv
<1>4. CountsOK' /\ OwnRelayKeepsIt'
  BY DEF IInv, CountsOK, OwnRelayKeepsIt, Faithful
<1> QED BY <1>1, <1>2, <1>3, <1>4 DEF IInv

LEMMA NextIInv == IInv /\ [Next]_vars => IInv'
<1> SUFFICES ASSUME IInv, Next PROVE IInv'
  BY StutterIInv
<1>1. ASSUME NEW s \in Streams, Open(s) \/ Leave(s) \/ Break(s) \/ Process(s) PROVE IInv'
  BY <1>1, OpenSteps, LeaveSteps, BreakSteps, ProcessSteps
<1>2. ASSUME NEW a \in Relays, NEW r \in Relays, Gossip(a, r) PROVE IInv'
  BY <1>2, GossipSteps
<1>3. ASSUME NEW r \in Relays, Restart(r) PROVE IInv'
  BY <1>3, RestartSteps
<1> QED BY <1>1, <1>2, <1>3 DEF Next

LEMMA Invariance == Spec => []IInv
BY InitIInv, NextIInv, PTL DEF Spec

\* The streams, the registries, the remote peers and the messages have their types.
THEOREM TypeCorrect == Spec => []TypeOK
<1>1. IInv => TypeOK
  <2> SUFFICES ASSUME IInv PROVE TypeOK
    OBVIOUS
  <2>1. up \in [Streams -> Seq({"join", "leave", "end"})]
    BY FramesAreSequences DEF IInv, StreamsOK, StreamsType
  <2> QED BY <2>1 DEF IInv, StreamsOK, StreamsType, TablesType, LinksOK, CountsOK,
                       TypeOK, Entries, Phases
<1> QED BY <1>1, Invariance, PTL

\* What a relay holds for a peer agrees with whom it believes to own it, for every
\* order in which joins, departures, restarts and gossip are taken.
THEOREM TablesCorrect == Spec => []TablesAgree
<1>1. IInv => TablesAgree
  BY DEF IInv, TablesOK, TablesAgree
<1> QED BY <1>1, Invariance, PTL

\* No entry outlives the end of its stream.
THEOREM RegisteredCorrect == Spec => []RegisteredIsLive
<1>1. IInv => RegisteredIsLive
  BY DEF IInv, TablesOK, Live, RegisteredIsLive
<1> QED BY <1>1, Invariance, PTL

\* A peer that uses one relay stays registered there on its current stream, though
\* its older streams end late and other relays gossip.
THEOREM OwnRelayCorrect == Spec => []OwnRelayKeepsIt
<1>1. IInv => OwnRelayKeepsIt
  BY DEF IInv
<1> QED BY <1>1, Invariance, PTL
-----------------------------------------------------------------------------
(***************************************************************************)
(* Peers that use one relay: what the other relays know of them.           *)
(***************************************************************************)
\* Queues of messages, between two relays.
NotAbout(q, b) == \A i \in 1..Len(q) : q[i].peer # b
Has(q, m)      == \E i \in 1..Len(q) : q[i] = m
Never(q, n, m) == \A i \in 1..Len(q) : i > n => q[i] # m
Coming(q, m, g) == \E i \in 1..Len(q) : q[i] = m /\ Never(q, i, g)

\* A peer is known, or will be by the last message about it.
Knows(known, q, m, g) == (known /\ Never(q, 0, g)) \/ Coming(q, m, g)

\* The signals that a peer left.
Lefts(b) == {m \in Messages : m.type = "signal" /\ m.what = "left" /\ m.peer = b}

\* Such a signal follows the message that takes the peer back.
Swept(known, q, b, g) ==
  \A i \in 1..Len(q) : q[i] \in Lefts(b) =>
    IF i = 1 THEN ~ known ELSE q[i - 1] \in Lefts(b) \cup {g}

LEMMA Appended ==
  ASSUME NEW q \in Seq(Messages), NEW p \in Seq(Messages)
  PROVE  /\ q \o p \in Seq(Messages) /\ Len(q) \in Nat /\ Len(p) \in Nat
         /\ Len(q \o p) = Len(q) + Len(p)
         /\ \A i \in 1..Len(q) : (q \o p)[i] = q[i]
         /\ \A i \in 1..Len(p) : (q \o p)[Len(q) + i] = p[i]
         /\ \A i \in 1..Len(q \o p) : i > Len(q) =>
              i - Len(q) \in 1..Len(p) /\ (q \o p)[i] = p[i - Len(q)]
<1>1. /\ q \o p \in Seq(Messages) /\ Len(q \o p) = Len(q) + Len(p)
      /\ \A i \in 1..(Len(q) + Len(p)) :
             (q \o p)[i] = IF i <= Len(q) THEN q[i] ELSE p[i - Len(q)]
  BY ConcatProperties, Zenon
<1>2. Len(q) \in Nat /\ Len(p) \in Nat
  BY LenProperties
<1> DEFINE m == Len(q)  n == Len(p)  f == q \o p
<1> HIDE DEF m, n, f
<1> QED BY <1>1, <1>2 DEF m, n, f

LEMMA Shortened ==
  ASSUME NEW q \in Seq(Messages), q # <<>>
  PROVE  /\ Tail(q) \in Seq(Messages) /\ Len(q) \in Nat \ {0}
         /\ Len(Tail(q)) = Len(q) - 1 /\ Head(q) = q[1]
         /\ \A i \in 1..Len(Tail(q)) : i + 1 \in 1..Len(q) /\ Tail(q)[i] = q[i + 1]
         /\ \A i \in 1..Len(q) : i # 1 => i - 1 \in 1..Len(Tail(q)) /\ q[i] = Tail(q)[i - 1]
<1>1. /\ Tail(q) \in Seq(Messages) /\ Len(Tail(q)) = Len(q) - 1
      /\ \A i \in 1..Len(Tail(q)) : Tail(q)[i] = q[i + 1]
  BY HeadTailProperties
<1>2. Len(q) \in Nat /\ Len(q) # 0
  BY LenProperties, EmptySeq
<1>3. Head(q) = q[1]
  OBVIOUS
<1> DEFINE n == Len(q)  t == Tail(q)
<1> HIDE DEF n, t
<1> QED BY <1>1, <1>2, <1>3 DEF n, t

LEMMA NotAboutAppended ==
  ASSUME NEW q \in Seq(Messages), NEW p \in Seq(Messages), NEW b,
         NotAbout(q, b), NotAbout(p, b)
  PROVE  NotAbout(q \o p, b)
<1> SUFFICES ASSUME NEW i \in 1..Len(q \o p) PROVE (q \o p)[i].peer # b
  BY DEF NotAbout
<1>1. CASE i > Len(q)
  BY <1>1, Appended DEF NotAbout
<1>2. CASE ~ i > Len(q)
  <2>1. i \in 1..Len(q)
    BY <1>2, Appended
  <2> QED BY <2>1, Appended DEF NotAbout
<1> QED BY <1>1, <1>2

LEMMA NotAboutShortened ==
  ASSUME NEW q \in Seq(Messages), q # <<>>, NEW b, NotAbout(q, b)
  PROVE  NotAbout(Tail(q), b) /\ Head(q).peer # b
BY Shortened DEF NotAbout

LEMMA HasAppended ==
  ASSUME NEW q \in Seq(Messages), NEW p \in Seq(Messages), NEW m, Has(q, m) \/ Has(p, m)
  PROVE  Has(q \o p, m)
<1>1. CASE Has(q, m)
  <2>1. PICK i \in 1..Len(q) : q[i] = m
    BY <1>1 DEF Has
  <2>2. (q \o p)[i] = m /\ i \in 1..Len(q \o p)
    BY <2>1, Appended
  <2> QED BY <2>2 DEF Has
<1>2. CASE Has(p, m)
  <2>1. PICK i \in 1..Len(p) : p[i] = m
    BY <1>2 DEF Has
  <2>2. (q \o p)[Len(q) + i] = m /\ Len(q) + i \in 1..Len(q \o p)
    BY <2>1, Appended
  <2> QED BY <2>2 DEF Has
<1> QED BY <1>1, <1>2

LEMMA HasShortened ==
  ASSUME NEW q \in Seq(Messages), q # <<>>, NEW m, Has(q, m), Head(q) # m
  PROVE  Has(Tail(q), m)
<1>1. PICK i \in 1..Len(q) : q[i] = m
  BY DEF Has
<1>2. i # 1
  BY <1>1, Shortened
<1> QED BY <1>1, <1>2, Shortened DEF Has

LEMMA NeverAppended ==
  ASSUME NEW q \in Seq(Messages), NEW p \in Seq(Messages), NEW m, NEW n,
         Never(q, n, m), ~ Has(p, m)
  PROVE  Never(q \o p, n, m)
<1> SUFFICES ASSUME NEW i \in 1..Len(q \o p), i > n PROVE (q \o p)[i] # m
  BY DEF Never
<1>1. CASE i > Len(q)
  BY <1>1, Appended DEF Has
<1>2. CASE ~ i > Len(q)
  <2>1. i \in 1..Len(q)
    BY <1>2, Appended
  <2> QED BY <2>1, Appended DEF Never
<1> QED BY <1>1, <1>2

LEMMA KnowsAppended ==
  ASSUME NEW q \in Seq(Messages), NEW p \in Seq(Messages), NEW known, NEW m, NEW g,
         Knows(known, q, m, g), ~ Has(p, g)
  PROVE  Knows(known, q \o p, m, g)
<1>1. CASE known /\ Never(q, 0, g)
  BY <1>1, NeverAppended DEF Knows
<1>2. CASE Coming(q, m, g)
  <2>1. PICK i \in 1..Len(q) : q[i] = m /\ Never(q, i, g)
    BY <1>2 DEF Coming
  <2>2. Never(q \o p, i, g)
    BY <2>1, NeverAppended
  <2>3. (q \o p)[i] = m /\ i \in 1..Len(q \o p)
    BY <2>1, Appended
  <2> QED BY <2>2, <2>3 DEF Knows, Coming
<1> QED BY <1>1, <1>2 DEF Knows

LEMMA KnowsAdded ==
  ASSUME NEW q \in Seq(Messages), NEW p \in Seq(Messages), NEW known, NEW m, NEW g,
         Has(p, m), ~ Has(p, g)
  PROVE  Knows(known, q \o p, m, g)
<1>1. PICK k \in 1..Len(p) : p[k] = m
  BY DEF Has
<1>2. (q \o p)[Len(q) + k] = m /\ Len(q) + k \in 1..Len(q \o p)
  BY <1>1, Appended
<1>3. Never(q \o p, Len(q) + k, g)
  <2> SUFFICES ASSUME NEW i \in 1..Len(q \o p), i > Len(q) + k PROVE (q \o p)[i] # g
    BY DEF Never
  <2>1. i > Len(q)
    BY Appended
  <2> QED BY <2>1, Appended DEF Has
<1> QED BY <1>2, <1>3 DEF Knows, Coming

LEMMA KnowsShortened ==
  ASSUME NEW q \in Seq(Messages), q # <<>>, NEW known, NEW now, NEW m, NEW g,
         Knows(known, q, m, g),
         Head(q) = m => now,
         known /\ Head(q) # g => now
  PROVE  Knows(now, Tail(q), m, g)
<1>1. ASSUME NEW n \in Nat, Never(q, n, g), n > 0
      PROVE  Never(Tail(q), n - 1, g)
  BY <1>1, Shortened DEF Never
<1>2. ASSUME Never(q, 0, g)
      PROVE  Never(Tail(q), 0, g) /\ Head(q) # g
  BY <1>2, Shortened DEF Never
<1>3. CASE known /\ Never(q, 0, g)
  BY <1>2, <1>3 DEF Knows
<1>4. CASE Coming(q, m, g)
  <2>1. PICK i \in 1..Len(q) : q[i] = m /\ Never(q, i, g)
    BY <1>4 DEF Coming
  <2>2. Never(Tail(q), i - 1, g)
    BY <1>1, <2>1
  <2>3. CASE i = 1
    BY <2>1, <2>2, <2>3, Shortened DEF Knows
  <2>4. CASE i # 1
    BY <2>1, <2>2, <2>4, Shortened DEF Knows, Coming
  <2> QED BY <2>3, <2>4
<1> QED BY <1>3, <1>4 DEF Knows

\* What is sent keeps the queue swept when each such signal follows what it must.
LEMMA SweptAppended ==
  ASSUME NEW q \in Seq(Messages), NEW p \in Seq(Messages), NEW known, NEW b, NEW g,
         Swept(known, q, b, g),
         \A i \in 1..Len(p) : p[i] \in Lefts(b) => i # 1 /\ p[i - 1] \in Lefts(b) \cup {g}
  PROVE  Swept(known, q \o p, b, g)
<1> DEFINE f == q \o p
<1> SUFFICES ASSUME NEW i \in 1..Len(f), f[i] \in Lefts(b)
             PROVE  IF i = 1 THEN ~ known ELSE f[i - 1] \in Lefts(b) \cup {g}
  BY DEF Swept
<1>1. CASE i > Len(q)
  <2> DEFINE k == i - Len(q)
  <2>1. k \in 1..Len(p) /\ f[i] = p[k]
    BY <1>1, Appended
  <2>2. k # 1 /\ p[k - 1] \in Lefts(b) \cup {g}
    BY <2>1
  <2>3. k - 1 \in 1..Len(p) /\ Len(q) + (k - 1) = i - 1 /\ i # 1
    BY <1>1, <2>1, <2>2, Appended
  <2>4. f[i - 1] = p[k - 1]
    BY <2>3, Appended
  <2> QED BY <2>2, <2>3, <2>4
<1>2. CASE ~ i > Len(q)
  <2>1. i \in 1..Len(q) /\ f[i] = q[i]
    BY <1>2, Appended
  <2>2. i # 1 => i - 1 \in 1..Len(q)
    BY <2>1
  <2>3. i # 1 => f[i - 1] = q[i - 1]
    BY <2>2, Appended
  <2> QED BY <2>1, <2>3 DEF Swept
<1> QED BY <1>1, <1>2

LEMMA SweptShortened ==
  ASSUME NEW q \in Seq(Messages), q # <<>>, NEW known, NEW now, NEW b, NEW g,
         Swept(known, q, b, g),
         Head(q) = g => ~ now,
         Head(q) \in Lefts(b) /\ ~ known => ~ now
  PROVE  Swept(now, Tail(q), b, g) /\ (Head(q) \in Lefts(b) => ~ known)
<1> DEFINE t == Tail(q)
<1>1. Head(q) \in Lefts(b) => ~ known
  BY Shortened DEF Swept
<1> SUFFICES ASSUME NEW i \in 1..Len(t), t[i] \in Lefts(b)
             PROVE  IF i = 1 THEN ~ now ELSE t[i - 1] \in Lefts(b) \cup {g}
  BY <1>1 DEF Swept
<1>2. i + 1 \in 1..Len(q) /\ q[i + 1] \in Lefts(b) /\ i + 1 # 1 /\ (i + 1) - 1 = i
  BY Shortened
<1>3. q[i] \in Lefts(b) \cup {g}
  BY <1>2 DEF Swept
<1>4. CASE i = 1
  BY <1>1, <1>3, <1>4, Shortened
<1>5. CASE i # 1
  <2>1. i - 1 \in 1..Len(t) /\ (i - 1) + 1 = i
    BY <1>5
  <2>2. t[i - 1] = q[i]
    BY <2>1, Shortened
  <2> QED BY <1>3, <1>5, <2>2
<1> QED BY <1>4, <1>5

LEMMA SweptLess ==
  ASSUME NEW q, NEW known, NEW now, NEW b, NEW g, Swept(known, q, b, g), now => known
  PROVE  Swept(now, q, b, g)
BY DEF Swept
-----------------------------------------------------------------------------
Used(t)      == phase[t] # "none"
Single(b, o) == \A t \in Streams : Owner(t) = b /\ Used(t) => At(t) = o
Alone(c, s)  == \A t \in Streams : Owner(t) = c /\ Used(t) => t = s

\* No relay has taken the join of a stream of the peer yet.
Unjoined(c) ==
  \A t \in Streams : Owner(t) = c /\ Used(t) => up[t] # <<>> /\ Head(up[t]) = "join"

\* Nobody has heard of a peer whose join was not taken.
Fresh(c) ==
  \A x, y \in Relays : reg[x][c] = None /\ remote[x][c] = None /\ NotAbout(link[x][y], c)

\* Of a peer b that uses relay o only: other relays send nothing about it,
Own(b, o) == \A x, y \in Relays : x # o => NotAbout(link[x][y], b)

\* they have it from o, or not at all,
Tabled(b, o) ==
  /\ remote[o][b] = None
  /\ \A r \in Relays : r # o => /\ remote[r][b] \in {o, None}
                                /\ remote[r][b] = o => reg[r][b] = Virtual

KnownAt(b, o, r) == Knows(remote[r][b] = o, link[o][r], Join(o, b), Gone(o, b))
SweptAt(b, o, r) == Swept(remote[r][b] = o, link[o][r], b, Gone(o, b))

\* its departure is taken before the signals of it,
Clean(b, o) == \A r \in Relays : r # o => SweptAt(b, o, r)

\* they know it or are about to,
Spread(b, o) ==
  restarts = 0 /\ reg[o][b] \in Streams => \A r \in Relays : r # o => KnownAt(b, o, r)

\* and whoever is registered with it or at a relay that knows it was told of it.
ToldHere(b, o) ==
  reg[o][b] \in Streams => \A c \in Browsers :
    c # b /\ reg[o][c] \in Streams => b \in told[reg[o][c]]

ToldThere(b, o) ==
  \A r \in Relays, c \in Browsers :
    r # o /\ c # b /\ remote[r][b] = o /\ reg[r][c] \in Streams => b \in told[reg[r][c]]

\* After a restart too, the relay of a newcomer knows the peer, or its own
\* announcement of the newcomer, which the relay of the peer answers, is under way.
Asked(b, o) ==
  reg[o][b] \in Streams => \A r \in Relays, c \in Browsers :
    r # o /\ c # b /\ reg[r][c] \in Streams /\ Alone(c, reg[r][c])
      => \/ KnownAt(b, o, r)
         \/ Has(link[r][o], Join(r, c)) /\ remote[o][c] # r

Faith(b, o) ==
  /\ Own(b, o) /\ Tabled(b, o) /\ Clean(b, o) /\ Spread(b, o)
  /\ ToldHere(b, o) /\ ToldThere(b, o) /\ Asked(b, o)

FInv ==
  /\ \A c \in Browsers : Unjoined(c) => Fresh(c)
  /\ \A b \in Browsers, o \in Relays : Single(b, o) => Faith(b, o)

-----------------------------------------------------------------------------
\* The effects of a step on the tables and the links.
Enters(r, p, e) ==
  \A x \in Relays, c \in Browsers : reg'[x][c] = IF x = r /\ c = p THEN e ELSE reg[x][c]

Owned(r, p, k) ==
  \A x \in Relays, c \in Browsers :
    remote'[x][c] = IF x = r /\ c = p THEN k ELSE remote[x][c]

Sends(r, msgs) ==
  \A x, y \in Relays :
    link'[x][y] = IF x = r /\ y # r THEN link[x][y] \o msgs ELSE link[x][y]

Takes(a, r, msgs) ==
  \A x, y \in Relays :
    link'[x][y] = IF x = a /\ y = r THEN Tail(link[a][r])
                  ELSE IF x = r /\ y # r THEN link[x][y] \o msgs ELSE link[x][y]

\* Each signal that p left follows the message of relay r that takes p back.
InOrder(msgs, r, p) ==
  \A i \in 1..Len(msgs) :
    msgs[i] \in Lefts(p) => i # 1 /\ msgs[i - 1] \in Lefts(p) \cup {Gone(r, p)}

LEMMA Types ==
  ASSUME IInv, NEW r \in Relays, NEW x \in Relays, NEW b \in Browsers
  PROVE  /\ reg[r][b] \in Streams \/ reg[r][b] \in {None, Virtual}
         /\ remote[r][b] \in Relays \cup {None}
         /\ link[r][x] \in Seq(Messages) /\ link[r][x] \in Seq(Sent(r))
         /\ link[r][r] = <<>>
         /\ reg[r][b] \in Streams =>
              /\ remote[r][b] = None /\ Owner(reg[r][b]) = b /\ At(reg[r][b]) = r
              /\ Used(reg[r][b]) /\ reg[r][b] \notin {None, Virtual}
         /\ reg[r][b] = Virtual => remote[r][b] \in Relays \ {r}
         /\ None # Virtual /\ None \notin Relays
         /\ None \notin Streams /\ Virtual \notin Streams
BY SignalingAssumption, EntriesAssumption
   DEF IInv, TablesType, TablesOK, LinksOK, Entries, Live, Used

LEMMA ToldJoined ==
  ASSUME told \in [Streams -> SUBSET Browsers], NEW entries, NEW members, NEW p,
         NEW t \in Streams
  PROVE  /\ \A c \in told[t] : c \in ToldLocally(entries, members, "joined", p)[t]
         /\ Owner(t) \in members /\ entries[Owner(t)] = t
              => p \in ToldLocally(entries, members, "joined", p)[t]
BY DEF ToldLocally, Hears

LEMMA ToldLeft ==
  ASSUME told \in [Streams -> SUBSET Browsers], NEW entries, NEW members, NEW p,
         NEW t \in Streams
  PROVE  \A c \in told[t] :
           c # p \/ Owner(t) \notin members \/ entries[Owner(t)] # t
             => c \in ToldLocally(entries, members, "left", p)[t]
BY DEF ToldLocally, Hears

\* What the set of signals is sent as.
SignalsOf(q, what, p) ==
  /\ q \in Seq(Messages)
  /\ \A i \in 1..Len(q) : /\ q[i].type = "signal" /\ q[i].what = what /\ q[i].peer = p
                          /\ q[i] \in Messages

LEMMA RelayedOne ==
  ASSUME NEW entries, NEW members, members \subseteq Browsers,
         NEW what \in {"joined", "left"}, NEW p \in Browsers
  PROVE  SignalsOf(Relayed(entries, members, what, p), what, p)
<1> DEFINE far == {b \in members : entries[b] = Virtual}
           T == {Signal(b, what, p) : b \in far}
           q == Relayed(entries, members, what, p)
<1>1. IsFiniteSet(T)
  <2>1. far \subseteq Browsers
    OBVIOUS
  <2> HIDE DEF far
  <2> QED BY <2>1, SignalsFinite
<1>2. \A m \in T : m \in Messages /\ m.type = "signal" /\ m.what = what /\ m.peer = p
  BY DEF Signal, Messages
<1>3. q = SetToSeq(T)
  BY DEF Relayed
<1> HIDE DEF T, q
<1>4. q \in Seq(T)
  BY <1>1, <1>3, SetToSeqType
<1>5. \A i \in 1..Len(q) : q[i] \in T
  BY <1>4
<1>6. q \in Seq(Messages)
  BY <1>2, <1>4, SeqMonotonic
<1>7. SignalsOf(q, what, p)
  BY <1>2, <1>5, <1>6 DEF SignalsOf
<1> QED BY <1>7 DEF q

\* A relay that takes a join announces each of its local peers.
LEMMA AnnouncedOne ==
  ASSUME NEW locals, locals \subseteq Browsers, NEW r \in Relays
  PROVE  LET q == Announced(r, locals) IN
         /\ q \in Seq(Messages)
         /\ \A i \in 1..Len(q) : \E c \in locals : q[i] = Join(r, c)
         /\ \A c \in locals : Has(q, Join(r, c))
<1> DEFINE T == {Join(r, c) : c \in locals}
           q == Announced(r, locals)
<1>1. IsFiniteSet(T)
  BY JoinsFinite
<1>2. T \subseteq Messages
  BY DEF Join, Messages
<1>3. q = SetToSeq(T)
  BY DEF Announced
<1>4. \A m \in T : \E c \in locals : m = Join(r, c)
  OBVIOUS
<1>5. \A c \in locals : Join(r, c) \in T
  OBVIOUS
<1> HIDE DEF T, q
<1>6. q \in Seq(T) /\ \A m \in T : Has(q, m)
  <2> DEFINE n == Cardinality(T)
  <2>1. n \in Nat /\ ExistsBijection(1..n, T)
    BY <1>1, FS_CardinalityType
  <2>2. \E f \in [1..n -> T] : IsInjective(f)
    BY <2>1 DEF ExistsBijection, Bijection, Injection, IsInjective
  <2>3. q \in [1..n -> T] /\ IsInjective(q)
    BY <1>3, <2>2 DEF SetToSeq
  <2>4. IsFiniteSet(1..n) /\ Cardinality(1..n) = n
    BY <2>1, FS_Interval
  <2>5. q \in Surjection(1..n, T)
    <3>1. q \in Injection(1..n, T)
      BY <2>3 DEF Injection, IsInjective
    <3> HIDE DEF n
    <3>2. Cardinality(1..n) = Cardinality(T)
      BY <2>4 DEF n
    <3> QED BY <1>1, <2>4, <3>1, <3>2, FS_Injection DEF Injection
  <2>6. Len(q) = n
    BY <2>1, <2>3
  <2> HIDE DEF n
  <2>7. \A m \in T : \E i \in 1..n : q[i] = m
    BY <2>5 DEF Surjection
  <2> QED BY <2>1, <2>3, <2>6, <2>7 DEF Has
<1>7. \A i \in 1..Len(q) : q[i] \in T
  BY <1>6
<1>8. q \in Seq(Messages)
  BY <1>2, <1>6, SeqMonotonic
<1> QED BY <1>4, <1>5, <1>6, <1>7, <1>8 DEF q
-----------------------------------------------------------------------------
\* The kinds of step: relay r takes the join of stream s,
Joins(s, r, b, msgs) ==
  /\ Enters(r, b, s) /\ Owned(r, b, None) /\ Sends(r, msgs)
  /\ msgs \in Seq(Messages) /\ Has(msgs, Join(r, b))
  /\ \A i \in 1..Len(msgs) :
       msgs[i].peer = b /\ msgs[i] \notin Lefts(b) /\ msgs[i].type # "leave"
  /\ told'[s] = Members(r)
  /\ \A t \in Streams : t # s =>
       told[t] \subseteq told'[t] /\ (reg[r][Owner(t)] = t => b \in told'[t])

\* or removes a peer that left, as it tells its own members at most,
Leaves(r, p) ==
  \A t \in Streams : \A c \in told[t] : c # p \/ At(t) # r => c \in told'[t]

Departs(r, p, msgs) ==
  /\ Enters(r, p, None) /\ remote' = remote /\ Sends(r, msgs)
  /\ msgs \in Seq(Messages) /\ InOrder(msgs, r, p)
  /\ \A i \in 1..Len(msgs) : msgs[i].peer = p
  /\ Leaves(r, p)

\* or takes a message of relay a: a join that it did not know of,
Learns(a, r, p, msgs) ==
  /\ Head(link[a][r]) = Join(a, p) /\ remote[r][p] # a
  /\ Enters(r, p, Virtual) /\ Owned(r, p, a) /\ Takes(a, r, msgs)
  /\ msgs \in Seq(Messages)
  /\ \A i \in 1..Len(msgs) : \E c \in Browsers :
       c # p /\ reg[r][c] \in Streams /\ msgs[i] = Join(r, c)
  /\ \A c \in Browsers : c # p /\ reg[r][c] \in Streams => Has(msgs, Join(r, c))
  /\ \A t \in Streams : told[t] \subseteq told'[t]
  /\ \A t \in Streams : Owner(t) # p /\ reg[r][Owner(t)] = t => p \in told'[t]

\* a departure of a peer it knows from there,
Forgets(a, r, p) ==
  /\ Head(link[a][r]) = Gone(a, p) /\ remote[r][p] = a
  /\ Enters(r, p, None) /\ Owned(r, p, None) /\ Takes(a, r, <<>>) /\ Leaves(r, p)

\* a join or a departure that changes nothing,
Skips(a, r, p) ==
  /\ \/ Head(link[a][r]) = Join(a, p) /\ remote[r][p] = a
     \/ Head(link[a][r]) = Gone(a, p) /\ remote[r][p] # a
  /\ UNCHANGED <<reg, remote, told>> /\ Takes(a, r, <<>>)

\* or a signal for one of its streams.
Signals(a, r, m) ==
  /\ Head(link[a][r]) = m /\ m.type = "signal"
  /\ UNCHANGED <<reg, remote>> /\ Takes(a, r, <<>>)
  /\ Leaves(r, m.peer)
  /\ m \in Lefts(m.peer) \/ \A t \in Streams : told[t] \subseteq told'[t]

LEMMA SendsPublished ==
  ASSUME IInv, NEW r \in Relays, NEW msgs, link' = Published(link, r, msgs)
  PROVE  Sends(r, msgs)
<1>1. link \in [Relays -> [Relays -> Seq(Messages)]] /\ \A x \in Relays : link[x][x] = <<>>
  BY DEF IInv, LinksOK
<1> QED BY <1>1 DEF Sends, Published

Shortens(l, a, r) == l = [link EXCEPT ![a][r] = Tail(@)]

LEMMA TakesPublished ==
  ASSUME IInv, NEW a \in Relays, NEW r \in Relays, link[a][r] # <<>>, NEW msgs,
         NEW l, Shortens(l, a, r), link' = Published(l, r, msgs)
  PROVE  Takes(a, r, msgs)
<1>1. l \in [Relays -> [Relays -> Seq(Messages)]] /\ \A x \in Relays : l[x][x] = <<>>
  BY LinksKept DEF IInv, Shortens
<1>2. a # r
  BY HeadSent DEF IInv
<1>3. \A x, y \in Relays : l[x][y] = IF x = a /\ y = r THEN Tail(link[a][r]) ELSE link[x][y]
  BY DEF IInv, LinksOK, Shortens
<1>5. \A x, y \in Relays :
        link'[x][y] = IF x = r THEN (IF y = r THEN <<>> ELSE l[x][y] \o msgs) ELSE l[x][y]
  BY <1>1 DEF Published
<1>6. ASSUME NEW x \in Relays, NEW y \in Relays
      PROVE  link'[x][y] = IF x = a /\ y = r THEN Tail(link[a][r])
                           ELSE IF x = r /\ y # r THEN link[x][y] \o msgs ELSE link[x][y]
  <2>1. CASE x = r /\ y = r
    BY <1>1, <1>2, <1>3, <1>5, <2>1
  <2>2. CASE x = r /\ y # r
    <3>1. l[x][y] = link[x][y]
      BY <1>2, <1>3, <2>2
    <3>2. link'[x][y] = l[x][y] \o msgs
      BY <1>5, <2>2
    <3> QED BY <1>2, <2>2, <3>1, <3>2
  <2>3. CASE x # r
    BY <1>3, <1>5, <2>3
  <2> QED BY <2>1, <2>2, <2>3
<1> QED BY <1>6 DEF Takes

LEMMA TakesOnly ==
  ASSUME IInv, NEW a \in Relays, NEW r \in Relays, link[a][r] # <<>>,
         link' = [link EXCEPT ![a][r] = Tail(@)]
  PROVE  Takes(a, r, <<>>)
<1>1. \A x, y \in Relays :
        link'[x][y] = IF x = a /\ y = r THEN Tail(link[a][r]) ELSE link[x][y]
  BY DEF IInv, LinksOK
<1>2. \A x, y \in Relays : link[x][y] \o <<>> = link[x][y]
  BY ConcatEmptySeq DEF IInv, LinksOK
<1> QED BY <1>1, <1>2 DEF Takes

LEMMA JoinEffect ==
  ASSUME IInv, NEW s \in Streams, OnJoin(s)
  PROVE  \E msgs : Joins(s, At(s), Owner(s), msgs)
<1> DEFINE r == At(s)
           b == Owner(s)
           e == reg[r]
           ms == Members(r)
           p == Relayed(e, ms, "joined", b)
           msgs == Append(p, Join(r, b))
<1>1. r \in Relays /\ b \in Browsers /\ Members(r) \subseteq Browsers
  BY StreamParts DEF Members
<1>2. /\ told' = [ToldLocally(reg[r], Members(r), "joined", b) EXCEPT ![s] = Members(r)]
      /\ link' = Published(link, r, msgs)
      /\ reg' = [reg EXCEPT ![r][b] = s]
      /\ remote' = [remote EXCEPT ![r] = Cleared(@, b)]
  BY DEF OnJoin
<1>3. Enters(r, b, s)
  BY <1>1, <1>2 DEF Enters, IInv, TablesType
<1>4. Owned(r, b, None)
  BY <1>1, <1>2 DEF Owned, Cleared, IInv, TablesType
<1>5. Sends(r, msgs)
  <2> HIDE DEF msgs, r
  <2> QED BY <1>1, <1>2, SendsPublished
<1>6. /\ p \in Seq(Messages)
      /\ \A i \in 1..Len(p) : p[i].type = "signal" /\ p[i].what = "joined" /\ p[i].peer = b
  <2>1. SignalsOf(p, "joined", b)
    <3> HIDE DEF ms, e, b
    <3>1. ms \subseteq Browsers /\ b \in Browsers
      BY <1>1 DEF ms
    <3> QED BY <3>1, RelayedOne
  <2> HIDE DEF p
  <2> QED BY <2>1 DEF SignalsOf
<1>7. /\ msgs \in Seq(Messages) /\ Has(msgs, Join(r, b))
      /\ \A i \in 1..Len(msgs) :
           msgs[i].peer = b /\ msgs[i] \notin Lefts(b) /\ msgs[i].type # "leave"
  <2> DEFINE j == Join(r, b)
  <2>1. j \in Messages /\ j.peer = b /\ j.type = "join"
    BY <1>1, MessageTypes DEF Join
  <2> HIDE DEF j, p
  <2>2. /\ Append(p, j) \in Seq(Messages) /\ Len(Append(p, j)) = Len(p) + 1
        /\ \A i \in 1..Len(p) : Append(p, j)[i] = p[i]
        /\ Append(p, j)[Len(p) + 1] = j
    BY <1>6, <2>1, AppendProperties
  <2>3. Len(p) \in Nat
    BY <1>6, LenProperties
  <2>4. Has(Append(p, j), j)
    BY <2>2, <2>3 DEF Has
  <2>5. ASSUME NEW i \in 1..Len(Append(p, j))
        PROVE  LET m == Append(p, j)[i] IN m.peer = b /\ m \notin Lefts(b) /\ m.type # "leave"
    <3>1. CASE i = Len(p) + 1
      BY <2>1, <2>2, <3>1 DEF Lefts
    <3>2. CASE i # Len(p) + 1
      <4>1. i \in 1..Len(p)
        BY <2>2, <2>3, <3>2
      <4> QED BY <1>6, <2>2, <4>1 DEF Lefts
    <3> QED BY <3>1, <3>2
  <2> QED BY <2>2, <2>4, <2>5 DEF j
<1>8. told \in [Streams -> SUBSET Browsers]
  BY DEF IInv, StreamsOK, StreamsType
<1>9. told'[s] = Members(r)
  BY <1>2 DEF ToldLocally
<1>10. ASSUME NEW t \in Streams, t # s
       PROVE  told[t] \subseteq told'[t] /\ (reg[r][Owner(t)] = t => b \in told'[t])
  <2>1. told'[t] = ToldLocally(reg[r], Members(r), "joined", b)[t]
    BY <1>2, <1>10 DEF ToldLocally
  <2>2. reg[r][Owner(t)] = t => Owner(t) \in Members(r)
    BY StreamParts DEF Members
  <2>3. /\ \A c \in told[t] : c \in ToldLocally(reg[r], Members(r), "joined", b)[t]
        /\ Owner(t) \in Members(r) /\ reg[r][Owner(t)] = t
             => b \in ToldLocally(reg[r], Members(r), "joined", b)[t]
    BY <1>8, ToldJoined
  <2> QED BY <2>1, <2>2, <2>3
<1> HIDE DEF msgs
<1>11. Joins(s, r, b, msgs)
  BY <1>3, <1>4, <1>5, <1>7, <1>9, <1>10 DEF Joins
<1> QED BY <1>11

LEMMA DepartEffect ==
  ASSUME IInv, NEW r \in Relays, NEW p \in Browsers,
         Departed(r, p, [reg[r] EXCEPT ![p] = None])
  PROVE  \E msgs : Departs(r, p, msgs)
<1> DEFINE entries == [reg[r] EXCEPT ![p] = None]
           rest == {m \in Browsers : entries[m] # None}
           q == Relayed(entries, rest, "left", p)
           g == <<Gone(r, p)>>
           msgs == g \o q
<1>1. /\ reg' = [reg EXCEPT ![r] = entries]
      /\ told' = ToldLocally(entries, rest, "left", p)
      /\ link' = Published(link, r, msgs)
      /\ remote' = remote
  BY DEF Departed
<1>2. Enters(r, p, None)
  BY <1>1 DEF Enters, IInv, TablesType
<1>3. Sends(r, msgs)
  <2> HIDE DEF msgs
  <2> QED BY <1>1, SendsPublished
<1>4. rest \subseteq Browsers
  OBVIOUS
<1>5. /\ q \in Seq(Messages)
      /\ \A i \in 1..Len(q) : /\ q[i].type = "signal" /\ q[i].what = "left" /\ q[i].peer = p
                              /\ q[i] \in Messages
  <2>1. SignalsOf(q, "left", p)
    <3> HIDE DEF rest, entries
    <3> QED BY <1>4, RelayedOne
  <2> HIDE DEF q
  <2> QED BY <2>1 DEF SignalsOf
<1>6. /\ g \in Seq(Messages) /\ Len(g) = 1 /\ g[1] = Gone(r, p)
      /\ g[1].peer = p /\ g[1] \notin Lefts(p)
  <2>1. Gone(r, p) \in Messages
    BY DEF Gone, Messages
  <2> QED BY <2>1 DEF Gone, Lefts
<1> HIDE DEF q, g
<1>a. /\ msgs \in Seq(Messages) /\ Len(q) \in Nat /\ Len(msgs) = 1 + Len(q)
      /\ \A i \in 1..Len(g) : msgs[i] = g[i]
      /\ \A i \in 1..Len(msgs) : i > Len(g) => i - Len(g) \in 1..Len(q) /\ msgs[i] = q[i - Len(g)]
  BY <1>5, <1>6, Appended
<1>7. \A i \in 1..Len(msgs) : /\ i = 1 => msgs[i] = Gone(r, p)
                              /\ i # 1 => i - 1 \in 1..Len(q) /\ msgs[i] = q[i - 1]
  <2> SUFFICES ASSUME NEW i \in 1..Len(msgs)
               PROVE  /\ i = 1 => msgs[i] = Gone(r, p)
                      /\ i # 1 => i - 1 \in 1..Len(q) /\ msgs[i] = q[i - 1]
    OBVIOUS
  <2>1. CASE i = 1
    BY <1>6, <1>a, <2>1
  <2>2. CASE i # 1
    <3>1. i > Len(g)
      BY <1>6, <2>2
    <3> QED BY <1>6, <1>a, <2>2, <3>1
  <2> QED BY <2>1, <2>2
<1>8. msgs \in Seq(Messages)
  BY <1>a
<1>9. Gone(r, p).peer = p /\ Gone(r, p) \notin Lefts(p)
  BY DEF Gone, Lefts
<1>10. \A i \in 1..Len(msgs) : msgs[i].peer = p
  BY <1>5, <1>7, <1>9
<1>11. InOrder(msgs, r, p)
  <2> SUFFICES ASSUME NEW i \in 1..Len(msgs), msgs[i] \in Lefts(p)
               PROVE  i # 1 /\ msgs[i - 1] \in Lefts(p) \cup {Gone(r, p)}
    BY DEF InOrder
  <2>1. i # 1
    BY <1>7, <1>9
  <2>2. CASE i = 2
    <3>1. 1 \in 1..Len(msgs) /\ i - 1 = 1
      BY <2>2
    <3> QED BY <1>7, <2>1, <3>1
  <2>3. CASE i # 2
    <3>1. i - 1 \in 1..Len(msgs) /\ i - 1 # 1
      BY <2>1, <2>3
    <3> DEFINE k == i - 1
    <3>2. k \in 1..Len(msgs) /\ k # 1
      BY <3>1
    <3> HIDE DEF k
    <3>3. k - 1 \in 1..Len(q) /\ msgs[k] = q[k - 1]
      BY <1>7, <3>2
    <3>4. msgs[k] \in Lefts(p)
      BY <1>5, <3>3 DEF Lefts
    <3> QED BY <2>1, <3>4 DEF k
  <2> QED BY <2>2, <2>3
<1>12. told \in [Streams -> SUBSET Browsers]
  BY DEF IInv, StreamsOK, StreamsType
<1>13. Leaves(r, p)
  <2>1. ASSUME NEW t \in Streams, entries[Owner(t)] = t PROVE At(t) = r
    <3>1. Owner(t) \in Browsers /\ t # None
      BY StreamParts
    <3>2. reg[r][Owner(t)] = t
      BY <2>1, <3>1 DEF IInv, TablesType
    <3> QED BY <3>1, <3>2, Types
  <2> HIDE DEF entries, rest
  <2>2. \A t \in Streams : \A c \in told[t] :
          c # p \/ Owner(t) \notin rest \/ entries[Owner(t)] # t
            => c \in ToldLocally(entries, rest, "left", p)[t]
    BY <1>12, ToldLeft
  <2> QED BY <1>1, <2>1, <2>2 DEF Leaves
<1> HIDE DEF msgs
<1>14. Departs(r, p, msgs)
  BY <1>1, <1>2, <1>3, <1>8, <1>10, <1>11, <1>13 DEF Departs
<1> QED BY <1>14
-----------------------------------------------------------------------------
LEMMA MessageShape ==
  ASSUME NEW a \in Relays, NEW m \in Sent(a)
  PROVE  /\ m \in Messages /\ m.peer \in Browsers
         /\ m.type = "join" => m = Join(a, m.peer) /\ m.owner = a
         /\ m.type = "leave" => m = Gone(a, m.peer) /\ m.owner = a
         /\ m.type = "signal" => m.what \in {"joined", "left"} /\ m.target \in Browsers
         /\ m.type = "signal" /\ m.what = "left" => m \in Lefts(m.peer)
<1>1. m \in Messages /\ (m.type \in {"join", "leave"} => m.owner = a)
  BY DEF Sent
<1>2. \/ m \in [type : {"join", "leave"}, owner : Relays, peer : Browsers]
      \/ m \in [type : {"signal"}, target : Browsers, what : {"joined", "left"}, peer : Browsers]
  BY <1>1 DEF Messages
<1>3. CASE m \in [type : {"join", "leave"}, owner : Relays, peer : Browsers]
  BY <1>1, <1>3 DEF Join, Gone
<1>4. CASE m \in [type : {"signal"}, target : Browsers, what : {"joined", "left"}, peer : Browsers]
  BY <1>1, <1>4 DEF Lefts
<1> QED BY <1>2, <1>3, <1>4

LEMMA LearnEffect ==
  ASSUME IInv, NEW a \in Relays, NEW r \in Relays, link[a][r] # <<>>, NEW p \in Browsers,
         Head(link[a][r]) = Join(a, p), remote[r][p] # a, RemoteJoin(a, r, Join(a, p))
  PROVE  \E msgs : Learns(a, r, p, msgs)
<1> DEFINE known == [remote[r] EXCEPT ![p] = a]
           locals == Locals(r, known)
           l == [link EXCEPT ![a][r] = Tail(@)]
           msgs == Announced(r, locals)
<1>1. Join(a, p).peer = p /\ Join(a, p).owner = a
  BY DEF Join
<1>2. /\ remote' = [remote EXCEPT ![r] = known]
      /\ reg' = [reg EXCEPT ![r][p] = Virtual]
      /\ told' = ToldLocally(reg[r], locals, "joined", p)
      /\ link' = Published(l, r, msgs)
  BY <1>1 DEF RemoteJoin
<1>3. Enters(r, p, Virtual)
  BY <1>2 DEF Enters, IInv, TablesType
<1>4. Owned(r, p, a)
  BY <1>2 DEF Owned, IInv, TablesType
<1>5. Takes(a, r, msgs)
  <2>1. Shortens(l, a, r)
    BY DEF Shortens
  <2> HIDE DEF l, msgs
  <2> QED BY <1>2, <2>1, TakesPublished
<1>6. \A c \in Browsers : known[c] = IF c = p THEN a ELSE remote[r][c]
  BY DEF IInv, TablesType
<1>7. \A c \in Browsers : c \in locals <=> c # p /\ reg[r][c] \in Streams
  <2> SUFFICES ASSUME NEW c \in Browsers
               PROVE  c \in locals <=> c # p /\ reg[r][c] \in Streams
    OBVIOUS
  <2>1. c \in locals <=> reg[r][c] # None /\ known[c] = None
    BY DEF Locals, Members
  <2> QED BY <1>6, <2>1, Types
<1>8. locals \subseteq Browsers
  BY DEF Locals, Members
<1>9. /\ msgs \in Seq(Messages)
      /\ \A i \in 1..Len(msgs) : \E c \in locals : msgs[i] = Join(r, c)
      /\ \A c \in locals : Has(msgs, Join(r, c))
  <2> HIDE DEF locals
  <2> QED BY <1>8, AnnouncedOne
<1>10. told \in [Streams -> SUBSET Browsers]
  BY DEF IInv, StreamsOK, StreamsType
<1> HIDE DEF locals, msgs
<1>11. \A t \in Streams :
         /\ \A c \in told[t] : c \in ToldLocally(reg[r], locals, "joined", p)[t]
         /\ Owner(t) \in locals /\ reg[r][Owner(t)] = t
              => p \in ToldLocally(reg[r], locals, "joined", p)[t]
  BY <1>10, ToldJoined
<1>12. \A t \in Streams : told[t] \subseteq told'[t]
  BY <1>2, <1>11
<1>13. \A t \in Streams : Owner(t) # p /\ reg[r][Owner(t)] = t => p \in told'[t]
  <2> SUFFICES ASSUME NEW t \in Streams, Owner(t) # p, reg[r][Owner(t)] = t
               PROVE  p \in told'[t]
    OBVIOUS
  <2>1. Owner(t) \in Browsers
    BY StreamParts
  <2>2. Owner(t) \in locals
    BY <1>7, <2>1
  <2>3. p \in ToldLocally(reg[r], locals, "joined", p)[t]
    BY <1>11, <2>2
  <2> QED BY <1>2, <2>3
<1>14. \A i \in 1..Len(msgs) : \E c \in Browsers :
         c # p /\ reg[r][c] \in Streams /\ msgs[i] = Join(r, c)
  BY <1>7, <1>8, <1>9
<1>15. \A c \in Browsers : c # p /\ reg[r][c] \in Streams => Has(msgs, Join(r, c))
  BY <1>7, <1>9
<1>16. Learns(a, r, p, msgs)
  BY <1>3, <1>4, <1>5, <1>9, <1>12, <1>13, <1>14, <1>15 DEF Learns
<1> QED BY <1>16

LEMMA LeaveEffect ==
  ASSUME IInv, NEW a \in Relays, NEW r \in Relays, link[a][r] # <<>>, NEW p \in Browsers,
         Head(link[a][r]) = Gone(a, p), RemoteLeave(a, r, Gone(a, p))
  PROVE  Forgets(a, r, p) \/ Skips(a, r, p)
<1> DEFINE known == Disowned(remote[r], p)
           entries == [reg[r] EXCEPT ![p] = None]
           rest == {m \in Browsers : entries[m] # None /\ known[m] = None}
<1>1. Gone(a, p).peer = p /\ Gone(a, p).owner = a
  BY DEF Gone
<1>2. Takes(a, r, <<>>)
  <2>1. link' = [link EXCEPT ![a][r] = Tail(@)]
    BY DEF RemoteLeave
  <2> QED BY <2>1, TakesOnly
<1>3. CASE remote[r][p] = a
  <2>1. /\ remote' = [remote EXCEPT ![r] = known]
        /\ reg' = [reg EXCEPT ![r] = entries]
        /\ told' = ToldLocally(entries, rest, "left", p)
    BY <1>1, <1>3 DEF RemoteLeave
  <2>2. Enters(r, p, None)
    BY <2>1 DEF Enters, IInv, TablesType
  <2>3. Owned(r, p, None)
    BY <2>1 DEF Owned, Disowned, IInv, TablesType
  <2>4. told \in [Streams -> SUBSET Browsers]
    BY DEF IInv, StreamsOK, StreamsType
  <2>5. Leaves(r, p)
    <3>1. ASSUME NEW t \in Streams, entries[Owner(t)] = t PROVE At(t) = r
      <4>1. Owner(t) \in Browsers /\ t # None
        BY StreamParts
      <4>2. reg[r][Owner(t)] = t
        BY <3>1, <4>1 DEF IInv, TablesType
      <4> QED BY <4>1, <4>2, Types
    <3> HIDE DEF entries, rest
    <3>2. \A t \in Streams : \A c \in told[t] :
            c # p \/ Owner(t) \notin rest \/ entries[Owner(t)] # t
              => c \in ToldLocally(entries, rest, "left", p)[t]
      BY <2>4, ToldLeft
    <3> QED BY <2>1, <3>1, <3>2 DEF Leaves
  <2> QED BY <1>2, <1>3, <2>2, <2>3, <2>5 DEF Forgets
<1>4. CASE remote[r][p] # a
  <2>1. UNCHANGED <<reg, remote, told>>
    BY <1>1, <1>4 DEF RemoteLeave
  <2> QED BY <1>2, <1>4, <2>1 DEF Skips
<1> QED BY <1>3, <1>4

LEMMA SignalEffect ==
  ASSUME IInv, NEW a \in Relays, NEW r \in Relays, link[a][r] # <<>>,
         NEW m \in Sent(a), m = Head(link[a][r]), m.type = "signal", RemoteSignal(a, r, m)
  PROVE  Signals(a, r, m)
<1>1. Takes(a, r, <<>>)
  <2>1. link' = [link EXCEPT ![a][r] = Tail(@)]
    BY DEF RemoteSignal
  <2> QED BY <2>1, TakesOnly
<1>2. UNCHANGED <<reg, remote>>
  BY DEF RemoteSignal
<1>3. told \in [Streams -> SUBSET Browsers]
  BY DEF IInv, StreamsOK, StreamsType
<1>4. \A t \in Streams :
        told'[t] = IF t \in LocalTarget(r, m.target)
                     THEN Hears(told, t, m.what, m.peer)[t] ELSE told[t]
  BY DEF RemoteSignal
<1>5. Leaves(r, m.peer)
  <2> SUFFICES ASSUME NEW t \in Streams, NEW c \in told[t], c # m.peer \/ At(t) # r
               PROVE  c \in told'[t]
    BY DEF Leaves
  <2>1. CASE t \notin LocalTarget(r, m.target)
    BY <1>4, <2>1
  <2>2. CASE t \in LocalTarget(r, m.target)
    <3>1. reg[r][m.target] = t /\ m.target \in Browsers
      BY <2>2, MessageShape DEF LocalTarget
    <3>2. c # m.peer
      BY <3>1, Types
    <3>3. c \in Hears(told, t, m.what, m.peer)[t]
      BY <1>3, <3>2 DEF Hears
    <3> QED BY <1>4, <2>2, <3>3
  <2> QED BY <2>1, <2>2
<1>6. CASE m.what = "joined"
  <2>1. \A t \in Streams : told[t] \subseteq Hears(told, t, m.what, m.peer)[t]
    BY <1>3, <1>6 DEF Hears
  <2>2. \A t \in Streams : told[t] \subseteq told'[t]
    BY <1>4, <2>1
  <2> QED BY <1>1, <1>2, <1>5, <2>2 DEF Signals
<1>7. CASE m.what # "joined"
  <2>1. m \in Lefts(m.peer)
    BY <1>7, MessageShape
  <2> QED BY <1>1, <1>2, <1>5, <2>1 DEF Signals
<1> QED BY <1>6, <1>7

LEMMA GossipEffect ==
  ASSUME IInv, NEW a \in Relays, NEW r \in Relays, Gossip(a, r)
  PROVE  /\ a # r /\ link[a][r] # <<>> /\ UNCHANGED <<up, phase, restarts>>
         /\ \/ \E p \in Browsers :
                 Skips(a, r, p) \/ Forgets(a, r, p) \/ \E msgs : Learns(a, r, p, msgs)
            \/ \E m \in Messages : Signals(a, r, m)
<1> DEFINE m == Head(link[a][r])
           p == m.peer
<1>1. link[a][r] # <<>> /\ UNCHANGED <<up, phase, restarts>>
  BY DEF Gossip
<1>2. a # r /\ m \in Sent(a)
  BY <1>1, HeadSent DEF IInv
<1>3. /\ m \in Messages /\ p \in Browsers
      /\ m.type = "join" => m = Join(a, p) /\ m.owner = a
      /\ m.type = "leave" => m = Gone(a, p) /\ m.owner = a
  BY <1>2, MessageShape
<1>4. \/ m.type = "join" /\ RemoteJoin(a, r, m)
      \/ m.type = "leave" /\ RemoteLeave(a, r, m)
      \/ m.type = "signal" /\ RemoteSignal(a, r, m)
  BY DEF Gossip
<1> HIDE DEF m
<1>5. CASE m.type = "join" /\ RemoteJoin(a, r, m)
  <2>1. Head(link[a][r]) = Join(a, p) /\ RemoteJoin(a, r, Join(a, p))
    BY <1>3, <1>5 DEF m
  <2>2. CASE remote[r][p] # a
    <3> HIDE DEF p
    <3> QED BY <1>1, <1>2, <1>3, <2>1, <2>2, LearnEffect
  <2>3. CASE remote[r][p] = a
    <3>1. link' = [link EXCEPT ![a][r] = Tail(@)] /\ UNCHANGED <<reg, remote, told>>
      BY <1>3, <1>5, <2>3 DEF RemoteJoin
    <3>2. Takes(a, r, <<>>)
      BY <1>1, <3>1, TakesOnly
    <3>3. Skips(a, r, p)
      BY <2>1, <2>3, <3>1, <3>2 DEF Skips
    <3> QED BY <1>1, <1>2, <1>3, <3>3
  <2> QED BY <2>2, <2>3
<1>6. CASE m.type = "leave" /\ RemoteLeave(a, r, m)
  <2>1. Head(link[a][r]) = Gone(a, p) /\ RemoteLeave(a, r, Gone(a, p))
    BY <1>3, <1>6 DEF m
  <2> HIDE DEF p
  <2> QED BY <1>1, <1>2, <1>3, <2>1, LeaveEffect
<1>7. CASE m.type = "signal" /\ RemoteSignal(a, r, m)
  <2>1. Signals(a, r, m)
    BY <1>1, <1>2, <1>7, SignalEffect DEF m
  <2> QED BY <1>1, <1>2, <1>3, <2>1
<1> QED BY <1>4, <1>5, <1>6, <1>7
-----------------------------------------------------------------------------
(***************************************************************************)
(* What the links of a peer's relay carry, when one is taken or sent to.   *)
(***************************************************************************)
LEMMA MessagesDiffer ==
  ASSUME NEW a, NEW r, NEW b, NEW c
  PROVE  /\ Join(a, b) # Gone(r, c) /\ Join(a, b) \notin Lefts(c) /\ Gone(a, b) \notin Lefts(c)
         /\ Join(a, b).peer = b /\ Gone(a, b).peer = b
         /\ Join(a, b).type = "join" /\ Gone(a, b).type = "leave"
BY DEF Join, Gone, Lefts

LEMMA LeftsAbout ==
  ASSUME NEW b, NEW m \in Lefts(b)
  PROVE  m.peer = b /\ m.type = "signal"
BY DEF Lefts

LEMMA AboutOthers ==
  ASSUME NEW q, NEW b, NotAbout(q, b), NEW o
  PROVE  /\ ~ Has(q, Gone(o, b)) /\ ~ Has(q, Join(o, b))
         /\ InOrder(q, o, b)
<1>1. \A i \in 1..Len(q) : q[i] # Gone(o, b) /\ q[i] # Join(o, b) /\ q[i] \notin Lefts(b)
  BY MessagesDiffer, LeftsAbout DEF NotAbout
<1> QED BY <1>1 DEF Has, InOrder

LEMMA OwnSent ==
  ASSUME IInv, NEW b, NEW o \in Relays, NEW r \in Relays, NEW msgs \in Seq(Messages),
         Own(b, o), Sends(r, msgs), r = o \/ NotAbout(msgs, b)
  PROVE  Own(b, o)'
<1> SUFFICES ASSUME NEW x \in Relays, NEW y \in Relays, x # o PROVE NotAbout(link'[x][y], b)
  BY DEF Own, NotAbout
<1>1. NotAbout(link[x][y], b) /\ link[x][y] \in Seq(Messages)
  BY DEF Own, IInv, LinksOK
<1>2. CASE x = r /\ y # r
  <2>1. NotAbout(link[x][y] \o msgs, b)
    BY <1>1, <1>2, NotAboutAppended
  <2> QED BY <1>2, <2>1 DEF Sends
<1>3. CASE ~ (x = r /\ y # r)
  BY <1>1, <1>3 DEF Sends
<1> QED BY <1>2, <1>3

LEMMA OwnTaken ==
  ASSUME IInv, NEW b, NEW o \in Relays, NEW a \in Relays, NEW r \in Relays,
         a # r, link[a][r] # <<>>, NEW msgs \in Seq(Messages),
         Own(b, o), Takes(a, r, msgs), r = o \/ NotAbout(msgs, b)
  PROVE  Own(b, o)'
<1> SUFFICES ASSUME NEW x \in Relays, NEW y \in Relays, x # o PROVE NotAbout(link'[x][y], b)
  BY DEF Own, NotAbout
<1>1. NotAbout(link[x][y], b) /\ link[x][y] \in Seq(Messages)
  BY DEF Own, IInv, LinksOK
<1>2. CASE x = r /\ y # r
  <2>1. NotAbout(link[x][y] \o msgs, b)
    BY <1>1, <1>2, NotAboutAppended
  <2> QED BY <1>2, <2>1 DEF Takes
<1>3. CASE x = a /\ y = r
  <2>1. NotAbout(Tail(link[x][y]), b)
    BY <1>1, <1>3, NotAboutShortened
  <2> QED BY <1>3, <2>1 DEF Takes
<1>4. CASE ~ (x = r /\ y # r) /\ ~ (x = a /\ y = r)
  BY <1>1, <1>4 DEF Takes
<1> QED BY <1>2, <1>3, <1>4

LEMMA KnownSent ==
  ASSUME IInv, NEW b, NEW o \in Relays, NEW r \in Relays, NEW msgs \in Seq(Messages),
         NEW x \in Relays, x # o, KnownAt(b, o, x), Sends(r, msgs),
         r = o => ~ Has(msgs, Gone(o, b)),
         remote[x][b] = o => remote'[x][b] = o
  PROVE  KnownAt(b, o, x)'
<1> DEFINE g == Gone(o, b)
           m == Join(o, b)
           q == link[o][x]
<1>0. KnownAt(b, o, x)' <=> Knows(remote'[x][b] = o, link'[o][x], m, g)
  BY DEF KnownAt
<1>1. Knows(remote'[x][b] = o, q, m, g) /\ q \in Seq(Messages)
  BY DEF KnownAt, Knows, IInv, LinksOK
<1> HIDE DEF g, m, q
<1>2. CASE r = o
  <2>1. Knows(remote'[x][b] = o, q \o msgs, m, g)
    BY <1>1, <1>2, KnowsAppended DEF g
  <2>9. link'[o][x] = q \o msgs
    BY <1>2 DEF Sends, q
  <2> QED BY <1>0, <2>1, <2>9
<1>3. CASE r # o
  <2>9. link'[o][x] = q
    BY <1>3 DEF Sends, q
  <2> QED BY <1>0, <1>1, <2>9
<1> QED BY <1>2, <1>3

LEMMA KnownAdded ==
  ASSUME IInv, NEW b, NEW o \in Relays, NEW msgs \in Seq(Messages),
         NEW x \in Relays, x # o, link'[o][x] = link[o][x] \o msgs,
         Has(msgs, Join(o, b)), ~ Has(msgs, Gone(o, b))
  PROVE  KnownAt(b, o, x)'
<1> DEFINE g == Gone(o, b)
           m == Join(o, b)
           q == link[o][x]
<1>0. KnownAt(b, o, x)' <=> Knows(remote'[x][b] = o, link'[o][x], m, g)
  BY DEF KnownAt
<1>1. q \in Seq(Messages)
  BY DEF IInv, LinksOK
<1> HIDE DEF g, m, q
<1>2. Knows(remote'[x][b] = o, q \o msgs, m, g)
  BY <1>1, KnowsAdded DEF g, m
<1> QED BY <1>0, <1>2 DEF q

LEMMA KnownTaken ==
  ASSUME IInv, NEW b, NEW o \in Relays, NEW a \in Relays, NEW r \in Relays,
         a # r, link[a][r] # <<>>, NEW msgs \in Seq(Messages),
         NEW x \in Relays, x # o, KnownAt(b, o, x), Takes(a, r, msgs),
         r = o => ~ Has(msgs, Gone(o, b)),
         a = o /\ x = r /\ Head(link[a][r]) = Join(o, b) => remote'[x][b] = o,
         remote[x][b] = o => \/ remote'[x][b] = o
                             \/ a = o /\ x = r /\ Head(link[a][r]) = Gone(o, b)
  PROVE  KnownAt(b, o, x)'
<1> DEFINE g == Gone(o, b)
           m == Join(o, b)
           q == link[o][x]
<1>0. KnownAt(b, o, x)' <=> Knows(remote'[x][b] = o, link'[o][x], m, g)
  BY DEF KnownAt
<1>1. Knows(remote[x][b] = o, q, m, g) /\ q \in Seq(Messages)
  BY DEF KnownAt, IInv, LinksOK
<1> HIDE DEF g, m, q
<1>2. CASE r = o
  <2>1. remote[x][b] = o => remote'[x][b] = o
    BY <1>2
  <2>2. Knows(remote'[x][b] = o, q, m, g)
    BY <1>1, <2>1 DEF Knows
  <2>3. Knows(remote'[x][b] = o, q \o msgs, m, g)
    BY <1>1, <1>2, <2>2, KnowsAppended DEF g
  <2>9. link'[o][x] = q \o msgs
    BY <1>2 DEF Takes, q
  <2> QED BY <1>0, <2>3, <2>9
<1>3. CASE a = o /\ x = r
  <2>1. q # <<>> /\ q = link[a][r]
    BY <1>3 DEF q
  <2>2. Head(q) = m => remote'[x][b] = o
    BY <1>3 DEF m, q
  <2>3. remote[x][b] = o /\ Head(q) # g => remote'[x][b] = o
    BY <1>3 DEF g, q
  <2>4. Knows(remote'[x][b] = o, Tail(q), m, g)
    BY <1>1, <2>1, <2>2, <2>3, KnowsShortened
  <2>9. link'[o][x] = Tail(q)
    BY <1>3 DEF Takes, q
  <2> QED BY <1>0, <2>4, <2>9
<1>4. CASE r # o /\ ~ (a = o /\ x = r)
  <2>1. Knows(remote'[x][b] = o, q, m, g)
    BY <1>1, <1>4 DEF Knows
  <2>9. link'[o][x] = q
    BY <1>4 DEF Takes, q
  <2> QED BY <1>0, <2>1, <2>9
<1> QED BY <1>2, <1>3, <1>4

LEMMA SweptSent ==
  ASSUME IInv, NEW b, NEW o \in Relays, NEW r \in Relays, NEW msgs \in Seq(Messages),
         NEW x \in Relays, x # o, SweptAt(b, o, x), Sends(r, msgs),
         r = o => InOrder(msgs, o, b),
         remote'[x][b] = o => remote[x][b] = o
  PROVE  SweptAt(b, o, x)'
<1> DEFINE g == Gone(o, b)
           q == link[o][x]
<1>0. SweptAt(b, o, x)' <=> Swept(remote'[x][b] = o, link'[o][x], b, g)
  BY DEF SweptAt
<1>1. Swept(remote'[x][b] = o, q, b, g) /\ q \in Seq(Messages)
  BY DEF SweptAt, Swept, IInv, LinksOK
<1> HIDE DEF g, q
<1>2. CASE r = o
  <2>1. \A i \in 1..Len(msgs) :
          msgs[i] \in Lefts(b) => i # 1 /\ msgs[i - 1] \in Lefts(b) \cup {g}
    BY <1>2 DEF InOrder, g
  <2>2. Swept(remote'[x][b] = o, q \o msgs, b, g)
    BY <1>1, <2>1, SweptAppended
  <2>9. link'[o][x] = q \o msgs
    BY <1>2 DEF Sends, q
  <2> QED BY <1>0, <2>2, <2>9
<1>3. CASE r # o
  <2>9. link'[o][x] = q
    BY <1>3 DEF Sends, q
  <2> QED BY <1>0, <1>1, <2>9
<1> QED BY <1>2, <1>3

LEMMA SweptTaken ==
  ASSUME IInv, NEW b, NEW o \in Relays, NEW a \in Relays, NEW r \in Relays,
         a # r, link[a][r] # <<>>, NEW msgs \in Seq(Messages),
         NEW x \in Relays, x # o, SweptAt(b, o, x), Takes(a, r, msgs),
         r = o => InOrder(msgs, o, b),
         remote'[x][b] = o =>
           \/ remote[x][b] = o
           \/ a = o /\ x = r /\ Head(link[a][r]) \notin Lefts(b),
         a = o /\ x = r /\ Head(link[a][r]) = Gone(o, b) => remote'[x][b] # o
  PROVE  SweptAt(b, o, x)'
<1> DEFINE g == Gone(o, b)
           q == link[o][x]
<1>0. SweptAt(b, o, x)' <=> Swept(remote'[x][b] = o, link'[o][x], b, g)
  BY DEF SweptAt
<1>1. Swept(remote[x][b] = o, q, b, g) /\ q \in Seq(Messages)
  BY DEF SweptAt, IInv, LinksOK
<1> HIDE DEF g, q
<1>2. CASE r = o
  <2>1. \A i \in 1..Len(msgs) :
          msgs[i] \in Lefts(b) => i # 1 /\ msgs[i - 1] \in Lefts(b) \cup {g}
    BY <1>2 DEF InOrder, g
  <2>2. Swept(remote'[x][b] = o, q, b, g)
    BY <1>1, <1>2, SweptLess
  <2>3. Swept(remote'[x][b] = o, q \o msgs, b, g)
    BY <1>1, <2>1, <2>2, SweptAppended
  <2>9. link'[o][x] = q \o msgs
    BY <1>2 DEF Takes, q
  <2> QED BY <1>0, <2>3, <2>9
<1>3. CASE a = o /\ x = r
  <2>1. q # <<>> /\ q = link[a][r]
    BY <1>3 DEF q
  <2>2. Head(q) = g => ~ (remote'[x][b] = o)
    BY <1>3 DEF g, q
  <2>3. Head(q) \in Lefts(b) /\ ~ (remote[x][b] = o) => ~ (remote'[x][b] = o)
    BY <1>3 DEF q
  <2>4. Swept(remote'[x][b] = o, Tail(q), b, g)
    BY <1>1, <2>1, <2>2, <2>3, SweptShortened
  <2>9. link'[o][x] = Tail(q)
    BY <1>3 DEF Takes, q
  <2> QED BY <1>0, <2>4, <2>9
<1>4. CASE r # o /\ ~ (a = o /\ x = r)
  <2>1. Swept(remote'[x][b] = o, q, b, g)
    BY <1>1, <1>4, SweptLess
  <2>9. link'[o][x] = q
    BY <1>4 DEF Takes, q
  <2> QED BY <1>0, <2>1, <2>9
<1> QED BY <1>2, <1>3, <1>4

LEMMA HasSent ==
  ASSUME IInv, NEW m, NEW r \in Relays, NEW msgs \in Seq(Messages),
         NEW x \in Relays, NEW y \in Relays, Has(link[x][y], m), Sends(r, msgs)
  PROVE  Has(link'[x][y], m)
<1>1. link[x][y] \in Seq(Messages)
  BY DEF IInv, LinksOK
<1>2. Has(link[x][y] \o msgs, m)
  BY <1>1, HasAppended
<1> QED BY <1>2 DEF Sends

LEMMA HasTaken ==
  ASSUME IInv, NEW m, NEW a \in Relays, NEW r \in Relays,
         a # r, link[a][r] # <<>>, NEW msgs \in Seq(Messages),
         NEW x \in Relays, NEW y \in Relays, Has(link[x][y], m), Takes(a, r, msgs),
         x = a /\ y = r => Head(link[a][r]) # m
  PROVE  Has(link'[x][y], m)
<1>1. link[x][y] \in Seq(Messages)
  BY DEF IInv, LinksOK
<1>2. Has(link[x][y] \o msgs, m)
  BY <1>1, HasAppended
<1>3. x = a /\ y = r => Has(Tail(link[x][y]), m)
  BY <1>1, HasShortened
<1> QED BY <1>2, <1>3 DEF Takes
-----------------------------------------------------------------------------
(***************************************************************************)
(* Each kind of step keeps what is so of a peer that uses one relay.       *)
(***************************************************************************)
LEMMA OnlyThere ==
  ASSUME IInv, NEW b \in Browsers, NEW o \in Relays, Single(b, o), NEW r \in Relays,
         reg[r][b] \in Streams
  PROVE  r = o
BY Types DEF Single

LEMMA JoinsFaith ==
  ASSUME IInv, NEW b \in Browsers, NEW o \in Relays, Single(b, o), Faith(b, o),
         \A c \in Browsers : Unjoined(c) => Fresh(c),
         NEW s \in Streams, NEW r \in Relays, NEW p \in Browsers, NEW msgs,
         r = At(s), p = Owner(s), Used(s), up[s] # <<>>, Head(up[s]) = "join",
         Joins(s, r, p, msgs), phase' = phase, restarts' = restarts
  PROVE  Faith(b, o)'
<1>1. p = b => r = o
  BY DEF Single
<1>2. /\ Enters(r, p, s) /\ Owned(r, p, None) /\ Sends(r, msgs)
      /\ msgs \in Seq(Messages) /\ Has(msgs, Join(r, p))
      /\ \A i \in 1..Len(msgs) :
           msgs[i].peer = p /\ msgs[i] \notin Lefts(p) /\ msgs[i].type # "leave"
      /\ told'[s] = Members(r)
      /\ \A t \in Streams : t # s =>
           told[t] \subseteq told'[t] /\ (reg[r][Owner(t)] = t => p \in told'[t])
  BY DEF Joins
<1>3. s \notin {None, Virtual}
  BY StreamParts
<1>4. p # b => NotAbout(msgs, b)
  BY <1>2 DEF NotAbout
<1>5. ~ Has(msgs, Gone(o, b)) /\ InOrder(msgs, o, b)
  <2>1. CASE p = b
    BY <1>2, <2>1, MessagesDiffer DEF Has, InOrder
  <2>2. CASE p # b
    BY <1>4, <2>2, AboutOthers
  <2> QED BY <2>1, <2>2
<1>6. \A x \in Relays : x # o => remote'[x][b] = remote[x][b] /\ reg'[x][b] = reg[x][b]
  BY <1>1, <1>2 DEF Owned, Enters
<1>7. \A x \in Relays, c \in Browsers : reg'[x][c] \in Streams =>
        \/ x = r /\ c = p /\ reg'[x][c] = s
        \/ ~ (x = r /\ c = p) /\ reg'[x][c] = reg[x][c] /\ reg[x][c] # s
  BY <1>2, Types DEF Enters
<1>8. Own(b, o)'
  BY <1>1, <1>2, <1>4, OwnSent DEF Faith
<1>9. Tabled(b, o)'
  <2>1. remote'[o][b] = None
    BY <1>2 DEF Owned, Faith, Tabled
  <2> QED BY <1>6, <2>1 DEF Faith, Tabled
<1>10. Clean(b, o)'
  <2> SUFFICES ASSUME NEW x \in Relays, x # o PROVE SweptAt(b, o, x)'
    BY DEF Clean
  <2>1. SweptAt(b, o, x) /\ remote'[x][b] = remote[x][b]
    BY <1>6 DEF Faith, Clean
  <2> QED BY <1>2, <1>5, <2>1, SweptSent
<1>11. ASSUME NEW x \in Relays, x # o, p = b
       PROVE  KnownAt(b, o, x)'
  <2>1. link'[o][x] = link[o][x] \o msgs /\ Has(msgs, Join(o, b))
    BY <1>1, <1>2, <1>11 DEF Sends
  <2> QED BY <1>2, <1>5, <1>11, <2>1, KnownAdded
<1>12. ASSUME NEW x \in Relays, x # o, KnownAt(b, o, x)
       PROVE  KnownAt(b, o, x)'
  BY <1>2, <1>5, <1>6, <1>12, KnownSent
<1>13. p # b => reg'[o][b] = reg[o][b]
  BY <1>2 DEF Enters
<1>14. Spread(b, o)'
  <2> SUFFICES ASSUME restarts = 0, reg'[o][b] \in Streams, NEW x \in Relays, x # o
               PROVE  KnownAt(b, o, x)'
    BY DEF Spread
  <2>1. CASE p = b
    BY <1>11, <2>1
  <2>2. CASE p # b
    <3>1. KnownAt(b, o, x)
      BY <1>13, <2>2 DEF Faith, Spread
    <3> QED BY <1>12, <3>1
  <2> QED BY <2>1, <2>2
<1>15. ToldHere(b, o)'
  <2> SUFFICES ASSUME reg'[o][b] \in Streams, NEW c \in Browsers, c # b,
                      reg'[o][c] \in Streams
               PROVE  b \in told'[reg'[o][c]]
    BY DEF ToldHere
  <2>1. CASE o = r /\ c = p
    <3>1. reg'[o][c] = s /\ reg[o][b] \in Streams
      BY <1>7, <1>13, <2>1
    <3>2. b \in Members(r)
      BY <2>1, <3>1, Types DEF Members
    <3> QED BY <1>2, <3>1, <3>2
  <2>2. CASE ~ (o = r /\ c = p)
    <3>1. reg'[o][c] = reg[o][c] /\ reg[o][c] # s
      BY <1>7, <2>2
    <3>2. CASE p = b
      <4>1. reg[r][Owner(reg[o][c])] = reg[o][c]
        BY <1>1, <3>1, <3>2, Types
      <4> QED BY <1>2, <3>1, <3>2, <4>1
    <3>3. CASE p # b
      <4>1. b \in told[reg[o][c]]
        BY <1>13, <3>1, <3>3 DEF Faith, ToldHere
      <4> QED BY <1>2, <3>1, <4>1
    <3> QED BY <3>2, <3>3
  <2> QED BY <2>1, <2>2
<1>16. ToldThere(b, o)'
  <2> SUFFICES ASSUME NEW x \in Relays, NEW c \in Browsers, x # o, c # b,
                      remote'[x][b] = o, reg'[x][c] \in Streams
               PROVE  b \in told'[reg'[x][c]]
    BY DEF ToldThere
  <2>1. remote[x][b] = o
    BY <1>6
  <2>2. CASE x = r /\ c = p
    <3>1. reg'[x][c] = s
      BY <1>7, <2>2
    <3>2. b \in Members(r)
      BY <2>1, <2>2, Types DEF Faith, Tabled, Members
    <3> QED BY <1>2, <3>1, <3>2
  <2>3. CASE ~ (x = r /\ c = p)
    <3>1. reg'[x][c] = reg[x][c] /\ reg[x][c] # s
      BY <1>7, <2>3
    <3>2. b \in told[reg[x][c]]
      BY <2>1, <3>1 DEF Faith, ToldThere
    <3> QED BY <1>2, <3>1, <3>2
  <2> QED BY <2>2, <2>3
<1>17. Asked(b, o)'
  <2> SUFFICES ASSUME reg'[o][b] \in Streams, NEW x \in Relays, NEW c \in Browsers,
                      x # o, c # b, reg'[x][c] \in Streams,
                      \A t \in Streams : Owner(t) = c /\ phase'[t] # "none" => t = reg'[x][c]
               PROVE  \/ KnownAt(b, o, x)'
                      \/ Has(link'[x][o], Join(x, c)) /\ remote'[o][c] # x
    BY DEF Asked, Alone, Used, Has, Join
  <2>1. CASE p = b
    BY <1>11, <2>1
  <2>2. CASE p # b /\ x = r /\ c = p
    <3>1. reg'[x][c] = s
      BY <1>7, <2>2
    <3>2. \A t \in Streams : Owner(t) = c /\ Used(t) => t = s
      BY <3>1 DEF Alone, Used
    <3>3. Unjoined(c)
      BY <3>2 DEF Unjoined
    <3>4. remote[o][c] = None
      BY <3>3 DEF Fresh
    <3>5. remote'[o][c] # x
      BY <1>2, <2>2, <3>4, Types DEF Owned
    <3>6. link'[x][o] = link[x][o] \o msgs /\ Has(msgs, Join(x, c))
      BY <1>2, <2>2 DEF Sends
    <3>7. Has(link[x][o] \o msgs, Join(x, c))
      <4>1. link[x][o] \in Seq(Messages)
        BY Types
      <4> QED BY <1>2, <3>6, <4>1, HasAppended
    <3> QED BY <3>5, <3>6, <3>7
  <2>3. CASE p # b /\ ~ (x = r /\ c = p)
    <3>1. reg'[x][c] = reg[x][c] /\ reg[o][b] \in Streams
      BY <1>7, <1>13, <2>3
    <3>2. Alone(c, reg[x][c])
      BY <3>1 DEF Alone, Used
    <3>3. \/ KnownAt(b, o, x)
          \/ Has(link[x][o], Join(x, c)) /\ remote[o][c] # x
      BY <3>1, <3>2 DEF Faith, Asked
    <3>4. CASE KnownAt(b, o, x)
      BY <1>12, <3>4
    <3>5. CASE Has(link[x][o], Join(x, c)) /\ remote[o][c] # x
      <4>1. Has(link'[x][o], Join(x, c))
        BY <1>2, <3>5, HasSent
      <4>2. remote'[o][c] # x
        BY <1>2, <3>5, Types DEF Owned
      <4> QED BY <4>1, <4>2
    <3> QED BY <3>3, <3>4, <3>5
  <2> QED BY <2>1, <2>2, <2>3
<1> QED BY <1>8, <1>9, <1>10, <1>14, <1>15, <1>16, <1>17 DEF Faith

LEMMA DepartsFaith ==
  ASSUME IInv, NEW b \in Browsers, NEW o \in Relays, Single(b, o), Faith(b, o),
         NEW r \in Relays, NEW p \in Browsers, NEW msgs,
         p = b => r = o, Departs(r, p, msgs), phase' = phase, restarts' = restarts
  PROVE  Faith(b, o)'
<1>1. /\ Enters(r, p, None) /\ remote' = remote /\ Sends(r, msgs)
      /\ msgs \in Seq(Messages) /\ InOrder(msgs, r, p)
      /\ \A i \in 1..Len(msgs) : msgs[i].peer = p
      /\ Leaves(r, p)
  BY DEF Departs
<1>2. p # b => NotAbout(msgs, b)
  BY <1>1 DEF NotAbout
<1>3. p # b => ~ Has(msgs, Gone(o, b))
  BY <1>2, AboutOthers
<1>4. r = o => InOrder(msgs, o, b)
  <2>1. CASE p = b
    BY <1>1, <2>1
  <2>2. CASE p # b
    BY <1>2, <2>2, AboutOthers
  <2> QED BY <2>1, <2>2
<1>5. \A x \in Relays, c \in Browsers : reg'[x][c] \in Streams =>
        ~ (x = r /\ c = p) /\ reg'[x][c] = reg[x][c]
  BY <1>1, EntriesAssumption DEF Enters
<1>6. Own(b, o)'
  BY <1>1, <1>2, OwnSent DEF Faith
<1>7. Tabled(b, o)'
  BY <1>1 DEF Enters, Faith, Tabled
<1>8. Clean(b, o)'
  <2> SUFFICES ASSUME NEW x \in Relays, x # o PROVE SweptAt(b, o, x)'
    BY DEF Clean
  <2>1. SweptAt(b, o, x) /\ remote'[x][b] = remote[x][b]
    BY <1>1 DEF Faith, Clean
  <2> QED BY <1>1, <1>4, <2>1, SweptSent
<1>9. ASSUME reg'[o][b] \in Streams
      PROVE  reg[o][b] \in Streams /\ (r = o => p # b)
  BY <1>5, <1>9
<1>10. ASSUME reg'[o][b] \in Streams, NEW x \in Relays, x # o, KnownAt(b, o, x)
       PROVE  KnownAt(b, o, x)'
  BY <1>1, <1>3, <1>9, <1>10, KnownSent
<1>11. Spread(b, o)'
  <2> SUFFICES ASSUME restarts = 0, reg'[o][b] \in Streams, NEW x \in Relays, x # o
               PROVE  KnownAt(b, o, x)'
    BY DEF Spread
  <2>1. KnownAt(b, o, x)
    BY <1>9 DEF Faith, Spread
  <2> QED BY <1>10, <2>1
<1>12. ToldHere(b, o)'
  <2> SUFFICES ASSUME reg'[o][b] \in Streams, NEW c \in Browsers, c # b,
                      reg'[o][c] \in Streams
               PROVE  b \in told'[reg'[o][c]]
    BY DEF ToldHere
  <2>1. reg'[o][c] = reg[o][c] /\ reg[o][b] \in Streams /\ p # b
    BY <1>5, <1>9
  <2>2. b \in told[reg[o][c]]
    BY <2>1 DEF Faith, ToldHere
  <2> QED BY <1>1, <2>1, <2>2 DEF Leaves
<1>13. ToldThere(b, o)'
  <2> SUFFICES ASSUME NEW x \in Relays, NEW c \in Browsers, x # o, c # b,
                      remote'[x][b] = o, reg'[x][c] \in Streams
               PROVE  b \in told'[reg'[x][c]]
    BY DEF ToldThere
  <2>1. reg'[x][c] = reg[x][c] /\ remote[x][b] = o
    BY <1>1, <1>5
  <2>2. b \in told[reg[x][c]]
    BY <2>1 DEF Faith, ToldThere
  <2>3. p # b \/ At(reg[x][c]) # r
    BY <2>1, Types
  <2> QED BY <1>1, <2>1, <2>2, <2>3 DEF Leaves
<1>14. Asked(b, o)'
  <2> SUFFICES ASSUME reg'[o][b] \in Streams, NEW x \in Relays, NEW c \in Browsers,
                      x # o, c # b, reg'[x][c] \in Streams,
                      \A t \in Streams : Owner(t) = c /\ phase'[t] # "none" => t = reg'[x][c]
               PROVE  \/ KnownAt(b, o, x)'
                      \/ Has(link'[x][o], Join(x, c)) /\ remote'[o][c] # x
    BY DEF Asked, Alone, Used, Has, Join
  <2>1. reg'[x][c] = reg[x][c] /\ reg[o][b] \in Streams
    BY <1>5
  <2>2. Alone(c, reg[x][c])
    BY <2>1 DEF Alone, Used
  <2>3. \/ KnownAt(b, o, x)
        \/ Has(link[x][o], Join(x, c)) /\ remote[o][c] # x
    BY <2>1, <2>2 DEF Faith, Asked
  <2>4. CASE KnownAt(b, o, x)
    BY <1>10, <2>4
  <2>5. CASE Has(link[x][o], Join(x, c)) /\ remote[o][c] # x
    <3>1. Has(link'[x][o], Join(x, c))
      BY <1>1, <2>5, HasSent
    <3> QED BY <1>1, <2>5, <3>1
  <2> QED BY <2>3, <2>4, <2>5
<1> QED BY <1>6, <1>7, <1>8, <1>11, <1>12, <1>13, <1>14 DEF Faith
-----------------------------------------------------------------------------
LEMMA LearnsFaith ==
  ASSUME IInv, NEW b \in Browsers, NEW o \in Relays, Single(b, o), Faith(b, o),
         NEW a \in Relays, NEW r \in Relays, a # r, link[a][r] # <<>>,
         NEW p \in Browsers, NEW msgs, Learns(a, r, p, msgs),
         phase' = phase, restarts' = restarts
  PROVE  Faith(b, o)'
<1> DEFINE h == Head(link[a][r])
<1>1. /\ h = Join(a, p) /\ remote[r][p] # a
      /\ Enters(r, p, Virtual) /\ Owned(r, p, a) /\ Takes(a, r, msgs)
      /\ msgs \in Seq(Messages)
      /\ \A i \in 1..Len(msgs) : \E c \in Browsers :
           c # p /\ reg[r][c] \in Streams /\ msgs[i] = Join(r, c)
      /\ \A c \in Browsers : c # p /\ reg[r][c] \in Streams => Has(msgs, Join(r, c))
      /\ \A t \in Streams : told[t] \subseteq told'[t]
      /\ \A t \in Streams : Owner(t) # p /\ reg[r][Owner(t)] = t => p \in told'[t]
  BY DEF Learns
<1>2. p = b => a = o
  <2> SUFFICES ASSUME a # o PROVE p # b
    OBVIOUS
  <2>1. NotAbout(link[a][r], b) /\ link[a][r] \in Seq(Messages)
    BY Types DEF Faith, Own
  <2>2. h.peer # b
    BY <2>1, NotAboutShortened
  <2> QED BY <1>1, <2>2 DEF Join
<1> HIDE DEF h
<1>3. p = b => r # o
  BY <1>2
<1>4. r = o \/ NotAbout(msgs, b)
  <2> SUFFICES ASSUME r # o, NEW i \in 1..Len(msgs) PROVE msgs[i].peer # b
    BY DEF NotAbout
  <2>1. PICK c \in Browsers : reg[r][c] \in Streams /\ msgs[i] = Join(r, c)
    BY <1>1
  <2>2. c # b
    BY <2>1, OnlyThere
  <2> QED BY <2>1, <2>2, MessagesDiffer
<1>5. ~ Has(msgs, Gone(o, b)) /\ InOrder(msgs, o, b)
  <2>1. \A c \in Browsers : Join(r, c) # Gone(o, b) /\ Join(r, c) \notin Lefts(b)
    BY DEF Join, Gone, Lefts
  <2>2. \A i \in 1..Len(msgs) : msgs[i] # Gone(o, b) /\ msgs[i] \notin Lefts(b)
    BY <1>1, <2>1
  <2> QED BY <2>2 DEF Has, InOrder
<1>6. \A x \in Relays, c \in Browsers : reg'[x][c] \in Streams =>
        ~ (x = r /\ c = p) /\ reg'[x][c] = reg[x][c]
  BY <1>1, EntriesAssumption DEF Enters
<1>7. Own(b, o)'
  BY <1>1, <1>4, OwnTaken DEF Faith
<1>8. \A x \in Relays : x # o =>
        \/ remote'[x][b] = remote[x][b] /\ reg'[x][b] = reg[x][b] /\ ~ (x = r /\ p = b)
        \/ a = o /\ x = r /\ p = b /\ remote'[x][b] = o /\ reg'[x][b] = Virtual
  BY <1>1, <1>2 DEF Enters, Owned
<1>9. Tabled(b, o)'
  <2>1. remote'[o][b] = None
    BY <1>1, <1>3 DEF Owned, Faith, Tabled
  <2> QED BY <1>8, <2>1 DEF Faith, Tabled
<1>10. Clean(b, o)'
  <2> SUFFICES ASSUME NEW x \in Relays, x # o PROVE SweptAt(b, o, x)'
    BY DEF Clean
  <2>1. SweptAt(b, o, x)
    BY DEF Faith, Clean
  <2>2. h \notin Lefts(b) /\ h # Gone(o, b)
    BY <1>1 DEF Join, Gone, Lefts
  <2>3. remote'[x][b] = o => remote[x][b] = o \/ (a = o /\ x = r)
    BY <1>8
  <2> QED BY <1>1, <1>5, <2>1, <2>2, <2>3, SweptTaken DEF h
<1>11. ASSUME NEW x \in Relays, x # o, KnownAt(b, o, x)
       PROVE  KnownAt(b, o, x)'
  <2>1. remote[x][b] = o => remote'[x][b] = o
    BY <1>8, <1>11
  <2>2. a = o /\ x = r /\ h = Join(o, b) => remote'[x][b] = o
    <3>1. h.peer = p /\ Join(o, b).peer = b
      BY <1>1 DEF Join
    <3> QED BY <1>8, <1>11, <3>1
  <2> QED BY <1>1, <1>5, <1>11, <2>1, <2>2, KnownTaken DEF h
<1>12. Spread(b, o)'
  <2> SUFFICES ASSUME restarts = 0, reg'[o][b] \in Streams, NEW x \in Relays, x # o
               PROVE  KnownAt(b, o, x)'
    BY DEF Spread
  <2>1. KnownAt(b, o, x)
    BY <1>6 DEF Faith, Spread
  <2> QED BY <1>11, <2>1
<1>13. ToldHere(b, o)'
  <2> SUFFICES ASSUME reg'[o][b] \in Streams, NEW c \in Browsers, c # b,
                      reg'[o][c] \in Streams
               PROVE  b \in told'[reg'[o][c]]
    BY DEF ToldHere
  <2>1. reg'[o][c] = reg[o][c] /\ reg[o][b] \in Streams
    BY <1>6
  <2>2. b \in told[reg[o][c]]
    BY <2>1 DEF Faith, ToldHere
  <2> QED BY <1>1, <2>1, <2>2
<1>14. ToldThere(b, o)'
  <2> SUFFICES ASSUME NEW x \in Relays, NEW c \in Browsers, x # o, c # b,
                      remote'[x][b] = o, reg'[x][c] \in Streams
               PROVE  b \in told'[reg'[x][c]]
    BY DEF ToldThere
  <2>1. reg'[x][c] = reg[x][c]
    BY <1>6
  <2>2. CASE x = r /\ p = b
    <3>1. Owner(reg[x][c]) = c
      BY <2>1, Types
    <3> QED BY <1>1, <2>1, <2>2, <3>1
  <2>3. CASE ~ (x = r /\ p = b)
    <3>1. b \in told[reg[x][c]]
      BY <1>8, <2>1, <2>3 DEF Faith, ToldThere
    <3> QED BY <1>1, <2>1, <3>1
  <2> QED BY <2>2, <2>3
<1>15. Asked(b, o)'
  <2> SUFFICES ASSUME reg'[o][b] \in Streams, NEW x \in Relays, NEW c \in Browsers,
                      x # o, c # b, reg'[x][c] \in Streams,
                      \A t \in Streams : Owner(t) = c /\ phase'[t] # "none" => t = reg'[x][c]
               PROVE  \/ KnownAt(b, o, x)'
                      \/ Has(link'[x][o], Join(x, c)) /\ remote'[o][c] # x
    BY DEF Asked, Alone, Used, Has, Join
  <2>1. reg'[x][c] = reg[x][c] /\ reg[o][b] \in Streams
    BY <1>6
  <2>2. Alone(c, reg[x][c])
    BY <2>1 DEF Alone, Used
  <2>3. CASE r = o
    <3>1. link'[o][x] = link[o][x] \o msgs
      BY <1>1, <2>3 DEF Takes
    <3>2. Has(msgs, Join(o, b))
      BY <1>1, <1>3, <2>1, <2>3
    <3> QED BY <1>1, <1>5, <3>1, <3>2, KnownAdded
  <2>4. CASE r # o
    <3>1. \/ KnownAt(b, o, x)
          \/ Has(link[x][o], Join(x, c)) /\ remote[o][c] # x
      BY <2>1, <2>2 DEF Faith, Asked
    <3>2. CASE KnownAt(b, o, x)
      BY <1>11, <3>2
    <3>3. CASE Has(link[x][o], Join(x, c)) /\ remote[o][c] # x
      <4>1. Has(link'[x][o], Join(x, c))
        BY <1>1, <2>4, <3>3, HasTaken
      <4>2. remote'[o][c] = remote[o][c]
        BY <1>1, <2>4 DEF Owned
      <4> QED BY <3>3, <4>1, <4>2
    <3> QED BY <3>1, <3>2, <3>3
  <2> QED BY <2>3, <2>4
<1> QED BY <1>7, <1>9, <1>10, <1>12, <1>13, <1>14, <1>15 DEF Faith

\* A message is taken and nothing is sent.
LEMMA TakenFaith ==
  ASSUME IInv, NEW b \in Browsers, NEW o \in Relays, Single(b, o), Faith(b, o),
         NEW a \in Relays, NEW r \in Relays, a # r, link[a][r] # <<>>, Takes(a, r, <<>>),
         phase' = phase, restarts' = restarts,
         NEW h, h = Head(link[a][r]),
         \A x \in Relays, c \in Browsers : reg'[x][c] \in Streams => reg'[x][c] = reg[x][c],
         \A x \in Relays, c \in Browsers : remote'[x][c] \in {remote[x][c], None},
         \A x \in Relays : x # o =>
           \/ remote'[x][b] = remote[x][b] /\ reg'[x][b] = reg[x][b]
           \/ a = o /\ x = r /\ h = Gone(o, b) /\ remote'[x][b] = None,
         a = o /\ h = Join(o, b) => remote[r][b] = o,
         a = o /\ h = Gone(o, b) => remote'[r][b] # o,
         \A c \in Browsers : r = o /\ h = Join(a, c) => remote[o][c] = a,
         \/ \A t \in Streams : told[t] \subseteq told'[t]
         \/ \E p : Leaves(r, p) /\ (p = b => a = o /\ h \in Lefts(b) \cup {Gone(o, b)})
  PROVE  Faith(b, o)'
<1> DEFINE e == <<>>
<1>1. /\ Takes(a, r, e) /\ e \in Seq(Messages) /\ NotAbout(e, b) /\ ~ Has(e, Gone(o, b))
      /\ InOrder(e, o, b)
  BY DEF NotAbout, Has, InOrder
<1> HIDE DEF e
<1>2. Join(o, b) # Gone(o, b) /\ None # o
  BY Types DEF Join, Gone
<1>3. Own(b, o)'
  BY <1>1, OwnTaken DEF Faith
<1>4. Tabled(b, o)'
  <2>1. remote'[o][b] = None
    BY DEF Faith, Tabled
  <2> QED BY <1>2, <2>1 DEF Faith, Tabled
<1>5. Clean(b, o)'
  <2> SUFFICES ASSUME NEW x \in Relays, x # o PROVE SweptAt(b, o, x)'
    BY DEF Clean
  <2>1. SweptAt(b, o, x)
    BY DEF Faith, Clean
  <2>2. remote'[x][b] = o => remote[x][b] = o
    BY <1>2
  <2> QED BY <1>1, <2>1, <2>2, SweptTaken
<1>6. ASSUME NEW x \in Relays, x # o, KnownAt(b, o, x)
      PROVE  KnownAt(b, o, x)'
  <2>1. remote[x][b] = o => remote'[x][b] = o \/ (a = o /\ x = r /\ h = Gone(o, b))
    BY <1>6
  <2>2. a = o /\ x = r /\ h = Join(o, b) => remote'[x][b] = o
    BY <1>2, <1>6
  <2> QED BY <1>1, <1>6, <2>1, <2>2, KnownTaken
<1>7. Spread(b, o)'
  <2> SUFFICES ASSUME restarts = 0, reg'[o][b] \in Streams, NEW x \in Relays, x # o
               PROVE  KnownAt(b, o, x)'
    BY DEF Spread
  <2>1. KnownAt(b, o, x)
    BY DEF Faith, Spread
  <2> QED BY <1>6, <2>1
<1>8. ToldHere(b, o)'
  <2> SUFFICES ASSUME reg'[o][b] \in Streams, NEW c \in Browsers, c # b,
                      reg'[o][c] \in Streams
               PROVE  b \in told'[reg'[o][c]]
    BY DEF ToldHere
  <2>1. reg'[o][c] = reg[o][c] /\ reg[o][b] \in Streams
    OBVIOUS
  <2>2. b \in told[reg[o][c]] /\ At(reg[o][c]) = o
    BY <2>1, Types DEF Faith, ToldHere
  <2> QED BY <2>1, <2>2 DEF Leaves
<1>9. ToldThere(b, o)'
  <2> SUFFICES ASSUME NEW x \in Relays, NEW c \in Browsers, x # o, c # b,
                      remote'[x][b] = o, reg'[x][c] \in Streams
               PROVE  b \in told'[reg'[x][c]]
    BY DEF ToldThere
  <2>1. reg'[x][c] = reg[x][c] /\ remote[x][b] = o
    BY <1>2
  <2>2. b \in told[reg[x][c]] /\ At(reg[x][c]) = x
    BY <2>1, Types DEF Faith, ToldThere
  <2>3. a = o /\ x = r => h \notin Lefts(b)
    <3> SUFFICES ASSUME a = o, x = r, h \in Lefts(b) PROVE FALSE
      OBVIOUS
    <3>1. Swept(remote[x][b] = o, link[a][r], b, Gone(o, b)) /\ link[a][r] \in Seq(Messages)
      BY Types DEF Faith, Clean, SweptAt
    <3> DEFINE q == link[a][r]
               k == remote[x][b] = o
               g == Gone(o, b)
    <3>2. Head(q) = q[1] /\ 1 \in 1..Len(q) /\ Swept(k, q, b, g)
      BY <3>1, Shortened
    <3>3. q[1] \in Lefts(b)
      BY <3>2
    <3>4. ~ k
      <4> HIDE DEF q, k, g
      <4> QED BY <3>2, <3>3 DEF Swept
    <3> QED BY <2>1, <3>4
  <2>4. a = o /\ x = r => h # Gone(o, b)
    OBVIOUS
  <2> QED BY <2>1, <2>2, <2>3, <2>4 DEF Leaves
<1>10. Asked(b, o)'
  <2> SUFFICES ASSUME reg'[o][b] \in Streams, NEW x \in Relays, NEW c \in Browsers,
                      x # o, c # b, reg'[x][c] \in Streams,
                      \A t \in Streams : Owner(t) = c /\ phase'[t] # "none" => t = reg'[x][c]
               PROVE  \/ KnownAt(b, o, x)'
                      \/ Has(link'[x][o], Join(x, c)) /\ remote'[o][c] # x
    BY DEF Asked, Alone, Used, Has, Join
  <2>1. reg'[x][c] = reg[x][c] /\ reg[o][b] \in Streams
    OBVIOUS
  <2>2. Alone(c, reg[x][c])
    BY <2>1 DEF Alone, Used
  <2>3. \/ KnownAt(b, o, x)
        \/ Has(link[x][o], Join(x, c)) /\ remote[o][c] # x
    BY <2>1, <2>2 DEF Faith, Asked
  <2>4. CASE KnownAt(b, o, x)
    BY <1>6, <2>4
  <2>5. CASE Has(link[x][o], Join(x, c)) /\ remote[o][c] # x
    <3>1. x = a /\ o = r => h # Join(x, c)
      BY <2>5
    <3>2. Has(link'[x][o], Join(x, c))
      BY <1>1, <2>5, <3>1, HasTaken
    <3>3. remote'[o][c] # x
      BY <2>5, Types
    <3> QED BY <3>2, <3>3
  <2> QED BY <2>3, <2>4, <2>5
<1> QED BY <1>3, <1>4, <1>5, <1>7, <1>8, <1>9, <1>10 DEF Faith
-----------------------------------------------------------------------------
\* Only the relay of the peer sends messages about it.
LEMMA HeadAbout ==
  ASSUME IInv, NEW b \in Browsers, NEW o \in Relays, Faith(b, o),
         NEW a \in Relays, NEW r \in Relays, link[a][r] # <<>>,
         Head(link[a][r]).peer = b
  PROVE  a = o
<1>1. link[a][r] \in Seq(Messages) /\ (a # o => NotAbout(link[a][r], b))
  BY Types DEF Faith, Own
<1> QED BY <1>1, NotAboutShortened

LEMMA ForgetsFaith ==
  ASSUME IInv, NEW b \in Browsers, NEW o \in Relays, Single(b, o), Faith(b, o),
         NEW a \in Relays, NEW r \in Relays, a # r, link[a][r] # <<>>,
         NEW p \in Browsers, Forgets(a, r, p), phase' = phase, restarts' = restarts
  PROVE  Faith(b, o)'
<1> DEFINE h == Head(link[a][r])
<1>1. /\ h = Gone(a, p) /\ remote[r][p] = a
      /\ Enters(r, p, None) /\ Owned(r, p, None) /\ Takes(a, r, <<>>) /\ Leaves(r, p)
  BY DEF Forgets
<1>2. h.peer = p /\ \A c \in Browsers : h # Join(a, c) /\ (h = Gone(a, c) => c = p)
  BY <1>1 DEF Join, Gone
<1>3. p = b => a = o
  BY <1>2, HeadAbout
<1>4. None # o
  BY Types
<1> HIDE DEF h
<1>5. \A x \in Relays, c \in Browsers : reg'[x][c] \in Streams => reg'[x][c] = reg[x][c]
  BY <1>1, EntriesAssumption DEF Enters
<1>6. \A x \in Relays, c \in Browsers : remote'[x][c] \in {remote[x][c], None}
  BY <1>1 DEF Owned
<1>7. \A x \in Relays : x # o =>
        \/ remote'[x][b] = remote[x][b] /\ reg'[x][b] = reg[x][b]
        \/ a = o /\ x = r /\ h = Gone(o, b) /\ remote'[x][b] = None
  BY <1>1, <1>3 DEF Enters, Owned
<1>8. a = o /\ h = Gone(o, b) => remote'[r][b] # o
  BY <1>1, <1>2, <1>4 DEF Owned
<1>9. p = b => a = o /\ h \in Lefts(b) \cup {Gone(o, b)}
  BY <1>1, <1>3
<1> QED BY <1>1, <1>2, <1>5, <1>6, <1>7, <1>8, <1>9, TakenFaith DEF h

LEMMA SkipsFaith ==
  ASSUME IInv, NEW b \in Browsers, NEW o \in Relays, Single(b, o), Faith(b, o),
         NEW a \in Relays, NEW r \in Relays, a # r, link[a][r] # <<>>,
         NEW p \in Browsers, Skips(a, r, p), phase' = phase, restarts' = restarts
  PROVE  Faith(b, o)'
<1> DEFINE h == Head(link[a][r])
<1>1. /\ \/ h = Join(a, p) /\ remote[r][p] = a
         \/ h = Gone(a, p) /\ remote[r][p] # a
      /\ UNCHANGED <<reg, remote, told>> /\ Takes(a, r, <<>>)
  BY DEF Skips
<1>2. \A c \in Browsers : /\ h = Join(a, c) => c = p /\ remote[r][p] = a
                          /\ h = Gone(a, c) => c = p /\ remote[r][p] # a
  BY <1>1 DEF Join, Gone
<1> HIDE DEF h
<1> QED BY <1>1, <1>2, TakenFaith DEF h

LEMMA SignalsFaith ==
  ASSUME IInv, NEW b \in Browsers, NEW o \in Relays, Single(b, o), Faith(b, o),
         NEW a \in Relays, NEW r \in Relays, a # r, link[a][r] # <<>>,
         NEW m \in Messages, Signals(a, r, m), phase' = phase, restarts' = restarts
  PROVE  Faith(b, o)'
<1> DEFINE h == Head(link[a][r])
<1>1. /\ h = m /\ m.type = "signal"
      /\ UNCHANGED <<reg, remote>> /\ Takes(a, r, <<>>) /\ Leaves(r, m.peer)
      /\ m \in Lefts(m.peer) \/ \A t \in Streams : told[t] \subseteq told'[t]
  BY DEF Signals
<1>2. \A c \in Browsers : h # Join(a, c) /\ h # Gone(a, c)
  BY <1>1 DEF Join, Gone
<1>3. m.peer = b => a = o
  BY <1>1, HeadAbout
<1> HIDE DEF h
<1>4. \/ \A t \in Streams : told[t] \subseteq told'[t]
      \/ \E p : Leaves(r, p) /\ (p = b => a = o /\ h \in Lefts(b) \cup {Gone(o, b)})
  BY <1>1, <1>3
<1> QED BY <1>1, <1>2, <1>4, TakenFaith DEF h

LEMMA RestartFaith ==
  ASSUME IInv, NEW b \in Browsers, NEW o \in Relays, Faith(b, o), NEW z \in Relays,
         Restart(z)
  PROVE  Faith(b, o)'
<1>1. /\ restarts' = restarts + 1
      /\ reg' = [reg EXCEPT ![z] = [c \in Browsers |-> None]]
      /\ remote' = [remote EXCEPT ![z] = [c \in Browsers |-> None]]
      /\ link' = [a \in Relays |-> [x \in Relays |-> IF z \in {a, x} THEN <<>> ELSE link[a][x]]]
      /\ phase' = [s \in Streams |-> IF At(s) = z /\ phase[s] = "open" THEN "closed" ELSE phase[s]]
      /\ UNCHANGED told
  BY DEF Restart
<1>2. restarts' # 0
  BY <1>1 DEF IInv, CountsOK
<1>3. \A x \in Relays, c \in Browsers :
        /\ reg'[x][c] = IF x = z THEN None ELSE reg[x][c]
        /\ remote'[x][c] = IF x = z THEN None ELSE remote[x][c]
  BY <1>1 DEF IInv, TablesType
<1>4. \A x, y \in Relays : link'[x][y] = IF x = z \/ y = z THEN <<>> ELSE link[x][y]
  BY <1>1
<1>5. None \notin Relays /\ None \notin Streams
  BY SignalingAssumption, EntriesAssumption
<1>6. \A t \in Streams : phase[t] # "none" => phase'[t] # "none"
  BY <1>1
<1>7. Own(b, o)'
  <2>1. NotAbout(<<>>, b)
    BY DEF NotAbout
  <2> SUFFICES ASSUME NEW x \in Relays, NEW y \in Relays, x # o
               PROVE  NotAbout(link'[x][y], b)
    BY DEF Own, NotAbout
  <2> QED BY <1>4, <2>1 DEF Faith, Own
<1>8. Tabled(b, o)'
  BY <1>3, <1>5 DEF Faith, Tabled
<1>9. Clean(b, o)'
  <2>1. \A k : Swept(k, <<>>, b, Gone(o, b))
    BY DEF Swept
  <2> SUFFICES ASSUME NEW x \in Relays, x # o
               PROVE  Swept(remote'[x][b] = o, link'[o][x], b, Gone(o, b))
    BY DEF Clean, SweptAt
  <2>2. CASE x = z \/ o = z
    BY <1>4, <2>1, <2>2
  <2>3. CASE ~ (x = z \/ o = z)
    <3>1. link'[o][x] = link[o][x] /\ remote'[x][b] = remote[x][b]
      BY <1>3, <1>4, <2>3
    <3> QED BY <3>1 DEF Faith, Clean, SweptAt
  <2> QED BY <2>2, <2>3
<1>10. Spread(b, o)'
  BY <1>2 DEF Spread
<1>11. ToldHere(b, o)'
  BY <1>1, <1>3, <1>5 DEF Faith, ToldHere
<1>12. ToldThere(b, o)'
  BY <1>1, <1>3, <1>5 DEF Faith, ToldThere
<1>13. Asked(b, o)'
  <2> SUFFICES ASSUME reg'[o][b] \in Streams, NEW x \in Relays, NEW c \in Browsers,
                      x # o, c # b, reg'[x][c] \in Streams,
                      \A t \in Streams : Owner(t) = c /\ phase'[t] # "none" => t = reg'[x][c]
               PROVE  \/ Knows(remote'[x][b] = o, link'[o][x], Join(o, b), Gone(o, b))
                      \/ Has(link'[x][o], Join(x, c)) /\ remote'[o][c] # x
    BY DEF Asked, Alone, Used, KnownAt
  <2>1. /\ o # z /\ x # z /\ reg'[x][c] = reg[x][c] /\ reg'[o][b] = reg[o][b]
        /\ remote'[x][b] = remote[x][b] /\ remote'[o][c] = remote[o][c]
        /\ link'[o][x] = link[o][x] /\ link'[x][o] = link[x][o]
    BY <1>3, <1>4, <1>5
  <2>2. Alone(c, reg[x][c])
    BY <1>6, <2>1 DEF Alone, Used
  <2> QED BY <2>1, <2>2 DEF Faith, Asked, KnownAt
<1> QED BY <1>7, <1>8, <1>9, <1>10, <1>11, <1>12, <1>13 DEF Faith

\* A step that touches the streams only.
LEMMA StillFaith ==
  ASSUME NEW b \in Browsers, NEW o \in Relays, Faith(b, o),
         UNCHANGED <<reg, remote, link, told, restarts>>,
         \A t \in Streams : Used(t) => Used(t)'
  PROVE  Faith(b, o)'
<1>1. Own(b, o)' /\ Tabled(b, o)'
  BY DEF Faith, Own, Tabled, NotAbout
<1>2. \A x \in Relays : (KnownAt(b, o, x)' <=> KnownAt(b, o, x)) /\ (SweptAt(b, o, x)' <=> SweptAt(b, o, x))
  BY DEF KnownAt, SweptAt, Knows, Coming, Never, Swept, Join, Gone, Lefts, Messages
<1>3. Clean(b, o)' /\ Spread(b, o)'
  BY <1>2 DEF Faith, Clean, Spread
<1>4. ToldHere(b, o)' /\ ToldThere(b, o)'
  BY DEF Faith, ToldHere, ToldThere
<1>5. Asked(b, o)'
  BY <1>2 DEF Faith, Asked, Alone, Has, Join
<1> QED BY <1>1, <1>3, <1>4, <1>5 DEF Faith
-----------------------------------------------------------------------------
(***************************************************************************)
(* Streams that were used stay used, and no join is put in front of one.   *)
(***************************************************************************)
JoinFirst(f) == f # <<>> /\ Head(f) = "join"

LEMMA Firsts ==
  /\ ~ JoinFirst(<<>>) /\ ~ JoinFirst(<<"end">>) /\ ~ JoinFirst(<<"leave", "end">>)
  /\ JoinFirst(<<"join">>)
BY FrameFacts DEF JoinFirst

LEMMA TakenFirst ==
  ASSUME IInv, NEW s \in Streams, up[s] # <<>>
  PROVE  Used(s) /\ ~ JoinFirst(Tail(up[s]))
<1>1. up[s] \in Frames
  BY DEF IInv, StreamsOK, StreamsType
<1>2. Tail(up[s]) \in {<<>>, <<"end">>, <<"leave", "end">>}
  BY <1>1, FrameFacts DEF Frames, Done
<1> QED BY <1>2, Firsts, TakenFrame DEF Used

LEMMA StreamsStay ==
  ASSUME IInv, Next, NEW t \in Streams, Used(t)
  PROVE  phase'[t] # "none" /\ (JoinFirst(up'[t]) => JoinFirst(up[t]))
<1>1. ASSUME NEW s \in Streams, Open(s)
      PROVE  phase'[t] # "none" /\ (JoinFirst(up'[t]) => JoinFirst(up[t]))
  BY <1>1 DEF Open, Used, IInv, StreamsOK, StreamsType
<1>2. ASSUME NEW s \in Streams, Leave(s)
      PROVE  phase'[t] # "none" /\ (JoinFirst(up'[t]) => JoinFirst(up[t]))
  <2> DEFINE f == up[s] \o <<"leave", "end">>
  <2>1. /\ phase[s] = "open" /\ phase' = [phase EXCEPT ![s] = "closed"]
        /\ up' = [up EXCEPT ![s] = f]
    BY <1>2 DEF Leave
  <2>2. up[s] = <<>> \/ up[s] = <<"join">>
    BY <2>1 DEF IInv, StreamsOK, Shape
  <2>3. JoinFirst(f) => JoinFirst(up[s])
    BY <2>2, Firsts, LeaveFacts
  <2> HIDE DEF f
  <2> QED BY <2>1, <2>3 DEF Used, IInv, StreamsOK, StreamsType
<1>3. ASSUME NEW s \in Streams, Break(s)
      PROVE  phase'[t] # "none" /\ (JoinFirst(up'[t]) => JoinFirst(up[t]))
  <2>1. phase[s] = "open" /\ phase' = [phase EXCEPT ![s] = "closed"]
    BY <1>3 DEF Break
  <2>2. PICK n \in 0..Len(up[s]) : up' = [up EXCEPT ![s] = Append(SubSeq(@, 1, n), "end")]
    BY <1>3 DEF Break
  <2> DEFINE f == Append(SubSeq(up[s], 1, n), "end")
  <2>3. up[s] = <<>> \/ up[s] = <<"join">>
    BY <2>1 DEF IInv, StreamsOK, Shape
  <2>4. up[s] = <<>> => f = <<"end">>
    <3> SUFFICES ASSUME up[s] = <<>> PROVE f = <<"end">>
      OBVIOUS
    <3>1. n = 0
      <4>1. Len(<<>>) = 0
        OBVIOUS
      <4> QED BY <4>1
    <3>2. SubSeq(up[s], 1, n) = <<>>
      BY <3>1, SubSeqEmpty
    <3>3. Append(<<>>, "end") = <<"end">>
      OBVIOUS
    <3> QED BY <3>2, <3>3
  <2>5. JoinFirst(f) => JoinFirst(up[s])
    BY <2>3, <2>4, Firsts
  <2>6. up' = [up EXCEPT ![s] = f]
    BY <2>2
  <2> HIDE DEF f
  <2> QED BY <2>1, <2>5, <2>6 DEF Used, IInv, StreamsOK, StreamsType
<1>4. ASSUME NEW s \in Streams, Process(s)
      PROVE  phase'[t] # "none" /\ (JoinFirst(up'[t]) => JoinFirst(up[t]))
  <2> DEFINE f == Tail(up[s])
  <2>1. phase' = phase /\ up' = [up EXCEPT ![s] = f] /\ ~ JoinFirst(f)
    BY <1>4, TakenFirst DEF Process
  <2> HIDE DEF f
  <2> QED BY <2>1 DEF Used, IInv, StreamsOK, StreamsType
<1>5. ASSUME NEW a \in Relays, NEW r \in Relays, Gossip(a, r)
      PROVE  phase'[t] # "none" /\ (JoinFirst(up'[t]) => JoinFirst(up[t]))
  BY <1>5 DEF Gossip, Used
<1>6. ASSUME NEW r \in Relays, Restart(r)
      PROVE  phase'[t] # "none" /\ (JoinFirst(up'[t]) => JoinFirst(up[t]))
  BY <1>6, Firsts DEF Restart, Used
<1> QED BY <1>1, <1>2, <1>3, <1>4, <1>5, <1>6 DEF Next

LEMMA WasSingle ==
  ASSUME IInv, Next, NEW b \in Browsers, NEW o \in Relays, Single(b, o)'
  PROVE  Single(b, o)
<1>1. \A t \in Streams : Owner(t) = b /\ phase'[t] # "none" => At(t) = o
  BY DEF Single, Used
<1> QED BY <1>1, StreamsStay DEF Single

LEMMA WasUnjoined ==
  ASSUME IInv, Next, NEW c \in Browsers, Unjoined(c)'
  PROVE  /\ Unjoined(c)
         /\ \A s \in Streams : Process(s) => Owner(s) # c
<1>1. \A t \in Streams : Owner(t) = c /\ phase'[t] # "none" => JoinFirst(up'[t])
  BY DEF Unjoined, Used, JoinFirst
<1>2. Unjoined(c)
  BY <1>1, StreamsStay DEF Unjoined, JoinFirst
<1>3. ASSUME NEW s \in Streams, Process(s), Owner(s) = c
      PROVE  FALSE
  <2> DEFINE f == Tail(up[s])
  <2>1. up' = [up EXCEPT ![s] = f] /\ phase' = phase /\ up[s] # <<>>
    BY <1>3 DEF Process
  <2>2. Used(s) /\ ~ JoinFirst(f)
    BY <2>1, TakenFirst
  <2> HIDE DEF f
  <2>3. up'[s] = f /\ phase'[s] # "none"
    BY <2>1, <2>2 DEF Used, IInv, StreamsOK, StreamsType
  <2> QED BY <1>1, <1>3, <2>2, <2>3
<1> QED BY <1>2, <1>3

-----------------------------------------------------------------------------
(***************************************************************************)
(* Nobody hears of a peer before a relay takes a join of it.               *)
(***************************************************************************)
LEMMA FreshSent ==
  ASSUME IInv, NEW c \in Browsers, Fresh(c), NEW r \in Relays, NEW p \in Browsers,
         p # c, NEW e, Enters(r, p, e), NEW msgs \in Seq(Messages), Sends(r, msgs),
         \A i \in 1..Len(msgs) : msgs[i].peer = p,
         remote' = remote \/ Owned(r, p, None)
  PROVE  Fresh(c)'
<1> SUFFICES ASSUME NEW x \in Relays, NEW y \in Relays
             PROVE  reg'[x][c] = None /\ remote'[x][c] = None /\ NotAbout(link'[x][y], c)
  BY DEF Fresh, NotAbout
<1>1. reg[x][c] = None /\ remote[x][c] = None /\ NotAbout(link[x][y], c)
  BY DEF Fresh
<1>2. reg'[x][c] = None /\ remote'[x][c] = None
  BY <1>1 DEF Enters, Owned
<1>3. NotAbout(msgs, c)
  BY DEF NotAbout
<1>4. link[x][y] \in Seq(Messages)
  BY Types
<1>5. NotAbout(link[x][y] \o msgs, c)
  BY <1>1, <1>3, <1>4, NotAboutAppended
<1>6. NotAbout(link'[x][y], c)
  BY <1>1, <1>5 DEF Sends
<1> QED BY <1>2, <1>6

LEMMA FreshTaken ==
  ASSUME IInv, NEW c \in Browsers, Fresh(c), NEW a \in Relays, NEW r \in Relays,
         a # r, link[a][r] # <<>>, NEW msgs \in Seq(Messages), Takes(a, r, msgs),
         NotAbout(msgs, c),
         \A x \in Relays : reg'[x][c] = reg[x][c] /\ remote'[x][c] = remote[x][c]
  PROVE  Fresh(c)'
<1> SUFFICES ASSUME NEW x \in Relays, NEW y \in Relays
             PROVE  reg'[x][c] = None /\ remote'[x][c] = None /\ NotAbout(link'[x][y], c)
  BY DEF Fresh, NotAbout
<1>1. reg[x][c] = None /\ remote[x][c] = None /\ NotAbout(link[x][y], c)
  BY DEF Fresh
<1>2. link[x][y] \in Seq(Messages)
  BY Types
<1>3. NotAbout(link[x][y] \o msgs, c)
  BY <1>1, <1>2, NotAboutAppended
<1>4. link[x][y] # <<>> => NotAbout(Tail(link[x][y]), c)
  BY <1>1, <1>2, NotAboutShortened
<1>5. NotAbout(link'[x][y], c)
  BY <1>1, <1>3, <1>4 DEF Takes
<1> QED BY <1>1, <1>5

LEMMA FreshGossip ==
  ASSUME IInv, NEW c \in Browsers, Fresh(c), NEW a \in Relays, NEW r \in Relays,
         Gossip(a, r)
  PROVE  Fresh(c)'
<1>1. a # r /\ link[a][r] # <<>>
  BY GossipEffect
<1>2. Head(link[a][r]).peer # c
  <2>1. link[a][r] \in Seq(Messages) /\ NotAbout(link[a][r], c)
    BY Types DEF Fresh
  <2> QED BY <1>1, <2>1, NotAboutShortened
<1>3. <<>> \in Seq(Messages) /\ NotAbout(<<>>, c)
  BY DEF NotAbout
<1>4. ASSUME NEW p \in Browsers, Skips(a, r, p)
      PROVE  Fresh(c)'
  BY <1>1, <1>3, <1>4, FreshTaken DEF Skips
<1>5. ASSUME NEW p \in Browsers, Forgets(a, r, p)
      PROVE  Fresh(c)'
  <2>1. p # c
    BY <1>2, <1>5 DEF Forgets, Gone
  <2>2. \A x \in Relays : reg'[x][c] = reg[x][c] /\ remote'[x][c] = remote[x][c]
    BY <1>5, <2>1 DEF Forgets, Enters, Owned
  <2>3. Takes(a, r, <<>>)
    BY <1>5 DEF Forgets
  <2> QED BY <1>1, <1>3, <2>2, <2>3, FreshTaken
<1>6. ASSUME NEW p \in Browsers, NEW msgs, Learns(a, r, p, msgs)
      PROVE  Fresh(c)'
  <2>1. p # c
    BY <1>2, <1>6 DEF Learns, Join
  <2>2. \A x \in Relays : reg'[x][c] = reg[x][c] /\ remote'[x][c] = remote[x][c]
    BY <1>6, <2>1 DEF Learns, Enters, Owned
  <2>3. Takes(a, r, msgs) /\ msgs \in Seq(Messages)
    BY <1>6 DEF Learns
  <2>4. NotAbout(msgs, c)
    <3> SUFFICES ASSUME NEW i \in 1..Len(msgs) PROVE msgs[i].peer # c
      BY DEF NotAbout
    <3>1. PICK d \in Browsers : reg[r][d] \in Streams /\ msgs[i] = Join(r, d)
      BY <1>6 DEF Learns
    <3>2. d # c
      BY <3>1, Types DEF Fresh
    <3> QED BY <3>1, <3>2, MessagesDiffer
  <2> QED BY <1>1, <2>2, <2>3, <2>4, FreshTaken
<1>7. ASSUME NEW m \in Messages, Signals(a, r, m)
      PROVE  Fresh(c)'
  BY <1>1, <1>3, <1>7, FreshTaken DEF Signals
<1> QED BY <1>4, <1>5, <1>6, <1>7, GossipEffect

LEMMA FreshRestart ==
  ASSUME IInv, NEW c \in Browsers, Fresh(c), NEW z \in Relays, Restart(z)
  PROVE  Fresh(c)'
<1> SUFFICES ASSUME NEW x \in Relays, NEW y \in Relays
             PROVE  reg'[x][c] = None /\ remote'[x][c] = None /\ NotAbout(link'[x][y], c)
  BY DEF Fresh, NotAbout
<1>1. reg[x][c] = None /\ remote[x][c] = None /\ NotAbout(link[x][y], c)
  BY DEF Fresh
<1>2. reg'[x][c] = None /\ remote'[x][c] = None
  BY <1>1 DEF Restart, IInv, TablesType
<1>3. link'[x][y] = <<>> \/ link'[x][y] = link[x][y]
  BY DEF Restart
<1>4. NotAbout(<<>>, c)
  BY DEF NotAbout
<1> QED BY <1>1, <1>2, <1>3, <1>4

LEMMA FreshStill ==
  ASSUME NEW c \in Browsers, Fresh(c), UNCHANGED <<reg, remote, link>>
  PROVE  Fresh(c)'
BY DEF Fresh, NotAbout
-----------------------------------------------------------------------------
\* What a relay does with a frame.
LEMMA FrameEffect ==
  ASSUME IInv, NEW s \in Streams, Process(s)
  PROVE  /\ Used(s) /\ up[s] # <<>> /\ phase' = phase /\ restarts' = restarts
         /\ At(s) \in Relays /\ Owner(s) \in Browsers
         /\ \/ Head(up[s]) = "join" /\ \E msgs : Joins(s, At(s), Owner(s), msgs)
            \/ \E msgs : Departs(At(s), Owner(s), msgs)
            \/ UNCHANGED <<reg, remote, link, told>>
<1>1. /\ up[s] # <<>> /\ phase' = phase /\ restarts' = restarts
      /\ \/ Head(up[s]) = "join" /\ OnJoin(s)
         \/ Head(up[s]) = "leave" /\ OnLeave(s)
         \/ Head(up[s]) = "end" /\ OnEnd(s)
  BY DEF Process
<1>2. Used(s) /\ At(s) \in Relays /\ Owner(s) \in Browsers
  BY <1>1, TakenFirst, StreamParts
<1>3. ASSUME Departed(At(s), Owner(s), [reg[At(s)] EXCEPT ![Owner(s)] = None])
      PROVE  \E msgs : Departs(At(s), Owner(s), msgs)
  <2> DEFINE r == At(s)
             p == Owner(s)
  <2>1. Departed(r, p, [reg[r] EXCEPT ![p] = None]) /\ r \in Relays /\ p \in Browsers
    BY <1>2, <1>3
  <2> HIDE DEF r, p
  <2>2. \E msgs : Departs(r, p, msgs)
    BY <2>1, DepartEffect
  <2> QED BY <2>2 DEF r, p
<1>4. CASE Head(up[s]) = "join" /\ OnJoin(s)
  BY <1>1, <1>2, <1>4, JoinEffect
<1>5. CASE Head(up[s]) = "leave" /\ OnLeave(s)
  BY <1>1, <1>2, <1>3, <1>5 DEF OnLeave
<1>6. CASE Head(up[s]) = "end" /\ OnEnd(s)
  <2>1. CASE reg[At(s)][Owner(s)] = s
    BY <1>1, <1>2, <1>3, <1>6, <2>1 DEF OnEnd
  <2>2. CASE reg[At(s)][Owner(s)] # s
    BY <1>1, <1>2, <1>6, <2>2 DEF OnEnd
  <2> QED BY <2>1, <2>2
<1> QED BY <1>1, <1>4, <1>5, <1>6

\* Nobody hears of a peer before a relay takes a join of it.
LEMMA FreshKept ==
  ASSUME IInv, Next, NEW c \in Browsers, Unjoined(c)', Fresh(c)
  PROVE  Fresh(c)'
<1>1. \A s \in Streams : Process(s) => Owner(s) # c
  BY WasUnjoined
<1>2. ASSUME NEW s \in Streams, Process(s)
      PROVE  Fresh(c)'
  <2> DEFINE r == At(s)
             p == Owner(s)
  <2>1. /\ r \in Relays /\ p \in Browsers /\ p # c
        /\ \/ \E msgs : Joins(s, r, p, msgs)
           \/ \E msgs : Departs(r, p, msgs)
           \/ UNCHANGED <<reg, remote, link, told>>
    BY <1>1, <1>2, FrameEffect
  <2> HIDE DEF r, p
  <2>2. ASSUME NEW msgs, Joins(s, r, p, msgs)
        PROVE  Fresh(c)'
    BY <2>1, <2>2, FreshSent DEF Joins
  <2>3. ASSUME NEW msgs, Departs(r, p, msgs)
        PROVE  Fresh(c)'
    BY <2>1, <2>3, FreshSent DEF Departs
  <2> QED BY <2>1, <2>2, <2>3, FreshStill
<1>3. ASSUME NEW s \in Streams, Open(s) \/ Leave(s) \/ Break(s)
      PROVE  Fresh(c)'
  BY <1>3, FreshStill DEF Open, Leave, Break
<1> QED BY <1>2, <1>3, FreshGossip, FreshRestart DEF Next

\* What is so of a peer that uses one relay stays so.
LEMMA FaithKept ==
  ASSUME IInv, Next, \A c \in Browsers : Unjoined(c) => Fresh(c),
         NEW b \in Browsers, NEW o \in Relays, Single(b, o), Faith(b, o)
  PROVE  Faith(b, o)'
<1>1. \A t \in Streams : Used(t) => Used(t)'
  <2>1. \A t \in Streams : Used(t) => phase'[t] # "none"
    BY StreamsStay
  <2> QED BY <2>1 DEF Used
<1>2. ASSUME NEW s \in Streams, Process(s)
      PROVE  Faith(b, o)'
  <2> DEFINE r == At(s)
             p == Owner(s)
  <2>1. /\ Used(s) /\ up[s] # <<>> /\ phase' = phase /\ restarts' = restarts
        /\ r \in Relays /\ p \in Browsers /\ r = At(s) /\ p = Owner(s)
        /\ \/ Head(up[s]) = "join" /\ \E msgs : Joins(s, r, p, msgs)
           \/ \E msgs : Departs(r, p, msgs)
           \/ UNCHANGED <<reg, remote, link, told>>
    BY <1>2, FrameEffect
  <2>2. p = b => r = o
    BY <2>1 DEF Single
  <2> HIDE DEF r, p
  <2>3. ASSUME Head(up[s]) = "join", NEW msgs, Joins(s, r, p, msgs)
        PROVE  Faith(b, o)'
    BY <2>1, <2>3, JoinsFaith
  <2>4. ASSUME NEW msgs, Departs(r, p, msgs)
        PROVE  Faith(b, o)'
    BY <2>1, <2>2, <2>4, DepartsFaith
  <2>5. CASE UNCHANGED <<reg, remote, link, told>>
    BY <1>1, <2>1, <2>5, StillFaith
  <2> QED BY <2>1, <2>3, <2>4, <2>5
<1>3. ASSUME NEW s \in Streams, Open(s) \/ Leave(s) \/ Break(s)
      PROVE  Faith(b, o)'
  <2>1. UNCHANGED <<reg, remote, link, told, restarts>>
    BY <1>3 DEF Open, Leave, Break
  <2> QED BY <1>1, <2>1, StillFaith
<1>4. ASSUME NEW a \in Relays, NEW r \in Relays, Gossip(a, r)
      PROVE  Faith(b, o)'
  <2>1. /\ a # r /\ link[a][r] # <<>> /\ phase' = phase /\ restarts' = restarts
        /\ \/ \E p \in Browsers :
                Skips(a, r, p) \/ Forgets(a, r, p) \/ \E msgs : Learns(a, r, p, msgs)
           \/ \E m \in Messages : Signals(a, r, m)
    BY <1>4, GossipEffect
  <2>2. ASSUME NEW p \in Browsers, NEW msgs, Learns(a, r, p, msgs)
        PROVE  Faith(b, o)'
    BY <2>1, <2>2, LearnsFaith
  <2>3. ASSUME NEW p \in Browsers, Skips(a, r, p) \/ Forgets(a, r, p)
        PROVE  Faith(b, o)'
    BY <2>1, <2>3, SkipsFaith, ForgetsFaith
  <2>4. ASSUME NEW m \in Messages, Signals(a, r, m)
        PROVE  Faith(b, o)'
    BY <2>1, <2>4, SignalsFaith
  <2> QED BY <2>1, <2>2, <2>3, <2>4
<1>5. ASSUME NEW r \in Relays, Restart(r)
      PROVE  Faith(b, o)'
  BY <1>5, RestartFaith
<1> QED BY <1>2, <1>3, <1>4, <1>5 DEF Next

LEMMA NextFInv ==
  ASSUME IInv, FInv, [Next]_vars
  PROVE  FInv'
<1>1. CASE Next
  <2>1. ASSUME NEW c \in Browsers, Unjoined(c)'
        PROVE  Fresh(c)'
    <3>1. Unjoined(c)
      BY <1>1, <2>1, WasUnjoined
    <3> QED BY <1>1, <2>1, <3>1, FreshKept DEF FInv
  <2>2. ASSUME NEW b \in Browsers, NEW o \in Relays, Single(b, o)'
        PROVE  Faith(b, o)'
    <3>1. Single(b, o)
      BY <1>1, <2>2, WasSingle
    <3> QED BY <1>1, <3>1, FaithKept DEF FInv
  <2> QED BY <2>1, <2>2 DEF FInv
<1>2. CASE UNCHANGED vars
  <2>1. UNCHANGED <<up, phase, reg, remote, link, told, restarts>>
    BY <1>2 DEF vars
  <2>2. ASSUME NEW c \in Browsers, Unjoined(c)'
        PROVE  Fresh(c)'
    <3>1. Unjoined(c)
      BY <2>1, <2>2 DEF Unjoined, Used
    <3> QED BY <2>1, <3>1, FreshStill DEF FInv
  <2>3. ASSUME NEW b \in Browsers, NEW o \in Relays, Single(b, o)'
        PROVE  Faith(b, o)'
    <3>1. Single(b, o) /\ \A t \in Streams : Used(t) => Used(t)'
      BY <2>1, <2>3 DEF Single, Used
    <3> QED BY <2>1, <3>1, StillFaith DEF FInv
  <2> QED BY <2>2, <2>3 DEF FInv
<1> QED BY <1>1, <1>2

LEMMA InitFInv == Init => FInv
<1> SUFFICES ASSUME Init PROVE FInv
  OBVIOUS
<1>1. /\ \A r \in Relays, b \in Browsers : reg[r][b] = None /\ remote[r][b] = None
      /\ \A a, r \in Relays : link[a][r] = <<>>
      /\ None \notin Streams /\ None \notin Relays
  BY SignalingAssumption, EntriesAssumption DEF Init
<1>2. \A b : NotAbout(<<>>, b) /\ \A k, g : Swept(k, <<>>, b, g)
  BY DEF NotAbout, Swept
<1>3. \A c \in Browsers : Fresh(c)
  BY <1>1, <1>2 DEF Fresh
<1>4. ASSUME NEW b \in Browsers, NEW o \in Relays
      PROVE  Faith(b, o)
  <2>1. Own(b, o) /\ Clean(b, o)
    BY <1>1, <1>2 DEF Own, Clean, SweptAt
  <2>2. Tabled(b, o) /\ Spread(b, o) /\ ToldHere(b, o) /\ ToldThere(b, o) /\ Asked(b, o)
    BY <1>1 DEF Tabled, Spread, ToldHere, ToldThere, Asked
  <2> QED BY <2>1, <2>2 DEF Faith
<1> QED BY <1>3, <1>4 DEF FInv

LEMMA FaithInvariance == Spec => [](IInv /\ FInv)
<1>1. Init => IInv /\ FInv
  BY InitIInv, InitFInv
<1>2. IInv /\ FInv /\ [Next]_vars => (IInv /\ FInv)'
  BY NextIInv, NextFInv
<1> QED BY <1>1, <1>2, PTL DEF Spec
-----------------------------------------------------------------------------
\* The streams of the room are finitely many.
LEMMA StreamsFinite == IsFiniteSet(Streams)
<1> DEFINE T == Relays \X (1..MaxStreams)
           P == Browsers \X T
           f == [x \in P |-> <<x[1], x[2][1], x[2][2]>>]
<1>1. IsFiniteSet(P)
  <2>1. MaxStreams \in Nat /\ IsFiniteSet(Relays) /\ IsFiniteSet(Browsers)
    BY SignalingAssumption
  <2>2. IsFiniteSet(1..MaxStreams)
    BY <2>1, FS_Interval
  <2>3. IsFiniteSet(T)
    BY <2>1, <2>2, FS_Product
  <2> HIDE DEF T
  <2> QED BY <2>1, <2>3, FS_Product
<1>2. f \in Surjection(P, Streams)
  <2>1. f \in [P -> Streams]
    BY DEF Streams
  <2>2. ASSUME NEW t \in Streams PROVE \E x \in P : f[x] = t
    <3> DEFINE x == <<t[1], <<t[2], t[3]>>>>
    <3>1. x \in P /\ f[x] = <<t[1], t[2], t[3]>> /\ t = <<t[1], t[2], t[3]>>
      BY DEF Streams
    <3> QED BY <3>1
  <2> QED BY <2>1, <2>2 DEF Surjection
<1> HIDE DEF f, P
<1> QED BY <1>1, <1>2, FS_Surjection

LEMMA NewcomerAlone ==
  ASSUME NEW c, Newcomer(c), NEW s \in Streams, Owner(s) = c, Used(s)
  PROVE  Alone(c, s)
<1> DEFINE S == {t \in Streams : Owner(t) = c /\ phase[t] # "none"}
<1>1. S \subseteq Streams /\ s \in S /\ Cardinality(S) = 1
  BY DEF Used, Newcomer
<1>2. \A t \in Streams : Owner(t) = c /\ Used(t) => t \in S
  BY DEF Used
<1> HIDE DEF S
<1>3. IsFiniteSet(S)
  BY <1>1, StreamsFinite, FS_Subset
<1>4. \E x : S = {x}
  BY <1>1, <1>3, FS_Singleton
<1> QED BY <1>1, <1>2, <1>4 DEF Alone

\* What FInv says of a faithful peer.
LEMMA FaithfulFacts ==
  ASSUME IInv, FInv, NEW b \in Browsers, NEW s \in Streams, Faithful(b, s)
  PROVE  /\ At(s) \in Relays /\ reg[At(s)][b] = s
         /\ Single(b, At(s)) /\ Faith(b, At(s))
<1>1. At(s) \in Relays
  BY StreamParts
<1>2. reg[At(s)][b] = s
  BY DEF IInv, OwnRelayKeepsIt
<1>3. Single(b, At(s))
  BY DEF Faithful, Single, Used
<1> QED BY <1>1, <1>2, <1>3 DEF FInv

\* With nothing under way, what a relay is about to know it knows.
LEMMA KnownQuiet ==
  ASSUME NEW b, NEW o \in Relays, NEW r \in Relays, Quiet, KnownAt(b, o, r)
  PROVE  remote[r][b] = o
<1>1. link[o][r] = <<>>
  BY DEF Quiet
<1>2. ~ Coming(<<>>, Join(o, b), Gone(o, b))
  BY DEF Coming
<1> QED BY <1>1, <1>2 DEF KnownAt, Knows

\* A message for a peer that uses one relay comes out on its stream, whichever relay
\* is given it, once the relays have told each other all and none has restarted.
THEOREM ReachableCorrect == Spec => []FaithfulIsReachable
<1>1. IInv /\ FInv => FaithfulIsReachable
  <2> SUFFICES ASSUME IInv, FInv, Quiet, restarts = 0, NEW b \in Browsers,
                      NEW s \in Streams, NEW r \in Relays, Faithful(b, s)
               PROVE  s \in Reached(r, b)
    BY DEF FaithfulIsReachable
  <2> DEFINE o == At(s)
  <2>1. o \in Relays /\ reg[o][b] = s /\ Faith(b, o)
    BY FaithfulFacts
  <2>2. s \notin {None, Virtual}
    BY StreamParts
  <2> HIDE DEF o
  <2>3. CASE r = o
    BY <2>1, <2>2, <2>3 DEF Reached
  <2>4. CASE r # o
    <3>1. KnownAt(b, o, r)
      BY <2>1, <2>4 DEF Faith, Spread
    <3>2. remote[r][b] = o
      BY <2>1, <3>1, KnownQuiet
    <3>3. reg[r][b] = Virtual /\ remote[o][b] = None
      BY <2>1, <2>4, <3>2 DEF Faith, Tabled
    <3>4. s \in LocalTarget(o, b)
      BY <2>1, <3>3 DEF LocalTarget
    <3> QED BY <2>1, <2>4, <3>3, <3>4 DEF Reached
  <2> QED BY <2>3, <2>4
<1> QED BY <1>1, FaithInvariance, PTL

\* Whoever some relay has registered was told of every peer that uses one relay,
\* once the relays have told each other all; after restarts too, when it is new.
THEOREM IntroducedCorrect == Spec => []FaithfulIsIntroduced
<1>1. IInv /\ FInv => FaithfulIsIntroduced
  <2> SUFFICES ASSUME IInv, FInv, Quiet, NEW b \in Browsers, NEW c \in Browsers,
                      NEW s \in Streams, NEW r \in Relays, Faithful(b, s), b # c,
                      reg[r][c] \in Streams, restarts = 0 \/ Newcomer(c)
               PROVE  b \in told[reg[r][c]]
    BY DEF FaithfulIsIntroduced
  <2> DEFINE o == At(s)
  <2>1. o \in Relays /\ reg[o][b] \in Streams /\ Faith(b, o)
    BY FaithfulFacts
  <2> HIDE DEF o
  <2>2. CASE r = o
    BY <2>1, <2>2 DEF Faith, ToldHere
  <2>3. CASE r # o
    <3>1. KnownAt(b, o, r)
      <4>1. CASE restarts = 0
        BY <2>1, <2>3, <4>1 DEF Faith, Spread
      <4>2. CASE Newcomer(c)
        <5>1. Alone(c, reg[r][c])
          BY <4>2, NewcomerAlone, Types
        <5>2. ~ Has(link[r][o], Join(r, c))
          BY <2>1 DEF Quiet, Has
        <5> QED BY <2>1, <2>3, <5>1, <5>2 DEF Faith, Asked
      <4> QED BY <4>1, <4>2
    <3>2. remote[r][b] = o
      BY <2>1, <3>1, KnownQuiet
    <3> QED BY <2>1, <2>3, <3>2 DEF Faith, ToldThere
  <2> QED BY <2>2, <2>3
<1> QED BY <1>1, FaithInvariance, PTL
=============================================================================
