------------------------- MODULE DocPipelineProofs -------------------------
(***************************************************************************)
(* Proofs about DocPipeline, for every set of snapshots, every shape of    *)
(* the chain, every bound and every choice of sources.                     *)
(***************************************************************************)
EXTENDS DocPipeline, TLAPS
-----------------------------------------------------------------------------
(***************************************************************************)
(* The reducer.                                                            *)
(***************************************************************************)
LEMMA NewestType ==
  ASSUME NEW entries
  PROVE  Newest(entries) \in Cid \cup {NoCid}
BY DEF Newest, Foremost, FetchedIn

LEMMA WithNewestType ==
  ASSUME NEW x \in Chain
  PROVE  WithNewest(x) \in Chain
BY NewestType DEF WithNewest, Chain

LEMMA LargerType ==
  ASSUME NEW m \in Nat, NEW s \in Nat \cup {NoSeq}
  PROVE  Larger(m, s) \in Nat
BY DEF Larger, NoSeq

LEMMA OrType ==
  ASSUME NEW s \in Nat \cup {NoSeq}, NEW t \in Nat \cup {NoSeq}
  PROVE  /\ Or(s, t) \in Nat \cup {NoSeq}
         /\ t \in Nat => Or(s, t) \in Nat
BY DEF Or, NoSeq

LEMMA InsertType ==
  ASSUME NEW x \in Chain, NEW c \in Cid, NEW s \in Nat \cup {NoSeq},
         NEW source \in Source, NEW status \in Status
  PROVE  Insert(x, c, s, source, status) \in Chain
<1> DEFINE e == [AbsentEntry EXCEPT !.status = status, !.seq = s,
                                    !.via = {source}, !.rank = x.size]
<1>1. e \in Entry
  BY ChainAssumption DEF AbsentEntry, Entry, Chain, Status, NoSeq
<1>2. Larger(x.maxSeq, s) \in Nat
  BY LargerType DEF Chain
<1>3. Insert(x, c, s, source, status)
        = [x EXCEPT !.entries[c] = e, !.maxSeq = Larger(@, s), !.size = @ + 1]
  BY DEF Insert
<1>4. x.size + 1 \in Nat
  BY DEF Chain
<1> DEFINE n == x.size + 1
           m == Larger(x.maxSeq, s)
<1>5. Insert(x, c, s, source, status)
        = [x EXCEPT !.entries[c] = e, !.maxSeq = m, !.size = n]
  BY <1>3
<1>6. m \in Nat /\ n \in Nat
  BY <1>2, <1>4
<1> HIDE DEF e, n, m
<1> DEFINE E == [x.entries EXCEPT ![c] = e]
<1>7. E \in [Cid -> Entry]
  BY <1>1 DEF Chain
<1> HIDE DEF E
<1> DEFINE x1 == [x EXCEPT !.entries = E]
           x2 == [x1 EXCEPT !.maxSeq = m]
           x3 == [x2 EXCEPT !.size = n]
<1>8. x1 \in Chain
  BY <1>7 DEF Chain
<1>9. x2 \in Chain
  <2> HIDE DEF x1
  <2> QED BY <1>6, <1>8 DEF Chain
<1>10. x3 \in Chain
  <2> HIDE DEF x2
  <2> QED BY <1>6, <1>9 DEF Chain
<1>11. x3 = [x EXCEPT !.entries = E, !.maxSeq = m, !.size = n]
  BY DEF Chain
<1>12. x3 = [x EXCEPT !.entries[c] = e, !.maxSeq = m, !.size = n]
  BY <1>11 DEF E
<1> QED BY <1>5, <1>10, <1>12

LEMMA DiscoverType ==
  ASSUME NEW x \in Chain, NEW c \in Cid, NEW source \in Source,
         NEW block \in BOOLEAN, NEW s \in Nat \cup {NoSeq}
  PROVE  Discover(x, c, source, block, s) \in Chain
<1> DEFINE e == x.entries[c]
<1>0. e \in Entry
  BY DEF Chain
<1>1. CASE e.status = "absent"
  <2>1. Insert(x, c, s, source, IF block THEN "fetched" ELSE "unknown") \in Chain
    BY InsertType DEF Status
  <2> QED BY <1>1, <2>1, WithNewestType DEF Discover
<1>2. CASE e.status = "failed"
  <2>1. [e EXCEPT !.status = "unknown", !.attempt = 0, !.via = @ \cup {source}] \in Entry
    BY <1>0 DEF Entry, Status
  <2>2. [x EXCEPT !.entries[c] = [e EXCEPT !.status = "unknown", !.attempt = 0,
                                           !.via = @ \cup {source}]] \in Chain
    BY <2>1 DEF Chain
  <2> QED BY <1>2, <2>2, WithNewestType DEF Discover
<1>3. CASE e.status \notin {"absent", "failed"}
  <2>0. Or(e.seq, s) \in Nat \cup {NoSeq}
    BY <1>0, OrType DEF Entry
  <2>1. [e EXCEPT !.status = IF block THEN "fetched" ELSE @, !.seq = Or(@, s),
                  !.via = @ \cup {source}] \in Entry
    BY <1>0, <2>0 DEF Entry, Status
  <2>2. Larger(x.maxSeq, Or(e.seq, s)) \in Nat
    BY <2>0, LargerType DEF Chain
  <2>3. [x EXCEPT !.entries[c] = [e EXCEPT !.status = IF block THEN "fetched" ELSE @,
                                           !.seq = Or(@, s), !.via = @ \cup {source}],
                  !.maxSeq = Larger(@, Or(e.seq, s))] \in Chain
    BY <2>1, <2>2 DEF Chain
  <2> QED BY <1>3, <2>3, WithNewestType DEF Discover
<1> QED BY <1>1, <1>2, <1>3

LEMMA FetchStartType ==
  ASSUME NEW x \in Chain, NEW c \in Cid
  PROVE  FetchStart(x, c) \in Chain
<1>1. [x.entries[c] EXCEPT !.status = "fetching"] \in Entry
  BY DEF Chain, Entry, Status
<1> QED BY <1>1 DEF FetchStart, Chain

LEMMA FetchedType ==
  ASSUME NEW x \in Chain, NEW c \in Cid
  PROVE  Fetched(x, c) \in Chain
<1> DEFINE e == x.entries[c]
           seq == Or(e.seq, SeqNo[c])
           own == [x EXCEPT !.entries[c].status = "fetched",
                            !.entries[c].prev = Prev[c],
                            !.entries[c].seq = seq,
                            !.maxSeq = Larger(@, seq)]
           p == Prev[c]
<1>1. e \in Entry /\ x.maxSeq \in Nat /\ p \in Cid \cup {NoCid} /\ SeqNo[c] \in Nat
  BY ChainAssumption DEF Chain
<1>2. seq \in Nat
  BY <1>1, OrType DEF Entry
<1>3. Larger(x.maxSeq, seq) \in Nat
  BY <1>1, <1>2, LargerType
<1>4. [e EXCEPT !.status = "fetched", !.prev = p, !.seq = seq] \in Entry
  BY <1>1, <1>2 DEF Entry, Status
<1>5. own = [x EXCEPT !.entries[c] = [e EXCEPT !.status = "fetched", !.prev = p,
                                               !.seq = seq],
                      !.maxSeq = Larger(@, seq)]
  BY DEF Chain
<1>6. own \in Chain
  BY <1>3, <1>4, <1>5 DEF Chain
<1>7. ParentSeq(seq) \in Nat \cup {NoSeq}
  BY <1>2 DEF ParentSeq
<1>8. p \in Cid => Insert(own, p, ParentSeq(seq), "chain-walk", "unknown") \in Chain
  BY <1>6, <1>7, InsertType DEF Source, Status
<1>9. Fetched(x, c) =
        IF e.status = "absent" THEN x
        ELSE WithNewest(IF p # NoCid /\ own.entries[p].status = "absent"
                        THEN Insert(own, p, ParentSeq(seq), "chain-walk", "unknown")
                        ELSE own)
  BY DEF Fetched
<1> HIDE DEF e, seq, own, p
<1> QED BY <1>1, <1>6, <1>8, <1>9, WithNewestType

LEMMA FailType ==
  ASSUME NEW x \in Chain, NEW c \in Cid, NEW n \in Nat
  PROVE  Fail(x, c, n) \in Chain
<1>1. [x EXCEPT !.entries[c].status = "failed", !.entries[c].attempt = n]
        = [x EXCEPT !.entries[c] = [x.entries[c] EXCEPT !.status = "failed",
                                                        !.attempt = n]]
  BY DEF Chain
<1>2. [x.entries[c] EXCEPT !.status = "failed", !.attempt = n] \in Entry
  BY DEF Chain, Entry, Status
<1>3. [x EXCEPT !.entries[c].status = "failed", !.entries[c].attempt = n] \in Chain
  BY <1>1, <1>2 DEF Chain
<1> QED BY <1>3, WithNewestType DEF Fail

LEMMA RetryResetType ==
  ASSUME NEW x \in Chain, NEW c \in Cid
  PROVE  RetryReset(x, c) \in Chain
<1>1. [x.entries[c] EXCEPT !.status = "unknown"] \in Entry
  BY DEF Chain, Entry, Status
<1> QED BY <1>1 DEF RetryReset, Chain

LEMMA AdvanceTipType ==
  ASSUME NEW x \in Chain, NEW c \in Cid
  PROVE  AdvanceTip(x, c) \in Chain
<1> DEFINE e == x.entries[c]
           seq == Or(e.seq, SeqNo[c])
           d == IF e.status = "absent" THEN e
                ELSE [e EXCEPT !.status = "applied", !.seq = seq]
           m == Larger(x.maxSeq, seq)
<1>1. e \in Entry /\ x.maxSeq \in Nat /\ SeqNo[c] \in Nat
  BY ChainAssumption DEF Chain
<1>2. seq \in Nat
  BY <1>1, OrType DEF Entry
<1>3. m \in Nat
  BY <1>1, <1>2, LargerType
<1>4. d \in Entry
  BY <1>1, <1>2 DEF Entry, Status
<1>5. AdvanceTip(x, c) = WithNewest([x EXCEPT !.entries[c] = d, !.tip = c, !.maxSeq = m])
  BY DEF AdvanceTip
<1> HIDE DEF d, m
<1>6. [x EXCEPT !.entries[c] = d, !.tip = c, !.maxSeq = m] \in Chain
  BY <1>3, <1>4 DEF Chain
<1> QED BY <1>5, <1>6, WithNewestType

LEMMA FactCases ==
  ASSUME NEW f \in Fact
  PROVE  /\ f.cid \in Cid
         /\ \/ /\ f.type = "cid-discovered"
               /\ f.source \in Source /\ f.block \in BOOLEAN
               /\ f.seq \in Nat \cup {NoSeq}
            \/ f.type = "block-fetch-failed" /\ f.attempt \in Nat
            \/ f.type = "block-fetched"
            \/ f.type = "block-fetch-started"
            \/ f.type = "block-retry-reset"
            \/ f.type = "tip-advanced"
BY DEF Fact

LEMMA ReduceType ==
  ASSUME NEW x \in Chain, NEW f \in Fact
  PROVE  Reduce(x, f) \in Chain
BY FactCases, DiscoverType, FetchStartType, FetchedType, FailType, RetryResetType,
   AdvanceTipType DEF Reduce
-----------------------------------------------------------------------------
(***************************************************************************)
(* What one fact may change.                                               *)
(***************************************************************************)
\* No entry leaves the map, no entry becomes applied, only those of F become
\* failed, the tip stays.
Keeps(x, y, F) ==
  /\ y.tip = x.tip
  /\ \A d \in Cid :
       /\ x.entries[d].status # "absent" => y.entries[d].status # "absent"
       /\ y.entries[d].status = "applied" => x.entries[d].status = "applied"
       /\ y.entries[d].status = "failed" /\ d \notin F =>
            /\ x.entries[d].status = "failed"
            /\ y.entries[d].attempt = x.entries[d].attempt

LEMMA WithNewestKeeps ==
  ASSUME NEW x \in Chain
  PROVE  /\ WithNewest(x).entries = x.entries
         /\ WithNewest(x).tip = x.tip
         /\ WithNewest(x).newest = Newest(x.entries)
BY DEF WithNewest, Chain

LEMMA InsertKeeps ==
  ASSUME NEW x \in Chain, NEW c \in Cid, NEW s, NEW source,
         NEW status \in {"unknown", "fetched"}
  PROVE  Keeps(x, Insert(x, c, s, source, status), {})
<1> DEFINE e == [AbsentEntry EXCEPT !.status = status, !.seq = s,
                                    !.via = {source}, !.rank = x.size]
           m == Larger(x.maxSeq, s)
<1>1. e.status = status
  BY DEF AbsentEntry
<1>2. Insert(x, c, s, source, status)
        = [x EXCEPT !.entries[c] = e, !.maxSeq = m, !.size = @ + 1]
  BY DEF Insert
<1> HIDE DEF e, m
<1> QED BY <1>1, <1>2 DEF Keeps, Chain

LEMMA DiscoverKeeps ==
  ASSUME NEW x \in Chain, NEW c \in Cid, NEW source \in Source,
         NEW block \in BOOLEAN, NEW s \in Nat \cup {NoSeq}
  PROVE  /\ Keeps(x, Discover(x, c, source, block, s), {})
         /\ Discover(x, c, source, block, s).newest
              = Newest(Discover(x, c, source, block, s).entries)
<1> DEFINE e == x.entries[c]
           status == IF block THEN "fetched" ELSE "unknown"
           new == Insert(x, c, s, source, status)
           again == [e EXCEPT !.status = "unknown", !.attempt = 0,
                              !.via = @ \cup {source}]
           more == [e EXCEPT !.status = IF block THEN "fetched" ELSE @,
                             !.seq = Or(@, s), !.via = @ \cup {source}]
           m == Larger(x.maxSeq, Or(e.seq, s))
<1>0. e \in Entry
  BY DEF Chain
<1>1. CASE e.status = "absent"
  <2>1. new \in Chain /\ Keeps(x, new, {})
    BY InsertType, InsertKeeps DEF Status
  <2>2. Discover(x, c, source, block, s) = WithNewest(new)
    BY <1>1 DEF Discover
  <2> HIDE DEF new
  <2> QED BY <2>1, <2>2, WithNewestKeeps DEF Keeps
<1>2. CASE e.status = "failed"
  <2>1. again \in Entry /\ again.status = "unknown"
    BY <1>0 DEF Entry, Status
  <2>2. Discover(x, c, source, block, s) = WithNewest([x EXCEPT !.entries[c] = again])
    BY <1>2 DEF Discover
  <2> HIDE DEF again
  <2>3. /\ [x EXCEPT !.entries[c] = again] \in Chain
        /\ Keeps(x, [x EXCEPT !.entries[c] = again], {})
    <3> DEFINE z == [x EXCEPT !.entries[c] = again]
    <3>1. z \in Chain
      BY <2>1 DEF Chain
    <3>2. z.tip = x.tip /\ \A d \in Cid : z.entries[d] = IF d = c THEN again ELSE x.entries[d]
      BY DEF Chain
    <3> HIDE DEF z
    <3>3. Keeps(x, z, {})
      BY <1>2, <2>1, <3>2 DEF Keeps
    <3> QED BY <3>1, <3>3 DEF z
  <2> QED BY <2>2, <2>3, WithNewestKeeps DEF Keeps
<1>3. CASE e.status \notin {"absent", "failed"}
  <2>0. Or(e.seq, s) \in Nat \cup {NoSeq}
    BY <1>0, OrType DEF Entry
  <2>1. more \in Entry /\ more.status \in {e.status, "fetched"}
    BY <1>0, <2>0 DEF Entry, Status
  <2>2. m \in Nat
    BY <2>0, LargerType DEF Chain
  <2>3. Discover(x, c, source, block, s)
          = WithNewest([x EXCEPT !.entries[c] = more, !.maxSeq = m])
    BY <1>3 DEF Discover
  <2> HIDE DEF more, m
  <2>4. /\ [x EXCEPT !.entries[c] = more, !.maxSeq = m] \in Chain
        /\ Keeps(x, [x EXCEPT !.entries[c] = more, !.maxSeq = m], {})
    BY <1>3, <2>1, <2>2 DEF Chain, Keeps
  <2> QED BY <2>3, <2>4, WithNewestKeeps DEF Keeps
<1> QED BY <1>1, <1>2, <1>3

\* An entry without a block, before and after, does not matter to newestFetched.
LEMMA NewestIgnores ==
  ASSUME NEW entries \in [Cid -> Entry], NEW c \in Cid, NEW d \in Entry,
         entries[c].status # "fetched", d.status # "fetched"
  PROVE  Newest([entries EXCEPT ![c] = d]) = Newest(entries)
<1> DEFINE after == [entries EXCEPT ![c] = d]
<1>1. \A b \in Cid : b # c => after[b] = entries[b]
  OBVIOUS
<1>2. after[c] = d
  OBVIOUS
<1> HIDE DEF after
<1>3. FetchedIn(after) = FetchedIn(entries) /\ c \notin FetchedIn(entries)
  BY <1>1, <1>2 DEF FetchedIn
<1>4. \A b, g \in FetchedIn(entries) : Precedes(after, b, g) <=> Precedes(entries, b, g)
  BY <1>1, <1>3 DEF Precedes, FetchedIn
<1>5. Foremost(after) = Foremost(entries)
  BY <1>3, <1>4 DEF Foremost
<1>6. Newest(after) = Newest(entries)
  BY <1>5 DEF Newest
<1> QED BY <1>6 DEF after

\* A status change that neither gives nor takes a block.
LEMMA StatusKeeps ==
  ASSUME NEW x \in Chain, NEW c \in Cid, NEW t \in {"unknown", "fetching"},
         x.entries[c].status \in {"unknown", "fetching", "failed"},
         NEW y, y = [x EXCEPT !.entries[c].status = t]
  PROVE  /\ Keeps(x, y, {})
         /\ x.newest = Newest(x.entries) => y.newest = Newest(y.entries)
<1> DEFINE d == [x.entries[c] EXCEPT !.status = t]
<1>1. d \in Entry /\ d.status = t
  BY DEF Chain, Entry, Status
<1>2. y = [x EXCEPT !.entries[c] = d]
  BY DEF Chain
<1> HIDE DEF d
<1>3. y.entries = [x.entries EXCEPT ![c] = d] /\ y.newest = x.newest /\ y.tip = x.tip
  BY <1>2 DEF Chain
<1>4. Newest(y.entries) = Newest(x.entries)
  BY <1>1, <1>3, NewestIgnores DEF Chain
<1>5. Keeps(x, y, {})
  BY <1>1, <1>3 DEF Keeps, Chain
<1> QED BY <1>3, <1>4, <1>5

LEMMA FetchedKeeps ==
  ASSUME NEW x \in Chain, NEW c \in Cid
  PROVE  /\ Keeps(x, Fetched(x, c), {})
         /\ Fetched(x, c).entries[c].status # "failed"
         /\ x.newest = Newest(x.entries)
              => Fetched(x, c).newest = Newest(Fetched(x, c).entries)
<1> DEFINE e == x.entries[c]
           seq == Or(e.seq, SeqNo[c])
           d == [e EXCEPT !.status = "fetched", !.prev = Prev[c], !.seq = seq]
           m == Larger(x.maxSeq, seq)
           own == [x EXCEPT !.entries[c].status = "fetched",
                            !.entries[c].prev = Prev[c],
                            !.entries[c].seq = seq,
                            !.maxSeq = Larger(@, seq)]
           p == Prev[c]
           next == IF p # NoCid /\ own.entries[p].status = "absent"
                   THEN Insert(own, p, ParentSeq(seq), "chain-walk", "unknown")
                   ELSE own
<1>1. e \in Entry /\ x.maxSeq \in Nat /\ p \in Cid \cup {NoCid} /\ SeqNo[c] \in Nat
  BY ChainAssumption DEF Chain
<1>2. seq \in Nat
  BY <1>1, OrType DEF Entry
<1>3. m \in Nat
  BY <1>1, <1>2, LargerType
<1>4. d \in Entry /\ d.status = "fetched"
  BY <1>1, <1>2 DEF Entry, Status
<1>5. own = [x EXCEPT !.entries[c] = d, !.maxSeq = m]
  BY DEF Chain
<1>6. Fetched(x, c) = IF e.status = "absent" THEN x ELSE WithNewest(next)
  BY DEF Fetched
<1>7. ParentSeq(seq) \in Nat \cup {NoSeq}
  BY <1>2 DEF ParentSeq
<1>8. CASE e.status = "absent"
  BY <1>6, <1>8 DEF Keeps
<1>9. ASSUME e.status # "absent"
      PROVE  next \in Chain /\ Keeps(x, next, {}) /\ next.entries[c].status # "failed"
  <2> HIDE DEF d, m, seq, own, next
  <2>1. own \in Chain /\ Keeps(x, own, {}) /\ own.entries[c].status = "fetched"
    BY <1>3, <1>4, <1>5, <1>9 DEF Chain, Keeps
  <2> HIDE DEF e
  <2>2. CASE p # NoCid /\ own.entries[p].status = "absent"
    <3>1. next = Insert(own, p, ParentSeq(seq), "chain-walk", "unknown")
      BY <2>2 DEF next
    <3>2. next \in Chain /\ Keeps(own, next, {})
      BY <1>1, <1>7, <2>1, <2>2, <3>1, InsertType, InsertKeeps DEF Source, Status
    <3> QED BY <2>1, <3>2 DEF Keeps
  <2>3. CASE ~(p # NoCid /\ own.entries[p].status = "absent")
    BY <2>1, <2>3 DEF next
  <2> QED BY <2>2, <2>3
<1> HIDE DEF next
<1>10. CASE e.status # "absent"
  <2>1. next \in Chain /\ Keeps(x, next, {}) /\ next.entries[c].status # "failed"
    BY <1>9, <1>10
  <2> QED BY <1>6, <1>10, <2>1, WithNewestKeeps DEF Keeps
<1> QED BY <1>8, <1>10

LEMMA FailKeeps ==
  ASSUME NEW x \in Chain, NEW c \in Cid, NEW n \in Nat
  PROVE  /\ Keeps(x, Fail(x, c, n), {c})
         /\ Fail(x, c, n).newest = Newest(Fail(x, c, n).entries)
<1> DEFINE d == [x.entries[c] EXCEPT !.status = "failed", !.attempt = n]
           y == [x EXCEPT !.entries[c] = d]
<1>1. d \in Entry /\ d.status = "failed"
  BY DEF Chain, Entry, Status
<1>2. y = [x EXCEPT !.entries[c].status = "failed", !.entries[c].attempt = n]
  BY DEF Chain
<1>3. Fail(x, c, n) = WithNewest(IF x.entries[c].status = "absent" THEN x ELSE y)
  BY <1>2 DEF Fail
<1> HIDE DEF d
<1>4. y \in Chain /\ Keeps(x, y, {c}) /\ Keeps(x, x, {c})
  BY <1>1 DEF Chain, Keeps
<1> HIDE DEF y
<1> QED BY <1>3, <1>4, WithNewestKeeps DEF Keeps

\* tip-advanced is the one fact that moves the tip and marks an entry applied.
LEMMA AdvanceTipEffect ==
  ASSUME NEW x \in Chain, NEW c \in Cid
  PROVE  LET y == AdvanceTip(x, c)
         IN  /\ y.tip = c
             /\ y.newest = Newest(y.entries)
             /\ \A d \in Cid :
                  /\ d # c => y.entries[d] = x.entries[d]
                  /\ y.entries[c].status \in {"applied", "absent"}
                  /\ x.entries[c].status # "absent" => y.entries[c].status = "applied"
<1> DEFINE e == x.entries[c]
           seq == Or(e.seq, SeqNo[c])
           d == IF e.status = "absent" THEN e
                ELSE [e EXCEPT !.status = "applied", !.seq = seq]
           m == Larger(x.maxSeq, seq)
           y == [x EXCEPT !.entries[c] = d, !.tip = c, !.maxSeq = m]
<1>1. e \in Entry /\ x.maxSeq \in Nat /\ SeqNo[c] \in Nat
  BY ChainAssumption DEF Chain
<1>2. seq \in Nat
  BY <1>1, OrType DEF Entry
<1>3. m \in Nat
  BY <1>1, <1>2, LargerType
<1>4. d \in Entry /\ d.status = IF e.status = "absent" THEN "absent" ELSE "applied"
  BY <1>1, <1>2 DEF Entry, Status
<1>5. AdvanceTip(x, c) = WithNewest(y)
  BY DEF AdvanceTip
<1> HIDE DEF d, m
<1>6. y \in Chain /\ y.tip = c /\ y.entries = [x.entries EXCEPT ![c] = d]
  BY <1>3, <1>4 DEF Chain
<1> HIDE DEF y
<1>7. WithNewest(y).tip = c /\ WithNewest(y).entries = [x.entries EXCEPT ![c] = d]
      /\ WithNewest(y).newest = Newest(WithNewest(y).entries)
  BY <1>6, WithNewestKeeps
<1> QED BY <1>4, <1>5, <1>7 DEF Chain

LEMMA ReduceKeeps ==
  ASSUME NEW x \in Chain, NEW f \in Fact
  PROVE  LET y == Reduce(x, f)
         IN  /\ f.type \notin {"tip-advanced", "block-fetch-failed"} => Keeps(x, y, {})
             /\ f.type = "block-fetch-failed" => Keeps(x, y, {f.cid})
             /\ x.newest = Newest(x.entries) => y.newest = Newest(y.entries)
<1>0. f.cid \in Cid /\ Keeps(x, x, {})
  BY FactCases DEF Keeps
<1>1. CASE f.type = "cid-discovered"
  BY <1>0, <1>1, FactCases, DiscoverKeeps DEF Reduce
<1>2. CASE f.type = "block-fetch-failed"
  BY <1>0, <1>2, FactCases, FailKeeps DEF Reduce
<1>3. CASE f.type = "block-fetched"
  BY <1>0, <1>3, FetchedKeeps DEF Reduce
<1>4. CASE f.type = "block-fetch-started"
  <2> DEFINE y == FetchStart(x, f.cid)
  <2>1. Keeps(x, y, {}) /\ (x.newest = Newest(x.entries) => y.newest = Newest(y.entries))
    <3>1. CASE x.entries[f.cid].status \in {"absent", "fetched", "applied"}
      <4>1. y = x
        BY <3>1 DEF FetchStart
      <4> QED BY <1>0, <4>1
    <3>2. CASE x.entries[f.cid].status \in {"unknown", "fetching", "failed"}
      <4>1. y = [x EXCEPT !.entries[f.cid].status = "fetching"]
        BY <3>2 DEF FetchStart
      <4>2. x.entries[f.cid].status \in {"unknown", "fetching", "failed"}
        BY <3>2
      <4> HIDE DEF y
      <4> QED BY <1>0, <4>1, <4>2, StatusKeeps
    <3>3. x.entries[f.cid].status \in Status
      BY <1>0 DEF Chain, Entry
    <3> QED BY <3>1, <3>2, <3>3 DEF Status
  <2>2. Reduce(x, f) = y
    BY <1>4 DEF Reduce
  <2> HIDE DEF y
  <2> QED BY <1>4, <2>1, <2>2
<1>5. CASE f.type = "block-retry-reset"
  <2> DEFINE y == RetryReset(x, f.cid)
  <2>1. Keeps(x, y, {}) /\ (x.newest = Newest(x.entries) => y.newest = Newest(y.entries))
    <3>1. CASE x.entries[f.cid].status = "failed"
      <4>1. y = [x EXCEPT !.entries[f.cid].status = "unknown"]
        BY <3>1 DEF RetryReset
      <4>2. x.entries[f.cid].status \in {"unknown", "fetching", "failed"}
        BY <3>1
      <4> HIDE DEF y
      <4> QED BY <1>0, <4>1, <4>2, StatusKeeps
    <3>2. CASE x.entries[f.cid].status # "failed"
      <4>1. y = x
        BY <3>2 DEF RetryReset
      <4> QED BY <1>0, <4>1
    <3> QED BY <3>1, <3>2
  <2>2. Reduce(x, f) = y
    BY <1>5 DEF Reduce
  <2> HIDE DEF y
  <2> QED BY <1>5, <2>1, <2>2
<1>6. CASE f.type = "tip-advanced"
  BY <1>0, <1>6, AdvanceTipEffect DEF Reduce
<1> QED BY <1>1, <1>2, <1>3, <1>4, <1>5, <1>6, FactCases

LEMMA ReduceTip ==
  ASSUME NEW x \in Chain, NEW f \in Fact
  PROVE  LET y == Reduce(x, f)
         IN  /\ y.tip = x.tip \/ (f.type = "tip-advanced" /\ y.tip = f.cid)
             /\ \A d \in Cid :
                  /\ x.entries[d].status # "absent" => y.entries[d].status # "absent"
                  /\ y.entries[d].status = "applied" =>
                       \/ x.entries[d].status = "applied"
                       \/ f.type = "tip-advanced" /\ d = f.cid
<1>1. CASE f.type # "tip-advanced"
  BY <1>1, ReduceKeeps DEF Keeps
<1>2. CASE f.type = "tip-advanced"
  <2>1. Reduce(x, f) = AdvanceTip(x, f.cid) /\ f.cid \in Cid
    BY <1>2, FactCases DEF Reduce
  <2> QED BY <1>2, <2>1, AdvanceTipEffect
<1> QED BY <1>1, <1>2

\* A failed entry has just failed, or was failed and this fact did not concern it.
LEMMA ReduceFailed ==
  ASSUME NEW x \in Chain, NEW f \in Fact, NEW c \in Cid,
         Reduce(x, f).entries[c].status = "failed"
  PROVE  \/ f.type = "block-fetch-failed" /\ f.cid = c
         \/ /\ x.entries[c].status = "failed"
            /\ Reduce(x, f).entries[c].attempt = x.entries[c].attempt
            /\ f.cid = c => f.type \notin {"block-fetched", "tip-advanced",
                                           "block-retry-reset"}
<1>0. f.cid \in Cid
  BY FactCases
<1>1. CASE f.type = "tip-advanced"
  BY <1>0, <1>1, AdvanceTipEffect DEF Reduce
<1>2. CASE f.type = "block-fetched"
  BY <1>0, <1>2, FetchedKeeps DEF Reduce, Keeps
<1>3. CASE f.type = "block-retry-reset"
  <2>1. Reduce(x, f) = RetryReset(x, f.cid)
    BY <1>3 DEF Reduce
  <2>2. RetryReset(x, f.cid).entries[f.cid].status # "failed"
    BY <1>0 DEF RetryReset, Chain, Entry
  <2>3. Keeps(x, Reduce(x, f), {})
    BY <1>3, ReduceKeeps
  <2> QED BY <2>1, <2>2, <2>3 DEF Keeps
<1>4. CASE f.type \in {"cid-discovered", "block-fetch-started", "block-fetch-failed"}
  BY <1>4, ReduceKeeps DEF Keeps
<1> QED BY <1>1, <1>2, <1>3, <1>4, FactCases
-----------------------------------------------------------------------------
(***************************************************************************)
(* Sequences.                                                              *)
(***************************************************************************)
LEMMA RemoveAtProperties ==
  ASSUME NEW S, NEW s \in Seq(S), NEW i \in 1..Len(s)
  PROVE  /\ RemoveAt(s, i) \in Seq(S)
         /\ Len(RemoveAt(s, i)) = Len(s) - 1
         /\ \A j \in 1..Len(s) - 1 :
              RemoveAt(s, i)[j] = IF j < i THEN s[j] ELSE s[j + 1]
<1> DEFINE u == SubSeq(s, 1, i - 1)
           v == SubSeq(s, i + 1, Len(s))
<1>1. u \in Seq(S) /\ Len(u) = i - 1 /\ \A j \in 1..i - 1 : u[j] = s[j]
  OBVIOUS
<1>2. v \in Seq(S) /\ Len(v) = Len(s) - i /\ \A j \in 1..Len(s) - i : v[j] = s[i + j]
  OBVIOUS
<1>3. RemoveAt(s, i) = u \o v
  BY DEF RemoveAt
<1> HIDE DEF u, v
<1> QED BY <1>1, <1>2, <1>3, SMTT(30)

\* The sequences of facts and calls one Take adds.
LEMMA PrefetchType ==
  ASSUME NEW next \in Chain, NEW f \in Fact
  PROVE  Prefetch(next, f) \in Seq(Cid)
<1> DEFINE a == Up(next, f.cid)
           b == Up(next, a)
           c == Up(next, b)
           Needed(d) == IF /\ d # NoCid
                           /\ next.entries[d].status = "unknown"
                           /\ d \notin cached
                        THEN <<d>> ELSE <<>>
<1>1. \A d \in Cid \cup {NoCid} : Up(next, d) \in Cid \cup {NoCid}
  BY DEF Up, Chain, Entry
<1>2. a \in Cid \cup {NoCid} /\ b \in Cid \cup {NoCid} /\ c \in Cid \cup {NoCid}
  BY <1>1, FactCases
<1>3. \A d \in Cid \cup {NoCid} : Needed(d) \in Seq(Cid)
  OBVIOUS
<1>4. Prefetch(next, f) = IF f.type = "tip-advanced"
                          THEN Needed(a) \o Needed(b) \o Needed(c) ELSE <<>>
  BY DEF Prefetch
<1>5. Needed(a) \in Seq(Cid) /\ Needed(b) \in Seq(Cid) /\ Needed(c) \in Seq(Cid)
  BY <1>2, <1>3
<1> HIDE DEF Needed, a, b, c
<1> QED BY <1>4, <1>5

LEMMA AutoFetchType ==
  ASSUME NEW next
  PROVE  AutoFetch(next) \in Seq(Cid)
<1>1. NewlyUnknown(next) \subseteq Cid
  BY DEF NewlyUnknown
<1> QED BY <1>1 DEF AutoFetch

LEMMA FactTypes ==
  ASSUME NEW c \in Cid
  PROVE  /\ \A source \in Source, block \in BOOLEAN, s \in Nat \cup {NoSeq} :
              DiscoveredFact(c, source, block, s) \in Fact
         /\ FetchedFact(c) \in Fact /\ StartedFact(c) \in Fact
         /\ RetryFact(c) \in Fact /\ TipFact(c) \in Fact
         /\ \A n \in Nat : FailedFact(c, n) \in Fact
BY DEF Fact, DiscoveredFact, FetchedFact, StartedFact, RetryFact, TipFact, FailedFact

LEMMA FastPathType ==
  ASSUME NEW next
  PROVE  FastPath(next) \in Seq(Fact)
<1>1. NewlyUnknown(next) \subseteq Cid
  BY DEF NewlyUnknown
<1>2. CASE NewlyUnknown(next) \cap cached = {}
  BY <1>2 DEF FastPath
<1>3. CASE NewlyUnknown(next) \cap cached # {}
  <2> DEFINE c == CHOOSE c \in NewlyUnknown(next) \cap cached : TRUE
  <2>1. c \in Cid
    BY <1>1, <1>3
  <2>2. FetchedFact(c) \in Fact
    BY <2>1, FactTypes
  <2>3. FastPath(next) = <<FetchedFact(c)>>
    BY <1>3 DEF FastPath
  <2> HIDE DEF c
  <2> QED BY <2>2, <2>3
<1> QED BY <1>2, <1>3
-----------------------------------------------------------------------------
(***************************************************************************)
(* Types.                                                                  *)
(***************************************************************************)
LEMMA TakeType ==
  ASSUME TypeOK, Take
  PROVE  TypeOK'
<1> DEFINE f == Head(queue)
           next == Reduce(ch, f)
           auto == AutoFetch(next)
           ahead == Prefetch(next, f)
           Started(s) == [i \in DOMAIN s |-> StartedFact(s[i])]
           Calls(s) == [i \in DOMAIN s |-> Dispatched(next, s[i])]
<1>1. queue \in Seq(Fact) /\ queue # <<>> /\ ch \in Chain
      /\ inflight \in Seq([cid : Cid, attempt : Nat])
  BY DEF TypeOK, Take
<1>2. f \in Fact /\ Tail(queue) \in Seq(Fact)
  BY <1>1
<1>3. next \in Chain
  BY <1>1, <1>2, ReduceType
<1>4. auto \in Seq(Cid) /\ ahead \in Seq(Cid) /\ FastPath(next) \in Seq(Fact)
  BY <1>2, <1>3, AutoFetchType, PrefetchType, FastPathType
<1>5. DecodeInline(f) \in Seq(Fact)
  <2>1. FetchedFact(f.cid) \in Fact
    BY <1>2, FactCases, FactTypes
  <2> HIDE DEF f
  <2> QED BY <2>1 DEF DecodeInline
<1>6. ASSUME NEW s \in Seq(Cid) PROVE Started(s) \in Seq(Fact)
  BY FactTypes
<1>7. ASSUME NEW s \in Seq(Cid) PROVE Calls(s) \in Seq([cid : Cid, attempt : Nat])
  <2> DEFINE R == [cid : Cid, attempt : Nat]
  <2>1. \A c \in Cid : Dispatched(next, c) \in R
    BY <1>3 DEF Dispatched, Chain, Entry
  <2> HIDE DEF next, R
  <2>2. Calls(s) \in Seq(R)
    BY <1>7, <2>1
  <2> QED BY <2>2 DEF R
<1>8. Started(auto) \in Seq(Fact) /\ Started(ahead) \in Seq(Fact)
  BY <1>4, <1>6
<1>9. Calls(auto) \in Seq([cid : Cid, attempt : Nat])
      /\ Calls(ahead) \in Seq([cid : Cid, attempt : Nat])
  BY <1>4, <1>7
<1>10. /\ ch' = next
       /\ queue' = Tail(queue) \o FastPath(next) \o Started(auto)
                     \o DecodeInline(f) \o Started(ahead)
       /\ inflight' = inflight \o Calls(auto) \o Calls(ahead)
       /\ timers' = TimersAfter(next, f)
       /\ job' = IF MustApply(next)
                 THEN [job EXCEPT !["interpreter"] =
                         [stage |-> "verify", cid |-> next.newest]]
                 ELSE job
       /\ UNCHANGED <<cached, todo, placed, sideband, contexts, codec, merged, envVars>>
  BY DEF Take
<1>11. next.newest \in Cid \cup {NoCid}
  BY <1>3 DEF Chain
<1>12. f.cid \in Cid
  BY <1>2, FactCases
<1> HIDE DEF f, next, auto, ahead, Started, Calls
<1>13. queue' \in Seq(Fact) /\ inflight' \in Seq([cid : Cid, attempt : Nat])
  BY <1>1, <1>2, <1>4, <1>5, <1>8, <1>9, <1>10
<1>14. timers' \subseteq Cid
  BY <1>10, <1>12 DEF TypeOK, TimersAfter
<1>15. job' \in [Worker -> Job]
  BY <1>10, <1>11 DEF TypeOK, Job, Worker
<1> QED BY <1>3, <1>10, <1>13, <1>14, <1>15 DEF TypeOK, envVars

LEMMA SettleType ==
  ASSUME TypeOK, NEW w \in Worker, NEW c \in Cid, NEW outcome, Settle(w, c, outcome)
  PROVE  /\ job' \in [Worker -> Job] /\ queue' \in Seq(Fact)
         /\ sideband' \in Seq(Cid) /\ contexts' \subseteq Cid
         /\ UNCHANGED <<ch, inflight, timers, todo, opened, arrivals>>
<1>1. job' \in [Worker -> Job]
  BY DEF Settle, TypeOK, Job, Idle
<1>2. queue' \in Seq(Fact)
  <2> DEFINE t == TipFact(c)
             d == DiscoveredFact(c, "catalog", TRUE, NoSeq)
  <2>1. t \in Fact /\ d \in Fact
    BY FactTypes DEF Source
  <2>2. Report(w, c, outcome)
    BY DEF Settle
  <2>3. queue \in Seq(Fact)
    BY DEF TypeOK
  <2>4. queue' = Append(queue, t) \/ queue' = Append(queue, d) \/ queue' = queue
    BY <2>2 DEF Report
  <2> HIDE DEF t, d
  <2> QED BY <2>1, <2>3, <2>4
<1>3. sideband' \in Seq(Cid) /\ contexts' \subseteq Cid
  <2>1. sideband \in Seq(Cid) /\ contexts \subseteq Cid
    BY DEF TypeOK
  <2>2. CASE Release(w, c)
    <3> DEFINE i == CHOOSE i \in 1..Len(sideband) : sideband[i] = c
    <3>1. Contains(sideband, c) => i \in 1..Len(sideband)
      BY DEF Contains
    <3>2. sideband' = IF Contains(sideband, c) THEN RemoveAt(sideband, i) ELSE sideband
      BY <2>2 DEF Release
    <3> HIDE DEF i
    <3>3. sideband' \in Seq(Cid)
      BY <2>1, <3>1, <3>2, RemoveAtProperties
    <3> QED BY <2>1, <2>2, <3>3 DEF Release
  <2>3. CASE Stash(c)
    <3> DEFINE longer == Append(sideband, c)
    <3>1. longer \in Seq(Cid) /\ Tail(longer) \in Seq(Cid)
      BY <2>1
    <3>2. sideband' \in {sideband, longer, Tail(longer)} /\ contexts' \subseteq contexts \cup {c}
      BY <2>3 DEF Stash
    <3> HIDE DEF longer
    <3> QED BY <2>1, <3>1, <3>2
  <2>4. Release(w, c) \/ Stash(c) \/ UNCHANGED <<sideband, contexts>>
    BY DEF Settle
  <2> QED BY <2>1, <2>2, <2>3, <2>4
<1> QED BY <1>1, <1>2, <1>3 DEF Settle, envVars

LEMMA IngestType ==
  ASSUME TypeOK, NEW w \in Worker, NEW c \in Cid, Ingest(w, c)
  PROVE  TypeOK'
<1>1. CASE Reject(w, c)
  BY <1>1, SettleType DEF Reject, TypeOK
<1>2. CASE Duplicate(w, c)
  BY <1>2, SettleType DEF Duplicate, TypeOK
<1>3. CASE Defer(w, c)
  BY <1>3, SettleType DEF Defer, TypeOK
<1>4. CASE PlaceNow(w, c)
  BY <1>4, SettleType DEF PlaceNow, TypeOK
<1>5. CASE StartApply(w, c)
  <2>1. job' \in [Worker -> Job]
    BY <1>5 DEF StartApply, TypeOK, Job
  <2> QED BY <1>5, <2>1 DEF StartApply, TypeOK, envVars
<1>6. CASE FailApply(w, c)
  BY <1>6, SettleType DEF FailApply, TypeOK
<1>7. CASE FinishApply(w, c)
  <2>1. merged' \in [Cid -> Nat]
    BY <1>7 DEF FinishApply, TypeOK
  <2>2. codec' \in [prev : Cid \cup {NoCid}, seq : Nat, last : Cid \cup {NoCid}]
    <3>1. SeqNo[c] + 1 \in Nat /\ codec \in [prev : Cid \cup {NoCid}, seq : Nat,
                                            last : Cid \cup {NoCid}]
      BY ChainAssumption DEF TypeOK
    <3>2. codec' = [prev |-> c, seq |-> SeqNo[c] + 1, last |-> c]
          \/ codec' = [codec EXCEPT !.last = c]
      BY <1>7 DEF FinishApply
    <3> QED BY <3>1, <3>2
  <2>3. placed' \subseteq Cid /\ UNCHANGED cached
    BY <1>7 DEF FinishApply, TypeOK
  <2> QED BY <1>7, <2>1, <2>2, <2>3, SettleType DEF FinishApply, TypeOK
<1> QED BY <1>1, <1>2, <1>3, <1>4, <1>5, <1>6, <1>7 DEF Ingest

LEMMA FetchingType ==
  ASSUME TypeOK, NEW i \in 1..Len(inflight), FetchOk(i) \/ FetchMiss(i)
  PROVE  TypeOK'
<1> DEFINE r == inflight[i]
           won == FetchedFact(r.cid)
           lost == FailedFact(r.cid, r.attempt)
<1>1. r \in [cid : Cid, attempt : Nat]
  <2> DEFINE R == [cid : Cid, attempt : Nat]
  <2>1. inflight \in Seq(R)
    BY DEF TypeOK
  <2> HIDE DEF R
  <2>2. inflight[i] \in R
    BY <2>1
  <2> QED BY <2>2 DEF R
<1>2. won \in Fact /\ lost \in Fact /\ r.cid \in Cid
  BY <1>1, FactTypes
<1>3. inflight' \in Seq([cid : Cid, attempt : Nat])
  BY RemoveAtProperties DEF FetchOk, FetchMiss, TypeOK
<1>4. queue' = Append(queue, won) \/ queue' = Append(queue, lost)
  BY DEF FetchOk, FetchMiss
<1>5. cached' = cached \cup {r.cid} \/ cached' = cached
  BY DEF FetchOk, FetchMiss
<1> HIDE DEF r, won, lost
<1>6. queue' \in Seq(Fact)
  <2>1. queue \in Seq(Fact)
    BY DEF TypeOK
  <2> QED BY <1>2, <1>4, <2>1
<1>8. cached' \subseteq Cid
  BY <1>2, <1>5 DEF TypeOK
<1>7. UNCHANGED <<ch, timers, ingestVars, envVars>>
  BY DEF FetchOk, FetchMiss
<1> QED BY <1>3, <1>6, <1>7, <1>8 DEF TypeOK, ingestVars, envVars

LEMMA RetryDueType ==
  ASSUME TypeOK, NEW c \in Cid, RetryDue(c)
  PROVE  TypeOK'
<1>1. RetryFact(c) \in Fact /\ queue \in Seq(Fact)
  BY FactTypes DEF TypeOK
<1>2. queue' \in Seq(Fact)
  BY <1>1 DEF RetryDue
<1> QED BY <1>2 DEF RetryDue, TypeOK, ingestVars, envVars

LEMMA RescanType ==
  ASSUME TypeOK, RescanStart \/ RescanNext
  PROVE  TypeOK'
<1>1. CASE RescanStart
  BY <1>1 DEF RescanStart, TypeOK, chainVars, envVars
<1>2. CASE RescanNext
  <2>1. todo \in Seq(Cid) /\ todo # <<>> /\ job \in [Worker -> Job]
    BY <1>2 DEF RescanNext, TypeOK
  <2>2. Head(todo) \in Cid /\ Tail(todo) \in Seq(Cid)
    BY <2>1
  <2>3. [stage |-> "verify", cid |-> Head(todo)] \in Job
    BY <2>2 DEF Job
  <2>4. job' \in [Worker -> Job] /\ todo' \in Seq(Cid)
    BY <1>2, <2>1, <2>2, <2>3 DEF RescanNext
  <2> QED BY <1>2, <2>4 DEF RescanNext, TypeOK, chainVars, envVars
<1> QED BY <1>1, <1>2

LEMMA DiscoveryType ==
  ASSUME TypeOK, NEW c \in Cid, NEW source \in Source, NEW block \in BOOLEAN,
         NEW s \in Nat \cup {NoSeq}, Discovery(c, source, block, s)
  PROVE  /\ queue' \in Seq(Fact) /\ cached' \subseteq Cid
         /\ UNCHANGED <<ch, inflight, timers, ingestVars>>
<1> DEFINE f == DiscoveredFact(c, source, block, s)
<1>1. f \in Fact /\ queue \in Seq(Fact) /\ queue' = Append(queue, f)
  BY FactTypes DEF TypeOK, Discovery
<1> HIDE DEF f
<1>2. queue' \in Seq(Fact)
  BY <1>1
<1> QED BY <1>2 DEF Discovery, TypeOK

LEMMA EnvironmentType ==
  ASSUME TypeOK, Environment
  PROVE  TypeOK'
<1>0. \A source : Deliver(source) => arrivals' \in Nat
  BY DEF Deliver, TypeOK
<1>1. ASSUME NEW c \in Cid, NEW block \in BOOLEAN, Gossip(c, block) PROVE TypeOK'
  <2>1. SeqNo[c] \in Nat /\ "gossipsub" \in Source
    BY ChainAssumption DEF Source
  <2> QED BY <1>0, <1>1, <2>1, DiscoveryType DEF Gossip, TypeOK, ingestVars
<1>2. ASSUME NEW c \in Cid, Ipns(c) PROVE TypeOK'
  BY <1>0, <1>2, DiscoveryType DEF Ipns, TypeOK, ingestVars, Source
<1>3. ASSUME NEW c \in Cid, HttpTip(c) PROVE TypeOK'
  <2>1. SeqNo[c] \in Nat /\ "http-tip" \in Source
    BY ChainAssumption DEF Source
  <2> QED BY <1>0, <1>3, <2>1, DiscoveryType DEF HttpTip, TypeOK, ingestVars
<1>4. ASSUME NEW c \in Cid, VersionIndex(c) PROVE TypeOK'
  <2>1. SeqNo[c] \in Nat /\ "pinner-index" \in Source
    BY ChainAssumption DEF Source
  <2> QED BY <1>0, <1>4, <2>1, DiscoveryType DEF VersionIndex, TypeOK, ingestVars
<1>5. ASSUME NEW c \in Cid, LoadVersion(c) PROVE TypeOK'
  BY <1>0, <1>5, DiscoveryType DEF LoadVersion, TypeOK, ingestVars, Source
<1>6. ASSUME NEW c \in Cid, CatalogBlock(c) PROVE TypeOK'
  <2>1. job' \in [Worker -> Job]
    BY <1>6 DEF CatalogBlock, TypeOK, Job
  <2> QED BY <1>0, <1>6, <2>1 DEF CatalogBlock, TypeOK, chainVars
<1>7. ASSUME Hydrate PROVE TypeOK'
  <2> DEFINE F(c) == DiscoveredFact(c, "cache", FALSE, SeqNo[c])
             found == [i \in DOMAIN Stored |-> F(Stored[i])]
  <2>1. found \in Seq(Fact)
    <3>1. \A c \in Cid : F(c) \in Fact
      BY ChainAssumption, FactTypes DEF Source
    <3> HIDE DEF F
    <3> QED BY <3>1, PipelineAssumption
  <2>2. queue' = queue \o found
    BY <1>7 DEF Hydrate
  <2> HIDE DEF found
  <2>3. queue' \in Seq(Fact)
    BY <2>1, <2>2 DEF TypeOK
  <2>4. opened' \subseteq Source
    BY <1>7 DEF Hydrate, TypeOK, Source
  <2> QED BY <1>7, <2>3, <2>4 DEF Hydrate, TypeOK, ingestVars
<1> QED BY <1>1, <1>2, <1>3, <1>4, <1>5, <1>6, <1>7, RescanType DEF Environment

LEMMA TypeInit ==
  ASSUME Init
  PROVE  TypeOK
<1>1. AbsentEntry \in Entry
  BY DEF AbsentEntry, Entry, Status, NoSeq
<1>2. EmptyChain \in Chain
  BY <1>1 DEF EmptyChain, Chain
<1> QED BY <1>2 DEF Init, TypeOK, Job, Idle

LEMMA TypeNext ==
  ASSUME TypeOK, [Next]_vars
  PROVE  TypeOK'
<1>1. CASE Next
  BY <1>1, EnvironmentType, TakeType, FetchingType, RetryDueType, IngestType, RescanType
     DEF Next, Fetching
<1>2. CASE UNCHANGED vars
  BY <1>2 DEF vars, chainVars, ingestVars, envVars, TypeOK
<1> QED BY <1>1, <1>2

\* Every variable keeps its type.
THEOREM TypeCorrect == Spec => []TypeOK
BY TypeInit, TypeNext, PTL DEF Spec
-----------------------------------------------------------------------------
(***************************************************************************)
(* newestFetched.                                                          *)
(***************************************************************************)
LEMMA NewestNext ==
  ASSUME TypeOK, NewestIsExact, [Next]_vars
  PROVE  NewestIsExact'
<1>1. CASE Take
  <2>1. queue \in Seq(Fact) /\ queue # <<>> /\ ch \in Chain
    BY <1>1 DEF Take, TypeOK
  <2>2. Head(queue) \in Fact
    BY <2>1
  <2>3. ch' = Reduce(ch, Head(queue))
    BY <1>1 DEF Take
  <2> QED BY <2>1, <2>2, <2>3, ReduceKeeps DEF NewestIsExact
<1>2. CASE UNCHANGED ch
  BY <1>2 DEF NewestIsExact
<1>3. Take \/ UNCHANGED ch
  <2>1. ASSUME NEW w \in Worker, NEW c \in Cid, Ingest(w, c) PROVE UNCHANGED ch
    BY <2>1 DEF Ingest, Reject, Duplicate, Defer, PlaceNow, StartApply, FailApply,
                FinishApply, Settle
  <2>2. ASSUME Environment PROVE UNCHANGED ch
    BY <2>2 DEF Environment, Gossip, Ipns, HttpTip, VersionIndex, LoadVersion,
                CatalogBlock, Hydrate, RescanStart, Discovery, chainVars
  <2> QED BY <2>1, <2>2 DEF Next, Fetching, FetchOk, FetchMiss, RetryDue, RescanNext,
                            vars, chainVars
<1> QED BY <1>1, <1>2, <1>3

\* The cached newestFetched never goes stale, although two of the six facts do not
\* recompute it.
THEOREM NewestCorrect == Spec => []NewestIsExact
<1>1. Init => NewestIsExact
  <2>1. ASSUME Init PROVE FetchedIn(ch.entries) = {}
    BY <2>1 DEF Init, EmptyChain, AbsentEntry, FetchedIn
  <2>2. ASSUME Init PROVE Newest(ch.entries) = NoCid
    BY <2>1, <2>2 DEF Newest, Foremost
  <2> QED BY <2>2 DEF Init, EmptyChain, NewestIsExact
<1> QED BY <1>1, NewestNext, TypeCorrect, PTL DEF Spec
-----------------------------------------------------------------------------
(***************************************************************************)
(* The tip.                                                                *)
(***************************************************************************)
\* Good bytes, good signature, and a parent in the chain.
Anchored(c) == c \in Genuine /\ (Prev[c] # NoCid => Prev[c] \in Known(ch))

\* TipIsSound, strengthened with where a tip comes from: a worker that decrypts
\* has passed the gates, what it finishes is placed, what is applied was placed,
\* and tip-advanced is only ever queued for a placed snapshot.
TipInv ==
  /\ \A c \in placed : Anchored(c)
  /\ \A w \in Worker : job[w].stage = "decrypt" => Anchored(job[w].cid)
  /\ \A c \in Cid : ch.entries[c].status = "applied" => c \in placed
  /\ \A i \in 1..Len(queue) : queue[i].type = "tip-advanced" => queue[i].cid \in placed
  /\ ch.tip # NoCid => ch.tip \in placed

LEMMA TipInvImplies ==
  ASSUME TipInv
  PROVE  TipIsSound
BY DEF TipInv, TipIsSound, Anchored

\* Every tip-advanced of the sequence is for a placed snapshot.
Backed(s) ==
  /\ s \in Seq(Fact)
  /\ \A i \in 1..Len(s) : s[i].type = "tip-advanced" => s[i].cid \in placed

LEMMA BackedConcat ==
  ASSUME NEW s, NEW t, Backed(s), Backed(t)
  PROVE  Backed(s \o t)
BY DEF Backed

\* Facts that are backed may be queued freely.
LEMMA QueueKeepsTipInv ==
  ASSUME TypeOK, TipInv, NEW s, Backed(s), queue' = queue \o s,
         UNCHANGED <<ch, placed>>,
         \A w \in Worker : job'[w].stage = "decrypt" => job'[w] = job[w]
  PROVE  TipInv'
<1>1. Backed(queue)
  BY DEF TypeOK, TipInv, Backed
<1>2. Backed(queue')
  BY <1>1, BackedConcat
<1>3. \A c : Anchored(c)' <=> Anchored(c)
  BY DEF Anchored, Known
<1> QED BY <1>2, <1>3 DEF TipInv, Backed

\* One fact that is not tip-advanced.
LEMMA AppendKeepsTipInv ==
  ASSUME TypeOK, TipInv, NEW f \in Fact, f.type # "tip-advanced",
         queue' = Append(queue, f), UNCHANGED <<ch, job, placed>>
  PROVE  TipInv'
<1>1. queue' = queue \o <<f>>
  BY DEF TypeOK
<1>2. Backed(<<f>>)
  BY DEF Backed
<1> QED BY <1>1, <1>2, QueueKeepsTipInv

LEMMA TakeKeepsTipInv ==
  ASSUME TypeOK, TipInv, Take
  PROVE  TipInv'
<1> DEFINE f == Head(queue)
           next == Reduce(ch, f)
           auto == AutoFetch(next)
           ahead == Prefetch(next, f)
           Started(s) == [i \in DOMAIN s |-> StartedFact(s[i])]
           Silent(s) == \A i \in 1..Len(s) : s[i].type # "tip-advanced"
<1>1. queue \in Seq(Fact) /\ queue # <<>> /\ ch \in Chain
  BY DEF TypeOK, Take
<1>2. f \in Fact /\ f = queue[1] /\ 1 \in 1..Len(queue)
  BY <1>1
<1>3. next \in Chain
  BY <1>1, <1>2, ReduceType
<1>4. f.type = "tip-advanced" => f.cid \in placed
  BY <1>2 DEF TipInv
<1>5. /\ ch' = next
      /\ queue' = Tail(queue) \o FastPath(next) \o Started(auto)
                    \o DecodeInline(f) \o Started(ahead)
      /\ \A w \in Worker : job'[w].stage = "decrypt" =>
           job[w].stage = "decrypt" /\ job'[w] = job[w]
      /\ UNCHANGED placed
  BY DEF Take, TypeOK
<1>6. \A d \in Cid : ch.entries[d].status # "absent" => ch'.entries[d].status # "absent"
  BY <1>1, <1>2, <1>5, ReduceTip
<1>7. \A c : Anchored(c) => Anchored(c)'
  BY <1>6 DEF Anchored, Known
<1>8. \A c \in Cid : ch'.entries[c].status = "applied" => c \in placed'
  <2>1. \A c \in Cid : ch'.entries[c].status = "applied" =>
          ch.entries[c].status = "applied" \/ (f.type = "tip-advanced" /\ c = f.cid)
    BY <1>1, <1>2, <1>5, ReduceTip
  <2> HIDE DEF f
  <2> QED BY <1>4, <1>5, <2>1 DEF TipInv
<1>9. ch'.tip # NoCid => ch'.tip \in placed'
  <2>1. ch'.tip = ch.tip \/ (f.type = "tip-advanced" /\ ch'.tip = f.cid)
    BY <1>1, <1>2, <1>5, ReduceTip
  <2> HIDE DEF f
  <2> QED BY <1>4, <1>5, <2>1 DEF TipInv
<1>10. Silent(FastPath(next)) /\ Silent(DecodeInline(f))
  BY DEF FastPath, DecodeInline, FetchedFact
<1>11. ASSUME NEW s \in Seq(Cid) PROVE Silent(Started(s))
  BY DEF StartedFact
<1>12. /\ auto \in Seq(Cid) /\ ahead \in Seq(Cid)
       /\ FastPath(next) \in Seq(Fact) /\ DecodeInline(f) \in Seq(Fact)
  <2>1. FetchedFact(f.cid) \in Fact
    BY <1>2, FactCases, FactTypes
  <2>2. DecodeInline(f) \in Seq(Fact)
    BY <2>1 DEF DecodeInline
  <2> QED BY <1>2, <1>3, <2>2, AutoFetchType, PrefetchType, FastPathType
<1>13. ASSUME NEW s \in Seq(Cid) PROVE Started(s) \in Seq(Fact)
  BY FactTypes
<1>14. \A i \in 1..Len(queue') : queue'[i].type = "tip-advanced" => queue'[i].cid \in placed'
  <2> DEFINE rest == Tail(queue)
             u == FastPath(next)
             v == Started(auto)
             x == DecodeInline(f)
             y == Started(ahead)
  <2>1. Backed(u) /\ Backed(v) /\ Backed(x) /\ Backed(y)
    BY <1>10, <1>11, <1>12, <1>13 DEF Backed
  <2>2. rest \in Seq(Fact) /\ \A i \in 1..Len(rest) :
          i + 1 \in 1..Len(queue) /\ rest[i] = queue[i + 1]
    BY <1>1
  <2>3. Backed(rest)
    BY <2>2 DEF TipInv, Backed
  <2>4. queue' = rest \o u \o v \o x \o y
    BY <1>5
  <2> HIDE DEF rest, u, v, x, y
  <2>5. Backed(queue')
    BY <2>1, <2>3, <2>4, BackedConcat
  <2> QED BY <1>5, <2>5 DEF Backed
<1> HIDE DEF f, next, auto, ahead, Started, Silent
<1> QED BY <1>5, <1>7, <1>8, <1>9, <1>14 DEF TipInv

\* A worker that ends with "placed" or "duplicate" has its snapshot placed.
LEMMA SettleKeepsTipInv ==
  ASSUME TypeOK, TipInv, NEW w \in Worker, NEW c \in Cid, NEW outcome,
         Settle(w, c, outcome),
         placed \subseteq placed', \A d \in placed' : Anchored(d),
         outcome \in {"placed", "duplicate"} => c \in placed'
  PROVE  TipInv'
<1>1. UNCHANGED ch
  BY DEF Settle
<1>2. \A d : Anchored(d) => Anchored(d)'
  BY <1>1 DEF Anchored, Known
<1>3. \A v \in Worker : job'[v].stage = "decrypt" => job'[v] = job[v]
  BY DEF Settle, TypeOK, Idle
<1>4. \A i \in 1..Len(queue') : queue'[i].type = "tip-advanced" => queue'[i].cid \in placed'
  <2> DEFINE t == TipFact(c)
             d == DiscoveredFact(c, "catalog", TRUE, NoSeq)
  <2>1. t.cid = c /\ d.type # "tip-advanced"
    BY DEF TipFact, DiscoveredFact
  <2>2. \/ queue' = Append(queue, t) /\ outcome \in {"placed", "duplicate"}
        \/ queue' = Append(queue, d)
        \/ queue' = queue
    BY DEF Settle, Report
  <2>3. queue \in Seq(Fact)
    BY DEF TypeOK
  <2>4. \A i \in 1..Len(queue) : queue[i].type = "tip-advanced" => queue[i].cid \in placed'
    BY DEF TipInv
  <2> HIDE DEF t, d
  <2> QED BY <2>1, <2>2, <2>3, <2>4
<1> QED BY <1>1, <1>2, <1>3, <1>4 DEF TipInv

LEMMA IngestKeepsTipInv ==
  ASSUME TypeOK, TipInv, NEW w \in Worker, NEW c \in Cid, Ingest(w, c)
  PROVE  TipInv'
<1>1. CASE Reject(w, c)
  BY <1>1, SettleKeepsTipInv DEF Reject, TipInv
<1>2. CASE Duplicate(w, c)
  BY <1>2, SettleKeepsTipInv DEF Duplicate, TipInv, IsDuplicate
<1>3. CASE Defer(w, c)
  BY <1>3, SettleKeepsTipInv DEF Defer, TipInv
<1>4. CASE PlaceNow(w, c)
  <2>1. Anchored(c)
    BY <1>4 DEF PlaceNow, Placeable, Anchored
  <2> QED BY <1>4, <2>1, SettleKeepsTipInv DEF PlaceNow, TipInv
<1>5. CASE StartApply(w, c)
  <2>1. Anchored(c)
    BY <1>5 DEF StartApply, Placeable, Anchored
  <2>2. \A d : Anchored(d)' <=> Anchored(d)
    BY <1>5 DEF StartApply, Anchored, Known
  <2>3. job[w].cid = c
    BY <1>5 DEF StartApply, Verifying
  <2>4. \A v \in Worker : job'[v].cid = job[v].cid /\ (v # w => job'[v] = job[v])
    BY <1>5 DEF StartApply, TypeOK, Job
  <2> QED BY <1>5, <2>1, <2>2, <2>3, <2>4 DEF StartApply, TipInv
<1>6. CASE FailApply(w, c)
  BY <1>6, SettleKeepsTipInv DEF FailApply, TipInv
<1>7. CASE FinishApply(w, c)
  <2>1. Anchored(c)
    BY <1>7 DEF FinishApply, TipInv
  <2> QED BY <1>7, <2>1, SettleKeepsTipInv DEF FinishApply, TipInv
<1> QED BY <1>1, <1>2, <1>3, <1>4, <1>5, <1>6, <1>7 DEF Ingest

LEMMA EnvironmentKeepsTipInv ==
  ASSUME TypeOK, TipInv, Environment
  PROVE  TipInv'
<1>1. ASSUME NEW c \in Cid, NEW source \in Source, NEW block \in BOOLEAN,
             NEW s \in Nat \cup {NoSeq}, Discovery(c, source, block, s)
      PROVE  TipInv'
  <2> DEFINE f == DiscoveredFact(c, source, block, s)
  <2>1. f \in Fact
    BY FactTypes
  <2>2. f.type # "tip-advanced"
    BY DEF DiscoveredFact
  <2>3. queue' = Append(queue, f) /\ UNCHANGED <<ch, job, placed>>
    BY <1>1 DEF Discovery, ingestVars
  <2> HIDE DEF f
  <2> QED BY <2>1, <2>2, <2>3, AppendKeepsTipInv
<1>2. ASSUME NEW c \in Cid, CatalogBlock(c) PROVE TipInv'
  <2>1. \A v \in Worker : job'[v].stage = "decrypt" => job'[v] = job[v]
    BY <1>2 DEF CatalogBlock, TypeOK
  <2>2. Backed(<<>>) /\ queue' = queue \o <<>> /\ UNCHANGED <<ch, placed>>
    BY <1>2 DEF CatalogBlock, chainVars, Backed, TypeOK
  <2> QED BY <2>1, <2>2, QueueKeepsTipInv
<1>3. ASSUME Hydrate PROVE TipInv'
  <2> DEFINE F(c) == DiscoveredFact(c, "cache", FALSE, SeqNo[c])
             found == [i \in DOMAIN Stored |-> F(Stored[i])]
  <2>1. Backed(found)
    <3>1. \A c \in Cid : F(c) \in Fact
      BY ChainAssumption, FactTypes DEF Source
    <3>2. \A c \in Cid : F(c).type # "tip-advanced"
      BY DEF DiscoveredFact
    <3> HIDE DEF F
    <3> QED BY <3>1, <3>2, PipelineAssumption DEF Backed
  <2>2. queue' = queue \o found /\ UNCHANGED <<ch, job, placed>>
    BY <1>3 DEF Hydrate, ingestVars
  <2> HIDE DEF found
  <2> QED BY <2>1, <2>2, QueueKeepsTipInv
<1>4. ASSUME RescanStart PROVE TipInv'
  <2>1. Backed(<<>>) /\ queue' = queue \o <<>> /\ UNCHANGED <<ch, placed, job>>
    BY <1>4 DEF RescanStart, chainVars, Backed, TypeOK
  <2> QED BY <2>1, QueueKeepsTipInv
<1>5. ASSUME NEW c \in Cid, NEW block \in BOOLEAN, Gossip(c, block) PROVE TipInv'
  <2>1. SeqNo[c] \in Nat /\ "gossipsub" \in Source
    BY ChainAssumption DEF Source
  <2> QED BY <1>1, <1>5, <2>1 DEF Gossip
<1>6. ASSUME NEW c \in Cid, Ipns(c) PROVE TipInv'
  BY <1>1, <1>6 DEF Ipns, Source
<1>7. ASSUME NEW c \in Cid, HttpTip(c) PROVE TipInv'
  <2>1. SeqNo[c] \in Nat /\ "http-tip" \in Source
    BY ChainAssumption DEF Source
  <2> QED BY <1>1, <1>7, <2>1 DEF HttpTip
<1>8. ASSUME NEW c \in Cid, VersionIndex(c) PROVE TipInv'
  <2>1. SeqNo[c] \in Nat /\ "pinner-index" \in Source
    BY ChainAssumption DEF Source
  <2> QED BY <1>1, <1>8, <2>1 DEF VersionIndex
<1>9. ASSUME NEW c \in Cid, LoadVersion(c) PROVE TipInv'
  BY <1>1, <1>9 DEF LoadVersion, Source
<1> QED BY <1>2, <1>3, <1>4, <1>5, <1>6, <1>7, <1>8, <1>9 DEF Environment

LEMMA TipNext ==
  ASSUME TypeOK, TipInv, [Next]_vars
  PROVE  TipInv'
<1>1. ASSUME NEW i \in 1..Len(inflight), FetchOk(i) \/ FetchMiss(i) PROVE TipInv'
  <2> DEFINE r == inflight[i]
             won == FetchedFact(r.cid)
             lost == FailedFact(r.cid, r.attempt)
             R == [cid : Cid, attempt : Nat]
  <2>1. inflight \in Seq(R)
    BY DEF TypeOK
  <2> HIDE DEF R
  <2>2. r \in R
    BY <2>1
  <2>3. won \in Fact /\ lost \in Fact
    BY <2>2, FactTypes DEF R
  <2>4. won.type # "tip-advanced" /\ lost.type # "tip-advanced"
    BY DEF FetchedFact, FailedFact
  <2>5. queue' = Append(queue, won) \/ queue' = Append(queue, lost)
    BY <1>1 DEF FetchOk, FetchMiss
  <2>6. UNCHANGED <<ch, job, placed>>
    BY <1>1 DEF FetchOk, FetchMiss, ingestVars
  <2> HIDE DEF r, won, lost
  <2> QED BY <2>3, <2>4, <2>5, <2>6, AppendKeepsTipInv
<1>2. ASSUME NEW c \in Cid, RetryDue(c) PROVE TipInv'
  <2>1. RetryFact(c) \in Fact
    BY FactTypes
  <2>2. RetryFact(c).type # "tip-advanced"
    BY DEF RetryFact
  <2>3. queue' = Append(queue, RetryFact(c)) /\ UNCHANGED <<ch, job, placed>>
    BY <1>2 DEF RetryDue, ingestVars
  <2> QED BY <2>1, <2>2, <2>3, AppendKeepsTipInv
<1>3. ASSUME RescanNext PROVE TipInv'
  <2>1. \A v \in Worker : job'[v].stage = "decrypt" => job'[v] = job[v]
    BY <1>3 DEF RescanNext, TypeOK
  <2>2. Backed(<<>>) /\ queue' = queue \o <<>> /\ UNCHANGED <<ch, placed>>
    BY <1>3 DEF RescanNext, chainVars, Backed, TypeOK
  <2> QED BY <2>1, <2>2, QueueKeepsTipInv
<1>4. CASE UNCHANGED vars
  <2>1. Backed(<<>>) /\ queue' = queue \o <<>> /\ UNCHANGED <<ch, placed, job>>
    BY <1>4 DEF vars, chainVars, ingestVars, Backed, TypeOK
  <2> QED BY <2>1, QueueKeepsTipInv
<1> QED BY <1>1, <1>2, <1>3, <1>4, EnvironmentKeepsTipInv, TakeKeepsTipInv,
           IngestKeepsTipInv DEF Next, Fetching

\* In every interleaving of announcements, fetches, catalog transfers and rescans,
\* the tip is a snapshot that passed ingestion.
THEOREM TipCorrect == Spec => []TipIsSound
<1>1. Init => TipInv
  BY DEF Init, TipInv, EmptyChain, AbsentEntry, Idle
<1> QED BY <1>1, TipNext, TipInvImplies, TypeCorrect, PTL DEF Spec
-----------------------------------------------------------------------------
(***************************************************************************)
(* The base of the next publication.                                       *)
(***************************************************************************)
\* BaseIsNewestMerged, strengthened with the codec's own seq: one more than the
\* base's, above every merged snapshot's, and 1 before the first merge.
BaseInv ==
  /\ \A w \in Worker : job[w].stage = "decrypt" => job[w].cid \in Genuine
  /\ \A c \in Cid : merged[c] > 0 => SeqNo[c] < codec.seq
  /\ codec.prev = NoCid => codec.seq = 1 /\ \A c \in Cid : merged[c] = 0
  /\ codec.prev # NoCid => merged[codec.prev] > 0 /\ codec.seq = SeqNo[codec.prev] + 1

LEMMA BaseInvImplies ==
  ASSUME TypeOK, BaseInv
  PROVE  BaseIsNewestMerged
<1> SUFFICES ASSUME NEW c \in Cid, merged[c] > 0
             PROVE  /\ codec.prev # NoCid /\ merged[codec.prev] > 0
                    /\ SeqNo[c] <= SeqNo[codec.prev]
  BY DEF BaseIsNewestMerged
<1>1. codec.prev # NoCid
  BY DEF BaseInv
<1>2. codec.prev \in Cid
  BY <1>1 DEF TypeOK
<1>3. SeqNo[c] \in Nat /\ SeqNo[codec.prev] \in Nat
  BY <1>2, ChainAssumption
<1> QED BY <1>1, <1>2, <1>3 DEF BaseInv

LEMMA BaseNext ==
  ASSUME TypeOK, BaseInv, [Next]_vars
  PROVE  BaseInv'
<1>1. ASSUME NEW w \in Worker, NEW c \in Cid, FinishApply(w, c) PROVE BaseInv'
  <2>1. c \in Genuine /\ SeqNo[c] \in Nat /\ SeqNo[c] > 0
    BY <1>1, ChainAssumption, NumberingAssumption DEF FinishApply, BaseInv
  <2>2. \A v \in Worker : job'[v].stage = "decrypt" => job'[v] = job[v]
    BY <1>1 DEF FinishApply, Settle, TypeOK, Idle
  <2>3. /\ merged \in [Cid -> Nat] /\ merged' = [merged EXCEPT ![c] = @ + 1]
        /\ codec \in [prev : Cid \cup {NoCid}, seq : Nat, last : Cid \cup {NoCid}]
    BY <1>1 DEF FinishApply, TypeOK
  <2>4. CASE SeqNo[c] >= codec.seq
    <3>1. codec'.prev = c /\ codec'.seq = SeqNo[c] + 1
      BY <1>1, <2>4 DEF FinishApply
    <3>2. \A d \in Cid : SeqNo[d] \in Nat
      BY ChainAssumption
    <3>3. \A d \in Cid : merged'[d] > 0 => SeqNo[d] < SeqNo[c] + 1
      BY <2>1, <2>3, <2>4, <3>2 DEF BaseInv
    <3> QED BY <2>1, <2>2, <2>3, <3>1, <3>3, ChainAssumption DEF BaseInv
  <2>5. CASE ~(SeqNo[c] >= codec.seq)
    <3>1. codec'.prev = codec.prev /\ codec'.seq = codec.seq
      BY <1>1, <2>3, <2>5 DEF FinishApply
    <3>2. SeqNo[c] < codec.seq /\ codec.prev # NoCid
      BY <2>1, <2>3, <2>5 DEF BaseInv
    <3>3. codec.prev \in Cid
      BY <2>3, <3>2
    <3>4. \A d \in Cid : merged'[d] > 0 => SeqNo[d] < codec.seq
      BY <2>3, <3>2 DEF BaseInv
    <3>5. merged'[codec.prev] > 0 /\ codec.seq = SeqNo[codec.prev] + 1
      BY <2>3, <3>2, <3>3 DEF BaseInv
    <3> QED BY <2>2, <3>1, <3>2, <3>4, <3>5 DEF BaseInv
  <2> QED BY <2>4, <2>5
<1>2. ASSUME NEW w \in Worker, NEW c \in Cid, Ingest(w, c), ~FinishApply(w, c)
      PROVE  BaseInv'
  <2>1. UNCHANGED <<codec, merged>>
    BY <1>2 DEF Ingest, Reject, Duplicate, Defer, PlaceNow, StartApply,
                FailApply
  <2>2. \A v \in Worker : job'[v].stage = "decrypt" =>
          job'[v] = job[v] \/ job'[v].cid \in Genuine
    <3>1. CASE StartApply(w, c)
      BY <3>1 DEF StartApply, Verifying, TypeOK, Job
    <3>2. CASE job' = [job EXCEPT ![w] = Idle]
      BY <3>2 DEF TypeOK, Idle
    <3> QED BY <1>2, <3>1, <3>2 DEF Ingest, Reject, Duplicate, Defer, PlaceNow,
                                       FailApply, Settle
  <2> QED BY <2>1, <2>2 DEF BaseInv
<1>3. ASSUME UNCHANGED <<codec, merged>>,
             \A v \in Worker : job'[v].stage = "decrypt" => job'[v] = job[v]
      PROVE  BaseInv'
  BY <1>3 DEF BaseInv
<1>4. CASE Take
  BY <1>3, <1>4 DEF Take, TypeOK
<1>5. CASE RescanNext
  BY <1>3, <1>5 DEF RescanNext, TypeOK
<1>6. CASE Environment
  <2>1. UNCHANGED <<codec, merged>> /\ (UNCHANGED job \/ \E c \in Cid : CatalogBlock(c))
    BY <1>6 DEF Environment, Gossip, Ipns, HttpTip, VersionIndex, LoadVersion,
                CatalogBlock, Hydrate, RescanStart, Discovery, ingestVars
  <2>2. \A v \in Worker : job'[v].stage = "decrypt" => job'[v] = job[v]
    BY <2>1 DEF CatalogBlock, TypeOK
  <2> QED BY <1>3, <2>1, <2>2
<1>7. CASE Fetching \/ (\E c \in Cid : RetryDue(c)) \/ UNCHANGED vars
  BY <1>3, <1>7 DEF Fetching, FetchOk, FetchMiss, RetryDue, vars, ingestVars
<1> QED BY <1>1, <1>2, <1>4, <1>5, <1>6, <1>7 DEF Next

\* Decryptions of two workers may end in either order: the next publication builds
\* on a merged snapshot that no merged snapshot is newer than.
THEOREM BaseCorrect == Spec => []BaseIsNewestMerged
<1>1. Init => BaseInv
  BY DEF Init, BaseInv, Idle
<1> QED BY <1>1, BaseNext, BaseInvImplies, TypeCorrect, PTL DEF Spec
-----------------------------------------------------------------------------
(***************************************************************************)
(* Retries.                                                                *)
(***************************************************************************)
LEMMA ConcatKeeps ==
  ASSUME NEW s \in Seq(Fact), NEW t \in Seq(Fact)
  PROVE  /\ s \o t \in Seq(Fact)
         /\ \A f : Contains(s, f) \/ Contains(t, f) => Contains(s \o t, f)
<1>1. /\ s \o t \in Seq(Fact)
      /\ \A i \in 1..Len(s) : i \in 1..Len(s \o t) /\ (s \o t)[i] = s[i]
      /\ \A i \in 1..Len(t) : /\ Len(s) + i \in 1..Len(s \o t)
                             /\ (s \o t)[Len(s) + i] = t[i]
  OBVIOUS
<1> QED BY <1>1 DEF Contains

LEMMA TakeQueue ==
  ASSUME TypeOK, Take
  PROVE  /\ Head(queue) \in Fact
         /\ ch' = Reduce(ch, Head(queue))
         /\ timers' = TimersAfter(ch', Head(queue))
         /\ \A f : Contains(queue, f) => f = Head(queue) \/ Contains(queue', f)
<1> DEFINE f == Head(queue)
           next == Reduce(ch, f)
           auto == AutoFetch(next)
           ahead == Prefetch(next, f)
           Started(s) == [i \in DOMAIN s |-> StartedFact(s[i])]
           rest == Tail(queue)
           u == FastPath(next)
           v == Started(auto)
           x == DecodeInline(f)
           y == Started(ahead)
<1>1. queue \in Seq(Fact) /\ queue # <<>> /\ ch \in Chain
  BY DEF TypeOK, Take
<1>2. f \in Fact /\ rest \in Seq(Fact)
  BY <1>1
<1>3. next \in Chain
  BY <1>1, <1>2, ReduceType
<1>4. ASSUME NEW s \in Seq(Cid) PROVE Started(s) \in Seq(Fact)
  BY FactTypes
<1>5. u \in Seq(Fact) /\ v \in Seq(Fact) /\ y \in Seq(Fact)
  BY <1>2, <1>3, <1>4, AutoFetchType, PrefetchType, FastPathType
<1>6. x \in Seq(Fact)
  <2>1. FetchedFact(f.cid) \in Fact
    BY <1>2, FactCases, FactTypes
  <2> HIDE DEF f
  <2> QED BY <2>1 DEF DecodeInline
<1>7. /\ ch' = next
      /\ timers' = TimersAfter(next, f)
      /\ queue' = rest \o u \o v \o x \o y
  BY DEF Take
<1>8. \A g : Contains(queue, g) => g = f \/ Contains(rest, g)
  <2>1. /\ Len(rest) = Len(queue) - 1
        /\ \A i \in 1..Len(queue) : IF i = 1 THEN queue[i] = f
                                  ELSE i - 1 \in 1..Len(rest) /\ queue[i] = rest[i - 1]
    BY <1>1
  <2> HIDE DEF f, rest
  <2> QED BY <2>1 DEF Contains
<1> HIDE DEF next, rest, u, v, x, y
<1>9. \A g : Contains(rest, g) => Contains(queue', g)
  BY <1>2, <1>5, <1>6, <1>7, ConcatKeeps
<1> QED BY <1>2, <1>7, <1>8, <1>9 DEF next

LEMMA RetriesNext ==
  ASSUME TypeOK, FailedIsRetried, [Next]_vars
  PROVE  FailedIsRetried'
<1>1. CASE Take
  <2> DEFINE f == Head(queue)
  <2>1. /\ f \in Fact
        /\ ch' = Reduce(ch, f)
        /\ timers' = TimersAfter(ch', f)
        /\ \A g : Contains(queue, g) => g = f \/ Contains(queue', g)
    BY <1>1, TakeQueue
  <2> HIDE DEF f
  <2>2. SUFFICES ASSUME NEW c \in Cid, ch'.entries[c].status = "failed",
                        ch'.entries[c].attempt < MaxRetries
                 PROVE  c \in timers' \/ Contains(queue', RetryFact(c))
    BY DEF FailedIsRetried, Queued, Contains
  <2>3. \/ f.type = "block-fetch-failed" /\ f.cid = c
        \/ /\ ch.entries[c].status = "failed"
           /\ ch'.entries[c].attempt = ch.entries[c].attempt
           /\ f.cid = c => f.type \notin {"block-fetched", "tip-advanced",
                                          "block-retry-reset"}
    BY <2>1, <2>2, ReduceFailed DEF TypeOK
  <2>4. CASE f.type = "block-fetch-failed" /\ f.cid = c
    BY <2>1, <2>2, <2>4 DEF TimersAfter
  <2>5. CASE /\ ch.entries[c].status = "failed"
             /\ ch'.entries[c].attempt = ch.entries[c].attempt
             /\ f.cid = c => f.type \notin {"block-fetched", "tip-advanced",
                                            "block-retry-reset"}
    <3>1. c \in timers \/ Contains(queue, RetryFact(c))
      BY <2>2, <2>5 DEF FailedIsRetried, Queued, Contains
    <3>2. c \in timers => c \in timers'
      BY <2>1, <2>5 DEF TimersAfter
    <3>3. RetryFact(c) # f
      BY <2>5 DEF RetryFact
    <3> QED BY <2>1, <3>1, <3>2, <3>3
  <2> QED BY <2>3, <2>4, <2>5
<1>2. ASSUME UNCHANGED ch, NEW t \in Seq(Fact), queue' = queue \o t,
             \A c \in Cid : c \in timers => c \in timers' \/ Contains(t, RetryFact(c))
      PROVE  FailedIsRetried'
  <2>1. queue \in Seq(Fact)
    BY DEF TypeOK
  <2>2. \A f : Contains(queue, f) \/ Contains(t, f) => Contains(queue', f)
    BY <1>2, <2>1, ConcatKeeps
  <2>3. SUFFICES ASSUME NEW c \in Cid, ch'.entries[c].status = "failed",
                        ch'.entries[c].attempt < MaxRetries
                 PROVE  c \in timers' \/ Contains(queue', RetryFact(c))
    BY DEF FailedIsRetried, Queued, Contains
  <2>4. c \in timers \/ Contains(queue, RetryFact(c))
    BY <1>2, <2>3 DEF FailedIsRetried, Queued, Contains
  <2> QED BY <1>2, <2>2, <2>4
<1>3. ASSUME UNCHANGED <<ch, timers>>, NEW t \in Seq(Fact), queue' = queue \o t
      PROVE  FailedIsRetried'
  BY <1>2, <1>3
<1>4. ASSUME UNCHANGED <<ch, timers, queue>> PROVE FailedIsRetried'
  BY <1>4 DEF FailedIsRetried, Queued
<1>5. ASSUME UNCHANGED <<ch, timers>>, NEW f \in Fact, queue' = Append(queue, f)
      PROVE  FailedIsRetried'
  <2>1. queue \in Seq(Fact)
    BY DEF TypeOK
  <2>2. queue' = queue \o <<f>> /\ <<f>> \in Seq(Fact)
    BY <1>5, <2>1
  <2> QED BY <1>3, <1>5, <2>2
<1>6. ASSUME NEW c \in Cid, RetryDue(c) PROVE FailedIsRetried'
  <2> DEFINE t == <<RetryFact(c)>>
  <2>0. queue \in Seq(Fact) /\ RetryFact(c) \in Fact /\ queue' = Append(queue, RetryFact(c))
    BY <1>6, FactTypes DEF RetryDue, TypeOK
  <2>1. t \in Seq(Fact) /\ queue' = queue \o t
    BY <2>0
  <2>2. \A d \in Cid : d \in timers => d \in timers' \/ Contains(t, RetryFact(d))
    BY <1>6 DEF RetryDue, Contains
  <2>3. UNCHANGED ch
    BY <1>6 DEF RetryDue
  <2> HIDE DEF t
  <2> QED BY <1>2, <2>1, <2>2, <2>3
<1>7. ASSUME NEW i \in 1..Len(inflight), FetchOk(i) \/ FetchMiss(i)
      PROVE  FailedIsRetried'
  <2> DEFINE r == inflight[i]
             won == FetchedFact(r.cid)
             lost == FailedFact(r.cid, r.attempt)
             R == [cid : Cid, attempt : Nat]
  <2>1. inflight \in Seq(R)
    BY DEF TypeOK
  <2> HIDE DEF R
  <2>2. r \in R
    BY <2>1
  <2>3. won \in Fact /\ lost \in Fact
    BY <2>2, FactTypes DEF R
  <2>4. queue' = Append(queue, won) \/ queue' = Append(queue, lost)
    BY <1>7 DEF FetchOk, FetchMiss
  <2>5. UNCHANGED <<ch, timers>>
    BY <1>7 DEF FetchOk, FetchMiss
  <2> HIDE DEF r, won, lost
  <2> QED BY <1>5, <2>3, <2>4, <2>5
<1>8. ASSUME NEW w \in Worker, NEW c \in Cid, Ingest(w, c) PROVE FailedIsRetried'
  <2>1. CASE StartApply(w, c)
    BY <1>4, <2>1 DEF StartApply
  <2>2. CASE \E outcome : Settle(w, c, outcome)
    <3> DEFINE t == TipFact(c)
               d == DiscoveredFact(c, "catalog", TRUE, NoSeq)
    <3>1. t \in Fact /\ d \in Fact
      BY FactTypes DEF Source
    <3>2. queue' = Append(queue, t) \/ queue' = Append(queue, d) \/ queue' = queue
      BY <2>2 DEF Settle, Report
    <3>3. UNCHANGED <<ch, timers>>
      BY <2>2 DEF Settle
    <3> HIDE DEF t, d
    <3> QED BY <1>4, <1>5, <3>1, <3>2, <3>3
  <2> QED BY <1>8, <2>1, <2>2 DEF Ingest, Reject, Duplicate, Defer, PlaceNow,
                                  FailApply, FinishApply
<1>9. ASSUME Environment PROVE FailedIsRetried'
  <2>1. ASSUME NEW c \in Cid, NEW source \in Source, NEW block \in BOOLEAN,
               NEW s \in Nat \cup {NoSeq}, Discovery(c, source, block, s)
        PROVE  FailedIsRetried'
    <3> DEFINE f == DiscoveredFact(c, source, block, s)
    <3>1. f \in Fact /\ queue' = Append(queue, f) /\ UNCHANGED <<ch, timers>>
      BY <2>1, FactTypes DEF Discovery
    <3> HIDE DEF f
    <3> QED BY <1>5, <3>1
  <2>2. ASSUME Hydrate PROVE FailedIsRetried'
    <3> DEFINE F(c) == DiscoveredFact(c, "cache", FALSE, SeqNo[c])
               found == [i \in DOMAIN Stored |-> F(Stored[i])]
    <3>1. found \in Seq(Fact)
      <4>1. \A c \in Cid : F(c) \in Fact
        BY ChainAssumption, FactTypes DEF Source
      <4> HIDE DEF F
      <4> QED BY <4>1, PipelineAssumption
    <3>2. queue' = queue \o found /\ UNCHANGED <<ch, timers>>
      BY <2>2 DEF Hydrate
    <3> HIDE DEF found
    <3> QED BY <1>3, <3>1, <3>2
  <2>3. \A c \in Cid : SeqNo[c] \in Nat
    BY ChainAssumption
  <2>4. {"gossipsub", "ipns", "http-tip", "pinner-index", "chain-walk"} \subseteq Source
    BY DEF Source
  <2>5. (RescanStart \/ \E c \in Cid : CatalogBlock(c)) => FailedIsRetried'
    BY <1>4 DEF RescanStart, CatalogBlock, chainVars
  <2>6. ASSUME NEW c \in Cid, NEW block \in BOOLEAN, Gossip(c, block)
        PROVE  FailedIsRetried'
    BY <2>1, <2>3, <2>4, <2>6 DEF Gossip
  <2>7. ASSUME NEW c \in Cid, Ipns(c) \/ HttpTip(c) \/ VersionIndex(c) \/ LoadVersion(c)
        PROVE  FailedIsRetried'
    BY <2>1, <2>3, <2>4, <2>7 DEF Ipns, HttpTip, VersionIndex, LoadVersion
  <2> QED BY <1>9, <2>2, <2>5, <2>6, <2>7 DEF Environment
<1>10. CASE RescanNext \/ UNCHANGED vars
  BY <1>4, <1>10 DEF RescanNext, vars, chainVars
<1> QED BY <1>1, <1>6, <1>7, <1>8, <1>9, <1>10 DEF Next, Fetching

\* A failed block is never forgotten while it has retries left: a timer or a retry
\* on the queue will bring it back.
THEOREM RetriesCorrect == Spec => []FailedIsRetried
<1>1. Init => FailedIsRetried
  BY DEF Init, EmptyChain, AbsentEntry, FailedIsRetried
<1> QED BY <1>1, RetriesNext, TypeCorrect, PTL DEF Spec

-----------------------------------------------------------------------------
(***************************************************************************)
(* The refinement: each step of the pipeline is a step of ChainFollower or *)
(* leaves what the follower sees unchanged.                                *)
(***************************************************************************)
\* A tip fact enters no CID into the chain.
LEMMA AdvanceTipKnown ==
  ASSUME NEW x \in Chain, NEW c \in Cid
  PROVE  Known(AdvanceTip(x, c)) = Known(x)
<1> DEFINE y == AdvanceTip(x, c)
<1>1. \A d \in Cid : d # c => y.entries[d] = x.entries[d]
  BY AdvanceTipEffect
<1>2. x.entries[c].status # "absent" => y.entries[c].status = "applied"
  BY AdvanceTipEffect
<1>3. ASSUME x.entries[c].status = "absent" PROVE y.entries[c] = x.entries[c]
  <2> DEFINE m == Larger(x.maxSeq, Or(x.entries[c].seq, SeqNo[c]))
             z == [x EXCEPT !.entries[c] = x.entries[c], !.tip = c, !.maxSeq = m]
  <2>1. y = WithNewest(z)
    BY <1>3 DEF AdvanceTip
  <2> HIDE DEF m
  <2>2. WithNewest(z).entries = x.entries
    BY DEF WithNewest, Chain
  <2> QED BY <2>1, <2>2
<1> HIDE DEF y
<1>4. \A d \in Cid : y.entries[d].status # "absent" <=> x.entries[d].status # "absent"
  BY <1>1, <1>2, <1>3
<1> QED BY <1>4 DEF Known, y

\* The interpreter learns, or shows a snapshot that is placed.
LEMMA TakeFollows ==
  ASSUME TypeOK, TipInv, Take
  PROVE  Follower!Learn \/ \E c \in Cid : Follower!Show(c)
<1> DEFINE f == Head(queue)
<1>1. queue \in Seq(Fact) /\ queue # <<>> /\ ch \in Chain
  BY DEF TypeOK, Take
<1>2. f \in Fact /\ f = queue[1] /\ 1 \in 1..Len(queue)
  BY <1>1
<1>3. f.type = "tip-advanced" => f.cid \in placed
  BY <1>2 DEF TipInv
<1>4. ch' = Reduce(ch, f) /\ UNCHANGED <<placed, merged>>
  BY DEF Take
<1> HIDE DEF f
<1>5. f.cid \in Cid
  BY <1>2, FactCases
<1>6. CASE f.type = "tip-advanced"
  <2>1. ch' = AdvanceTip(ch, f.cid)
    BY <1>4, <1>6 DEF Reduce
  <2>2. ch'.tip = f.cid /\ Known(ch') = Known(ch)
    BY <1>1, <1>5, <2>1, AdvanceTipEffect, AdvanceTipKnown
  <2> QED BY <1>3, <1>4, <1>5, <1>6, <2>2 DEF Follower!Show
<1>7. CASE f.type # "tip-advanced"
  <2>1. ch'.tip = ch.tip
    BY <1>1, <1>2, <1>4, <1>7, ReduceTip
  <2>2. \A d \in Cid : ch.entries[d].status # "absent" => ch'.entries[d].status # "absent"
    BY <1>1, <1>2, <1>4, ReduceTip
  <2>3. Known(ch) \subseteq Known(ch') /\ Known(ch') \in SUBSET Cid
    BY <2>2 DEF Known
  <2> QED BY <1>4, <2>1, <2>3 DEF Follower!Learn
<1> QED BY <1>6, <1>7

\* The gates of the ingestion: what passes them is placed, and at most merged.
LEMMA IngestFollows ==
  ASSUME TypeOK, TipInv, NEW w \in Worker, NEW c \in Cid, Ingest(w, c)
  PROVE  Follower!Place(c) \/ UNCHANGED Follower!vars
<1> DEFINE content == {d \in Cid : merged[d] > 0}
<1>1. UNCHANGED ch
  BY DEF Ingest, Reject, Duplicate, Defer, PlaceNow, StartApply, FailApply, FinishApply, Settle
<1>2. CASE UNCHANGED <<placed, merged>>
  BY <1>1, <1>2 DEF Follower!vars
<1>3. CASE PlaceNow(w, c)
  <2>1. c \in Genuine /\ (Prev[c] # NoCid => Prev[c] \in Known(ch))
    BY <1>3 DEF PlaceNow, Placeable
  <2>2. placed' = placed \cup {c} /\ content' = content
    BY <1>3 DEF PlaceNow
  <2> QED BY <1>1, <2>1, <2>2 DEF Follower!Place
<1>4. CASE FinishApply(w, c)
  <2>1. Anchored(c)
    BY <1>4 DEF FinishApply, TipInv
  <2>2. placed' = placed \cup {c}
    BY <1>4 DEF FinishApply
  <2>3. \A d \in Cid : merged'[d] > 0 <=> merged[d] > 0 \/ d = c
    BY <1>4 DEF FinishApply, TypeOK
  <2>4. content' = content \cup {c}
    BY <2>3
  <2> QED BY <1>1, <2>1, <2>2, <2>4 DEF Follower!Place, Anchored
<1> QED BY <1>2, <1>3, <1>4
        DEF Ingest, Reject, Duplicate, Defer, StartApply, FailApply

LEMMA NextFollows ==
  ASSUME TypeOK, TipInv, [Next]_vars
  PROVE  [Follower!Next]_(Follower!vars)
<1> DEFINE Same == UNCHANGED <<ch, placed, merged>>
<1>1. Same => UNCHANGED Follower!vars
  BY DEF Follower!vars
<1>2. CASE UNCHANGED vars
  BY <1>1, <1>2 DEF vars, chainVars, ingestVars
<1>3. CASE Take
  BY <1>3, TakeFollows DEF Follower!Next
<1>4. ASSUME NEW w \in Worker, NEW c \in Cid, Ingest(w, c)
      PROVE  [Follower!Next]_(Follower!vars)
  BY <1>4, IngestFollows DEF Follower!Next
<1>5. CASE Fetching
  BY <1>1, <1>5 DEF Fetching, FetchOk, FetchMiss, ingestVars
<1>6. ASSUME NEW c \in Cid, RetryDue(c) PROVE Same
  BY <1>6 DEF RetryDue, ingestVars
<1>7. CASE RescanNext
  BY <1>1, <1>7 DEF RescanNext, chainVars
<1>8. ASSUME Environment PROVE Same
  BY <1>8 DEF Environment, Gossip, Ipns, HttpTip, VersionIndex, LoadVersion, CatalogBlock,
              Hydrate, RescanStart, Discovery, chainVars, ingestVars
<1> QED BY <1>1, <1>2, <1>3, <1>4, <1>5, <1>6, <1>7, <1>8 DEF Next

LEMMA InitFollows == Init => Follower!Init
<1> SUFFICES ASSUME Init PROVE Follower!Init
  OBVIOUS
<1>1. Known(ch) = {} /\ ch.tip = NoCid /\ placed = {}
  BY DEF Init, EmptyChain, AbsentEntry, Known
<1>2. {c \in Cid : merged[c] > 0} = {}
  BY DEF Init
<1> QED BY <1>1, <1>2 DEF Follower!Init

\* The reader implements the follower: every behaviour of the pipeline, whatever
\* is announced, lost, retried, deferred or merged twice, is one of a reader that
\* only learns, places what is genuine with a known parent, and shows what it
\* placed.
THEOREM FollowerImplemented == Spec => ImplementsFollower
<1>1. Init => TipInv
  BY DEF Init, TipInv, EmptyChain, AbsentEntry, Idle
<1> QED BY <1>1, InitFollows, NextFollows, TipNext, TypeCorrect, PTL
        DEF Spec, ImplementsFollower, Follower!Spec

-----------------------------------------------------------------------------
(***************************************************************************)
(* The sideband.                                                           *)
(***************************************************************************)
\* What is stashed is in the sideband and has a context, what leaves has none.
LEMMA StashKeepsCoherence ==
  ASSUME TypeOK, SidebandIsCoherent, NEW c \in Cid, Stash(c)
  PROVE  SidebandIsCoherent'
<1> DEFINE longer == Append(sideband, c)
           n == Len(sideband)
<1>1. /\ sideband \in Seq(Cid) /\ contexts = Range(sideband) /\ n <= MaxPending
      /\ IsInjective(sideband)
  BY DEF TypeOK, SidebandIsCoherent
<1>2. MaxPending \in Nat
  BY PipelineAssumption
<1>3. CASE Contains(sideband, c)
  <2>1. c \in Range(sideband)
    BY <1>1, <1>3 DEF Contains, Range
  <2>2. UNCHANGED <<sideband, contexts>>
    BY <1>1, <1>3, <2>1 DEF Stash, Overflows
  <2> QED BY <2>2 DEF SidebandIsCoherent
<1>4. CASE ~Contains(sideband, c)
  <2>1. /\ longer \in Seq(Cid) /\ Len(longer) = n + 1 /\ longer[n + 1] = c
        /\ \A i \in 1..n : longer[i] = sideband[i]
    BY <1>1
  <2>2. \A i \in 1..n : sideband[i] # c
    BY <1>4 DEF Contains
  <2>3. n \in Nat /\ DOMAIN sideband = 1..n /\ DOMAIN longer = 1..n + 1
    BY <1>1, <2>1
  <2> HIDE DEF longer, n
  <2>4. IsInjective(longer)
    BY <1>1, <2>1, <2>2, <2>3 DEF IsInjective
  <2>5. Range(longer) = contexts \cup {c}
    BY <1>1, <2>1, <2>3 DEF Range
  <2>6. CASE n < MaxPending
    <3>1. ~Overflows(c)
      BY <1>2, <2>3, <2>6 DEF Overflows, n
    <3>2. sideband' = longer /\ contexts' = contexts \cup {c}
      BY <1>4, <3>1 DEF Stash, longer
    <3> QED BY <1>2, <2>1, <2>3, <2>4, <2>5, <2>6, <3>2 DEF SidebandIsCoherent
  <2>7. CASE n >= MaxPending
    <3> DEFINE kept == Tail(longer)
    <3>1. Overflows(c)
      BY <1>4, <2>7 DEF Overflows, n
    <3>2. sideband' = kept /\ contexts' = (contexts \cup {c}) \ {longer[1]}
      BY <1>4, <2>1, <2>3, <3>1 DEF Stash, longer
    <3>3. /\ kept \in Seq(Cid) /\ Len(kept) = n /\ DOMAIN kept = 1..n
          /\ \A i \in 1..n : kept[i] = longer[i + 1]
      BY <2>1, <2>3
    <3> HIDE DEF kept
    <3>4. IsInjective(kept)
      <4> SUFFICES ASSUME NEW a \in 1..n, NEW b \in 1..n, kept[a] = kept[b]
                   PROVE  a = b
        BY <3>3 DEF IsInjective
      <4>1. a + 1 \in DOMAIN longer /\ b + 1 \in DOMAIN longer
        BY <2>3
      <4>2. longer[a + 1] = longer[b + 1]
        BY <3>3
      <4>3. a + 1 = b + 1
        BY <2>4, <4>1, <4>2 DEF IsInjective
      <4> QED BY <2>3, <4>3
    <3>5. Range(kept) = Range(longer) \ {longer[1]}
      <4>1. \A x \in Range(kept) : x \in Range(longer) \ {longer[1]}
        BY <2>3, <2>4, <3>3 DEF IsInjective, Range
      <4>2. ASSUME NEW x \in Range(longer) \ {longer[1]} PROVE x \in Range(kept)
        <5>1. PICK i \in 1..n + 1 : x = longer[i]
          BY <2>3 DEF Range
        <5>2. i - 1 \in 1..n /\ kept[i - 1] = x
          BY <2>3, <3>3, <4>2, <5>1
        <5> QED BY <3>3, <5>2 DEF Range
      <4> QED BY <4>1, <4>2
    <3> QED BY <1>1, <2>5, <3>2, <3>3, <3>4, <3>5 DEF SidebandIsCoherent, n
  <2> QED BY <1>2, <2>3, <2>6, <2>7
<1> QED BY <1>3, <1>4

\* What is released leaves both.
LEMMA ReleaseKeepsCoherence ==
  ASSUME TypeOK, SidebandIsCoherent, NEW w \in Worker, NEW c \in Cid, Release(w, c)
  PROVE  SidebandIsCoherent'
<1> DEFINE n == Len(sideband)
<1>1. /\ sideband \in Seq(Cid) /\ contexts = Range(sideband) /\ n <= MaxPending
      /\ IsInjective(sideband) /\ n \in Nat /\ DOMAIN sideband = 1..n
  BY DEF TypeOK, SidebandIsCoherent
<1>2. CASE ~Contains(sideband, c)
  <2>1. c \notin contexts
    BY <1>1, <1>2 DEF Contains, Range
  <2>2. UNCHANGED <<sideband, contexts>>
    BY <1>2, <2>1 DEF Release
  <2> QED BY <2>2 DEF SidebandIsCoherent
<1>3. CASE Contains(sideband, c)
  <2> DEFINE i == CHOOSE i \in 1..Len(sideband) : sideband[i] = c
             rest == RemoveAt(sideband, i)
  <2>1. i \in 1..n /\ sideband[i] = c
    BY <1>3 DEF Contains
  <2>2. sideband' = rest /\ contexts' = contexts \ {c}
    BY <1>3 DEF Release
  <2> HIDE DEF i
  <2>3. /\ rest \in Seq(Cid) /\ Len(rest) = n - 1
        /\ \A j \in 1..n - 1 : rest[j] = IF j < i THEN sideband[j] ELSE sideband[j + 1]
    BY <1>1, <2>1, RemoveAtProperties
  <2>4. DOMAIN rest = 1..n - 1
    BY <1>1, <2>3
  <2> HIDE DEF rest, n
  <2>5. IsInjective(rest)
    BY <1>1, <2>1, <2>3, <2>4 DEF IsInjective
  <2>6. Range(rest) = contexts \ {c}
    <3>1. ASSUME NEW j \in 1..n - 1 PROVE rest[j] \in Range(sideband) \ {c}
      BY <1>1, <2>1, <2>3 DEF IsInjective, Range
    <3>2. ASSUME NEW x \in Range(sideband) \ {c} PROVE x \in Range(rest)
      <4>1. PICK k \in 1..n : x = sideband[k]
        BY <1>1 DEF Range
      <4>2. k # i
        BY <2>1, <3>2, <4>1
      <4>3. CASE k < i
        BY <1>1, <2>1, <2>3, <2>4, <4>1, <4>3 DEF Range
      <4>4. CASE k > i
        <5>1. k - 1 \in 1..n - 1 /\ rest[k - 1] = x
          BY <1>1, <2>1, <2>3, <4>1, <4>4
        <5> QED BY <2>4, <5>1 DEF Range
      <4> QED BY <1>1, <2>1, <4>1, <4>2, <4>3, <4>4
    <3> QED BY <1>1, <2>4, <3>1, <3>2 DEF Range
  <2>7. Len(rest) <= MaxPending
    BY <1>1, <2>3, PipelineAssumption
  <2> QED BY <2>2, <2>5, <2>6, <2>7 DEF SidebandIsCoherent
<1> QED BY <1>2, <1>3

LEMMA SidebandNext ==
  ASSUME TypeOK, SidebandIsCoherent, [Next]_vars
  PROVE  SidebandIsCoherent'
<1>1. ASSUME UNCHANGED <<sideband, contexts>> PROVE SidebandIsCoherent'
  BY <1>1 DEF SidebandIsCoherent
<1>2. ASSUME NEW w \in Worker, NEW c \in Cid, Ingest(w, c) PROVE SidebandIsCoherent'
  <2>1. CASE StartApply(w, c)
    BY <1>1, <2>1 DEF StartApply
  <2>2. ASSUME NEW outcome, Settle(w, c, outcome) PROVE SidebandIsCoherent'
    <3>1. Release(w, c) \/ Stash(c) \/ UNCHANGED <<sideband, contexts>>
      BY <2>2 DEF Settle
    <3> QED BY <1>1, <3>1, StashKeepsCoherence, ReleaseKeepsCoherence
  <2> QED BY <1>2, <2>1, <2>2 DEF Ingest, Reject, Duplicate, Defer, PlaceNow,
                                  FailApply, FinishApply
<1>3. CASE Take \/ Fetching \/ RescanNext \/ UNCHANGED vars \/ \E c \in Cid : RetryDue(c)
  BY <1>1, <1>3 DEF Take, Fetching, FetchOk, FetchMiss, RescanNext, RetryDue, vars,
                    ingestVars
<1>4. CASE Environment
  <2> QED BY <1>1, <1>4 DEF Environment, Gossip, Ipns, HttpTip, VersionIndex, LoadVersion,
             Discovery, RescanStart, Hydrate, CatalogBlock, ingestVars
<1> QED BY <1>2, <1>3, <1>4 DEF Next

\* The sideband and the contexts that rescans read agree after every step of the
\* three callers that update them, and the sideband never outgrows its cap.
THEOREM SidebandCorrect == Spec => []SidebandIsCoherent
<1>1. Init => SidebandIsCoherent
  BY PipelineAssumption DEF Init, SidebandIsCoherent, Range, IsInjective
<1> QED BY <1>1, SidebandNext, TypeCorrect, PTL DEF Spec
-----------------------------------------------------------------------------
(***************************************************************************)
(* Fetches.  First: only block-fetch-started makes an entry "fetching".    *)
(***************************************************************************)
NoNewFetch(x, y) ==
  \A d \in Cid : y.entries[d].status = "fetching" => x.entries[d].status = "fetching"

LEMMA InsertNoFetch ==
  ASSUME NEW x \in Chain, NEW c \in Cid, NEW s, NEW source,
         NEW status \in {"unknown", "fetched"}
  PROVE  NoNewFetch(x, Insert(x, c, s, source, status))
<1> DEFINE e == [AbsentEntry EXCEPT !.status = status, !.seq = s,
                                    !.via = {source}, !.rank = x.size]
           m == Larger(x.maxSeq, s)
<1>1. e.status = status
  BY DEF AbsentEntry
<1>2. Insert(x, c, s, source, status)
        = [x EXCEPT !.entries[c] = e, !.maxSeq = m, !.size = @ + 1]
  BY DEF Insert
<1> HIDE DEF e, m
<1> QED BY <1>1, <1>2 DEF NoNewFetch, Chain

\* Replacing an entry by one that is not "fetching", or by its like.
LEMMA ReplaceNoFetch ==
  ASSUME NEW x \in Chain, NEW c \in Cid, NEW e \in Entry, NEW m \in Nat,
         e.status \in {x.entries[c].status, "absent", "unknown", "fetched", "applied", "failed"},
         NEW y, y.entries = [x.entries EXCEPT ![c] = e]
  PROVE  NoNewFetch(x, y)
BY DEF NoNewFetch, Chain

LEMMA DiscoverNoFetch ==
  ASSUME NEW x \in Chain, NEW c \in Cid, NEW source \in Source,
         NEW block \in BOOLEAN, NEW s \in Nat \cup {NoSeq}
  PROVE  NoNewFetch(x, Discover(x, c, source, block, s))
<1> DEFINE e == x.entries[c]
           new == Insert(x, c, s, source, IF block THEN "fetched" ELSE "unknown")
           again == [e EXCEPT !.status = "unknown", !.attempt = 0,
                              !.via = @ \cup {source}]
           more == [e EXCEPT !.status = IF block THEN "fetched" ELSE @,
                             !.seq = Or(@, s), !.via = @ \cup {source}]
           m == Larger(x.maxSeq, Or(e.seq, s))
<1>0. e \in Entry
  BY DEF Chain
<1>1. CASE e.status = "absent"
  <2>1. new \in Chain /\ NoNewFetch(x, new)
    BY InsertType, InsertNoFetch DEF Status
  <2>2. Discover(x, c, source, block, s) = WithNewest(new)
    BY <1>1 DEF Discover
  <2> HIDE DEF new
  <2> QED BY <2>1, <2>2, WithNewestKeeps DEF NoNewFetch
<1>2. CASE e.status = "failed"
  <2>1. again \in Entry /\ again.status = "unknown"
    BY <1>0 DEF Entry, Status
  <2>2. Discover(x, c, source, block, s) = WithNewest([x EXCEPT !.entries[c] = again])
    BY <1>2 DEF Discover
  <2> HIDE DEF again
  <2>3. /\ [x EXCEPT !.entries[c] = again] \in Chain
        /\ NoNewFetch(x, [x EXCEPT !.entries[c] = again])
    BY <2>1 DEF Chain, NoNewFetch
  <2> QED BY <2>2, <2>3, WithNewestKeeps DEF NoNewFetch
<1>3. CASE e.status \notin {"absent", "failed"}
  <2>0. Or(e.seq, s) \in Nat \cup {NoSeq}
    BY <1>0, OrType DEF Entry
  <2>1. more \in Entry /\ more.status \in {e.status, "fetched"}
    BY <1>0, <2>0 DEF Entry, Status
  <2>2. m \in Nat
    BY <2>0, LargerType DEF Chain
  <2>3. Discover(x, c, source, block, s)
          = WithNewest([x EXCEPT !.entries[c] = more, !.maxSeq = m])
    BY <1>3 DEF Discover
  <2> HIDE DEF more, m
  <2>4. /\ [x EXCEPT !.entries[c] = more, !.maxSeq = m] \in Chain
        /\ NoNewFetch(x, [x EXCEPT !.entries[c] = more, !.maxSeq = m])
    BY <2>1, <2>2 DEF Chain, NoNewFetch
  <2> QED BY <2>3, <2>4, WithNewestKeeps DEF NoNewFetch
<1> QED BY <1>1, <1>2, <1>3

LEMMA FetchedNoFetch ==
  ASSUME NEW x \in Chain, NEW c \in Cid
  PROVE  /\ NoNewFetch(x, Fetched(x, c))
         /\ Fetched(x, c).entries[c].status # "fetching"
<1> DEFINE e == x.entries[c]
           seq == Or(e.seq, SeqNo[c])
           d == [e EXCEPT !.status = "fetched", !.prev = Prev[c], !.seq = seq]
           m == Larger(x.maxSeq, seq)
           own == [x EXCEPT !.entries[c].status = "fetched",
                            !.entries[c].prev = Prev[c],
                            !.entries[c].seq = seq,
                            !.maxSeq = Larger(@, seq)]
           p == Prev[c]
           next == IF p # NoCid /\ own.entries[p].status = "absent"
                   THEN Insert(own, p, ParentSeq(seq), "chain-walk", "unknown")
                   ELSE own
<1>1. e \in Entry /\ x.maxSeq \in Nat /\ p \in Cid \cup {NoCid} /\ SeqNo[c] \in Nat
  BY ChainAssumption DEF Chain
<1>2. seq \in Nat
  BY <1>1, OrType DEF Entry
<1>3. m \in Nat
  BY <1>1, <1>2, LargerType
<1>4. d \in Entry /\ d.status = "fetched"
  BY <1>1, <1>2 DEF Entry, Status
<1>5. own = [x EXCEPT !.entries[c] = d, !.maxSeq = m]
  BY DEF Chain
<1>6. Fetched(x, c) = IF e.status = "absent" THEN x ELSE WithNewest(next)
  BY DEF Fetched
<1>7. ParentSeq(seq) \in Nat \cup {NoSeq}
  BY <1>2 DEF ParentSeq
<1>8. CASE e.status = "absent"
  BY <1>6, <1>8 DEF NoNewFetch
<1>9. next \in Chain /\ NoNewFetch(x, next) /\ next.entries[c].status # "fetching"
  <2> HIDE DEF d, m, seq, own, next
  <2>1. own \in Chain /\ NoNewFetch(x, own) /\ own.entries[c].status = "fetched"
    BY <1>3, <1>4, <1>5 DEF Chain, NoNewFetch
  <2> HIDE DEF e
  <2>2. CASE p # NoCid /\ own.entries[p].status = "absent"
    <3>1. next = Insert(own, p, ParentSeq(seq), "chain-walk", "unknown")
      BY <2>2 DEF next
    <3>2. next \in Chain /\ NoNewFetch(own, next)
      BY <1>1, <1>7, <2>1, <2>2, <3>1, InsertType, InsertNoFetch DEF Source, Status
    <3> QED BY <2>1, <3>2 DEF NoNewFetch
  <2>3. CASE ~(p # NoCid /\ own.entries[p].status = "absent")
    BY <2>1, <2>3 DEF next
  <2> QED BY <2>2, <2>3
<1> HIDE DEF next
<1>10. CASE e.status # "absent"
  BY <1>6, <1>9, <1>10, WithNewestKeeps DEF NoNewFetch
<1> QED BY <1>8, <1>10

LEMMA FailNoFetch ==
  ASSUME NEW x \in Chain, NEW c \in Cid, NEW n \in Nat
  PROVE  /\ NoNewFetch(x, Fail(x, c, n))
         /\ Fail(x, c, n).entries[c].status # "fetching"
<1> DEFINE d == [x.entries[c] EXCEPT !.status = "failed", !.attempt = n]
           y == [x EXCEPT !.entries[c] = d]
<1>1. d \in Entry /\ d.status = "failed"
  BY DEF Chain, Entry, Status
<1>2. y = [x EXCEPT !.entries[c].status = "failed", !.entries[c].attempt = n]
  BY DEF Chain
<1>3. Fail(x, c, n) = WithNewest(IF x.entries[c].status = "absent" THEN x ELSE y)
  BY <1>2 DEF Fail
<1> HIDE DEF d
<1>4. y \in Chain /\ NoNewFetch(x, y) /\ y.entries[c].status = "failed"
  BY <1>1 DEF Chain, NoNewFetch
<1> HIDE DEF y
<1> QED BY <1>3, <1>4, WithNewestKeeps DEF NoNewFetch

\* An entry that is "fetching" after a fact has just been started, or was
\* "fetching" and the fact is not the end of its fetch.
LEMMA ReduceFetching ==
  ASSUME NEW x \in Chain, NEW f \in Fact, NEW c \in Cid,
         Reduce(x, f).entries[c].status = "fetching"
  PROVE  \/ f.type = "block-fetch-started" /\ f.cid = c
         \/ /\ x.entries[c].status = "fetching"
            /\ f.cid = c => f.type \notin {"block-fetched", "block-fetch-failed"}
<1>0. f.cid \in Cid
  BY FactCases
<1>1. CASE f.type = "cid-discovered"
  BY <1>1, FactCases, DiscoverNoFetch DEF Reduce, NoNewFetch
<1>2. CASE f.type = "block-fetch-failed"
  BY <1>2, FactCases, FailNoFetch DEF Reduce, NoNewFetch
<1>3. CASE f.type = "block-fetched"
  BY <1>0, <1>3, FetchedNoFetch DEF Reduce, NoNewFetch
<1>4. CASE f.type = "block-fetch-started"
  <2>1. Reduce(x, f) = FetchStart(x, f.cid)
    BY <1>4 DEF Reduce
  <2>2. f.cid # c => FetchStart(x, f.cid).entries[c] = x.entries[c]
    BY <1>0 DEF FetchStart, Chain
  <2> QED BY <1>4, <2>1, <2>2
<1>5. CASE f.type = "block-retry-reset"
  <2>1. Reduce(x, f) = RetryReset(x, f.cid)
    BY <1>5 DEF Reduce
  <2>2. f.cid # c => RetryReset(x, f.cid).entries[c] = x.entries[c]
    BY <1>0 DEF RetryReset, Chain
  <2>3. f.cid = c => RetryReset(x, c).entries[c].status \in {"unknown", x.entries[c].status}
    BY <1>0 DEF RetryReset, Chain, Entry
  <2> QED BY <1>5, <2>1, <2>2, <2>3
<1>6. CASE f.type = "tip-advanced"
  <2>1. Reduce(x, f) = AdvanceTip(x, f.cid)
    BY <1>6 DEF Reduce
  <2> QED BY <1>0, <1>6, <2>1, AdvanceTipEffect
<1> QED BY <1>1, <1>2, <1>3, <1>4, <1>5, <1>6, FactCases

-----------------------------------------------------------------------------
(***************************************************************************)
(* The invariant: FetchingIsPursued, strengthened with what is still to be *)
(* read from the queue.  A start on the queue will make its entry          *)
(* "fetching", so its call is open, or its result is on the queue behind   *)
(* it.                                                                     *)
(***************************************************************************)
Calling == {inflight[i].cid : i \in 1..Len(inflight)}

Ends(f, c) == f.cid = c /\ f.type \in {"block-fetched", "block-fetch-failed"}

EndsAfter(i, c) == \E j \in 1..Len(queue) : j > i /\ Ends(queue[j], c)

FetchInv ==
  /\ \A c \in Cid : ch.entries[c].status = "fetching" => c \in Calling \/ EndsAfter(0, c)
  /\ \A i \in 1..Len(queue) : queue[i].type = "block-fetch-started" =>
       queue[i].cid \in Calling \/ EndsAfter(i, queue[i].cid)

LEMMA FetchInvImplies ==
  ASSUME FetchInv
  PROVE  FetchingIsPursued
BY DEF FetchInv, FetchingIsPursued, Calling, EndsAfter, Ends

\* Facts that start nothing may be queued freely.
LEMMA QueueKeepsFetchInv ==
  ASSUME TypeOK, FetchInv, NEW s \in Seq(Fact), queue' = queue \o s,
         \A i \in 1..Len(s) : s[i].type # "block-fetch-started",
         UNCHANGED <<ch, inflight>>
  PROVE  FetchInv'
<1>1. /\ Len(queue') = Len(queue) + Len(s) /\ Len(queue) \in Nat /\ Len(s) \in Nat
      /\ \A i \in 1..Len(queue) : queue'[i] = queue[i]
      /\ \A i \in 1..Len(queue') : i > Len(queue) =>
           i - Len(queue) \in 1..Len(s) /\ queue'[i] = s[i - Len(queue)]
  BY DEF TypeOK
<1>2. \A c : c \in Calling' <=> c \in Calling
  BY DEF Calling
<1>3. \A i, c : EndsAfter(i, c) => EndsAfter(i, c)'
  BY <1>1 DEF EndsAfter, Ends
<1>4. \A i \in 1..Len(queue') : queue'[i].type = "block-fetch-started" => i \in 1..Len(queue)
  BY <1>1
<1> QED BY <1>1, <1>2, <1>3, <1>4 DEF FetchInv

LEMMA AppendKeepsFetchInv ==
  ASSUME TypeOK, FetchInv, NEW f \in Fact, f.type # "block-fetch-started",
         queue' = Append(queue, f), UNCHANGED <<ch, inflight>>
  PROVE  FetchInv'
<1>1. queue' = queue \o <<f>> /\ <<f>> \in Seq(Fact)
  BY DEF TypeOK
<1>2. \A i \in 1..Len(<<f>>) : <<f>>[i].type # "block-fetch-started"
  OBVIOUS
<1> QED BY <1>1, <1>2, QueueKeepsFetchInv

\* A call that settles leaves its result behind everything that waits for it.
LEMMA AnswerKeepsFetchInv ==
  ASSUME TypeOK, FetchInv, NEW i \in 1..Len(inflight), FetchOk(i) \/ FetchMiss(i)
  PROVE  FetchInv'
<1> DEFINE R == [cid : Cid, attempt : Nat]
           n == Len(queue)
<1>0. PICK a : a = inflight[i].cid
  OBVIOUS
<1>1. PICK f : f \in {FetchedFact(a), FailedFact(a, inflight[i].attempt)}
               /\ queue' = Append(queue, f)
  BY <1>0 DEF FetchOk, FetchMiss
<1>2. Ends(f, a) /\ f.type # "block-fetch-started"
  BY <1>1 DEF Ends, FetchedFact, FailedFact
<1>3. /\ Len(queue') = n + 1 /\ n \in Nat /\ queue'[n + 1] = f
      /\ \A j \in 1..n : queue'[j] = queue[j]
  BY <1>1 DEF TypeOK
<1>4. inflight \in Seq(R) /\ inflight' = RemoveAt(inflight, i) /\ ch' = ch
  BY DEF TypeOK, FetchOk, FetchMiss
<1> HIDE DEF R, n
<1>5. /\ Len(inflight') = Len(inflight) - 1 /\ Len(inflight) \in Nat
      /\ \A j \in 1..Len(inflight) - 1 :
           inflight'[j] = IF j < i THEN inflight[j] ELSE inflight[j + 1]
  BY <1>4, RemoveAtProperties
<1>6. ASSUME NEW c, c \in Calling, c # a PROVE c \in Calling'
  <2>1. PICK k \in 1..Len(inflight) : inflight[k].cid = c
    BY <1>6 DEF Calling
  <2>2. k # i
    BY <1>0, <1>6, <2>1
  <2>3. CASE k < i
    <3>1. k \in 1..Len(inflight') /\ inflight'[k].cid = c
      BY <1>5, <2>1, <2>3
    <3> QED BY <3>1 DEF Calling
  <2>4. CASE k > i
    <3>1. k - 1 \in 1..Len(inflight') /\ inflight'[k - 1].cid = c
      BY <1>5, <2>1, <2>4
    <3> QED BY <3>1 DEF Calling
  <2> QED BY <1>5, <2>1, <2>2, <2>3, <2>4
<1>7. \A k, c : EndsAfter(k, c) => EndsAfter(k, c)'
  BY <1>3 DEF EndsAfter, Ends, n
<1>8. \A k \in 0..n : EndsAfter(k, a)'
  BY <1>2, <1>3 DEF EndsAfter, Ends
<1>9. \A k \in 1..Len(queue') : queue'[k].type = "block-fetch-started"
                                 => k \in 1..n /\ queue'[k] = queue[k]
  BY <1>2, <1>3
<1>10. 0 \in 0..n /\ \A k \in 1..n : k \in 0..n
  BY <1>3
<1> QED BY <1>4, <1>6, <1>7, <1>8, <1>9, <1>10 DEF FetchInv, n

\* Every start of the sequence has its call among the open ones.
Covered(s) ==
  /\ s \in Seq(Fact)
  /\ \A i \in 1..Len(s) : s[i].type = "block-fetch-started" => s[i].cid \in Calling'

\* Concatenation is associative, stated of a name for it: the prover
\* instantiates the law for a name faster than for the operator.
Cat(s, t) == s \o t

LEMMA CatAssoc ==
  ASSUME NEW S
  PROVE  \A s, t \in Seq(S) :
           Cat(s, t) \in Seq(S) /\ \A r \in Seq(S) : Cat(Cat(s, t), r) = Cat(s, Cat(t, r))
BY DEF Cat

LEMMA CoveredConcat ==
  ASSUME NEW s, NEW t, Covered(s), Covered(t)
  PROVE  Covered(s \o t)
<1>1. s \in Seq(Fact) /\ t \in Seq(Fact)
  BY DEF Covered
<1>2. /\ s \o t \in Seq(Fact) /\ Len(s \o t) = Len(s) + Len(t)
      /\ \A i \in 1..Len(s \o t) :
           \/ i \in 1..Len(s) /\ (s \o t)[i] = s[i]
           \/ i - Len(s) \in 1..Len(t) /\ (s \o t)[i] = t[i - Len(s)]
  BY <1>1
<1> QED BY <1>2 DEF Covered

\* What one Take queues is covered by the calls it opens.
LEMMA TakeCovers ==
  ASSUME TypeOK, Take
  PROVE  /\ Head(queue) \in Fact /\ ch' = Reduce(ch, Head(queue))
         /\ \E s : Covered(s) /\ queue' = Tail(queue) \o s
         /\ \A c : c \in Calling => c \in Calling'
<1> DEFINE f == Head(queue)
           next == Reduce(ch, f)
           auto == AutoFetch(next)
           ahead == Prefetch(next, f)
           Started(s) == [i \in DOMAIN s |-> StartedFact(s[i])]
           Calls(s) == [i \in DOMAIN s |-> Dispatched(next, s[i])]
           R == [cid : Cid, attempt : Nat]
           rest == Tail(queue)
           u == FastPath(next)
           v == Started(auto)
           x == DecodeInline(f)
           y == Started(ahead)
           g == Calls(auto)
           h == Calls(ahead)
<1>1. queue \in Seq(Fact) /\ queue # <<>> /\ ch \in Chain /\ inflight \in Seq(R)
  BY DEF TypeOK, Take
<1>2. f \in Fact /\ rest \in Seq(Fact)
  BY <1>1
<1>3. next \in Chain
  BY <1>1, <1>2, ReduceType
<1>4. auto \in Seq(Cid) /\ ahead \in Seq(Cid) /\ u \in Seq(Fact)
  BY <1>2, <1>3, AutoFetchType, PrefetchType, FastPathType
<1>5. ASSUME NEW s \in Seq(Cid)
      PROVE  /\ Started(s) \in Seq(Fact) /\ Calls(s) \in Seq(R)
             /\ Len(Started(s)) = Len(s) /\ Len(Calls(s)) = Len(s)
             /\ \A i \in 1..Len(s) : Started(s)[i].cid = Calls(s)[i].cid
  <2>1. \A c \in Cid : Dispatched(next, c) \in R /\ Dispatched(next, c).cid = c
    BY <1>3 DEF Dispatched, Chain, Entry
  <2>2. \A c \in Cid : StartedFact(c) \in Fact /\ StartedFact(c).cid = c
    BY FactTypes DEF StartedFact
  <2> HIDE DEF next, R
  <2>3. Started(s) \in Seq(Fact) /\ Len(Started(s)) = Len(s)
    BY <1>5, <2>2
  <2>4. Calls(s) \in Seq(R) /\ Len(Calls(s)) = Len(s)
    BY <1>5, <2>1
  <2>5. \A i \in 1..Len(s) : /\ s[i] \in Cid
                             /\ Started(s)[i] = StartedFact(s[i])
                             /\ Calls(s)[i] = Dispatched(next, s[i])
    BY <1>5
  <2> HIDE DEF Started, Calls
  <2> QED BY <2>1, <2>2, <2>3, <2>4, <2>5
<1>6. /\ v \in Seq(Fact) /\ y \in Seq(Fact) /\ g \in Seq(R) /\ h \in Seq(R)
      /\ Len(v) = Len(g) /\ Len(y) = Len(h)
      /\ \A i \in 1..Len(v) : v[i].cid = g[i].cid
      /\ \A i \in 1..Len(y) : y[i].cid = h[i].cid
  <2>1. v \in Seq(Fact) /\ g \in Seq(R) /\ Len(v) = Len(g) /\ \A i \in 1..Len(v) : v[i].cid = g[i].cid
    <3> HIDE DEF R, next, auto, Started, Calls
    <3>1. auto \in Seq(Cid)
      BY <1>4
    <3> QED BY <1>5, <3>1
  <2>2. y \in Seq(Fact) /\ h \in Seq(R) /\ Len(y) = Len(h) /\ \A i \in 1..Len(y) : y[i].cid = h[i].cid
    <3> HIDE DEF R, next, ahead, Started, Calls
    <3>1. ahead \in Seq(Cid)
      BY <1>4
    <3> QED BY <1>5, <3>1
  <2> HIDE DEF v, y, g, h, R
  <2> QED BY <2>1, <2>2
<1>7. /\ ch' = next
      /\ queue' = rest \o u \o v \o x \o y
      /\ inflight' = inflight \o g \o h
  BY DEF Take
<1>8. Covered(u)
  <2>1. \A i \in 1..Len(u) : u[i].type = "block-fetched"
    BY DEF FastPath, FetchedFact
  <2> HIDE DEF u
  <2> QED BY <1>4, <2>1 DEF Covered
<1>9. Covered(x)
  <2>1. FetchedFact(f.cid) \in Fact /\ FetchedFact(f.cid).type = "block-fetched"
    BY <1>2, FactCases, FactTypes DEF FetchedFact
  <2>2. x = <<>> \/ x = <<FetchedFact(f.cid)>>
    BY DEF DecodeInline
  <2> DEFINE d == FetchedFact(f.cid)
  <2>3. d \in Fact /\ d.type # "block-fetch-started" /\ (x = <<>> \/ x = <<d>>)
    BY <2>1, <2>2
  <2> HIDE DEF x, d
  <2>4. x \in Seq(Fact) /\ \A i \in 1..Len(x) : x[i] = d
    <3>1. CASE x = <<>>
      BY <3>1
    <3>2. CASE x = <<d>>
      BY <2>3, <3>2
    <3> QED BY <2>3, <3>1, <3>2
  <2> QED BY <2>3, <2>4 DEF Covered
<1> HIDE DEF f, next, rest, u, v, x, y, g, h, R
<1>10. /\ Len(inflight') = Len(inflight) + Len(g) + Len(h)
       /\ \A i \in 1..Len(inflight) : inflight'[i] = inflight[i]
       /\ \A i \in 1..Len(g) : inflight'[Len(inflight) + i] = g[i]
       /\ \A i \in 1..Len(h) : inflight'[Len(inflight) + Len(g) + i] = h[i]
       /\ Len(inflight) \in Nat /\ Len(g) \in Nat /\ Len(h) \in Nat
  BY <1>1, <1>6, <1>7
<1>11. \A c : c \in Calling => c \in Calling'
  BY <1>10 DEF Calling
<1>12. Covered(v)
  <2>1. ASSUME NEW i \in 1..Len(v) PROVE v[i].cid \in Calling'
    <3>1. Len(inflight) + i \in 1..Len(inflight')
      BY <1>6, <1>10
    <3>2. inflight'[Len(inflight) + i].cid = v[i].cid
      BY <1>6, <1>10
    <3> QED BY <3>1, <3>2 DEF Calling
  <2> QED BY <1>6, <2>1 DEF Covered
<1>13. Covered(y)
  <2>1. ASSUME NEW i \in 1..Len(y) PROVE y[i].cid \in Calling'
    <3>1. Len(inflight) + Len(g) + i \in 1..Len(inflight')
      BY <1>6, <1>10
    <3>2. inflight'[Len(inflight) + Len(g) + i].cid = y[i].cid
      BY <1>6, <1>10
    <3> QED BY <3>1, <3>2 DEF Calling
  <2> QED BY <1>6, <2>1 DEF Covered
<1>14. Covered(u \o v \o x \o y)
  BY <1>8, <1>9, <1>12, <1>13, CoveredConcat
<1>15. queue' = rest \o (u \o v \o x \o y)
  <2>1. u \in Seq(Fact) /\ v \in Seq(Fact) /\ x \in Seq(Fact) /\ y \in Seq(Fact)
    BY <1>8, <1>9, <1>12, <1>13 DEF Covered
  <2>2. Cat(Cat(Cat(Cat(rest, u), v), x), y) = Cat(rest, Cat(Cat(Cat(u, v), x), y))
    BY <1>2, <2>1, CatAssoc
  <2> QED BY <1>7, <2>2 DEF Cat
<1> QED BY <1>2, <1>7, <1>11, <1>14, <1>15 DEF f, next, rest

LEMMA TakeKeepsFetchInv ==
  ASSUME TypeOK, FetchInv, Take
  PROVE  FetchInv'
<1> DEFINE f == Head(queue)
           n == Len(queue)
<1>1. PICK s : Covered(s) /\ queue' = Tail(queue) \o s
  BY TakeCovers
<1>2. /\ f \in Fact /\ ch' = Reduce(ch, f) /\ ch \in Chain
      /\ \A c : c \in Calling => c \in Calling'
  BY TakeCovers DEF TypeOK
<1>3. queue \in Seq(Fact) /\ queue # <<>> /\ s \in Seq(Fact)
  BY <1>1 DEF TypeOK, Take, Covered
<1>4. /\ n \in Nat /\ n >= 1 /\ queue[1] = f /\ Len(s) \in Nat
      /\ Len(queue') = n - 1 + Len(s)
      /\ \A i \in 1..n - 1 : queue'[i] = queue[i + 1]
      /\ \A i \in 1..Len(s) : queue'[n - 1 + i] = s[i]
  BY <1>1, <1>3
<1> HIDE DEF f, n
<1>5. ASSUME NEW i \in 1..n, NEW c, EndsAfter(i, c) PROVE EndsAfter(i - 1, c)'
  <2>1. PICK j \in 1..n : j > i /\ Ends(queue[j], c)
    BY <1>5 DEF EndsAfter, n
  <2>2. j - 1 \in 1..Len(queue') /\ j - 1 > i - 1 /\ queue'[j - 1] = queue[j]
    BY <1>4, <2>1
  <2> QED BY <2>1, <2>2 DEF EndsAfter
<1>6. ASSUME NEW c \in Cid, ch'.entries[c].status = "fetching"
      PROVE  c \in Calling' \/ EndsAfter(0, c)'
  <2>1. CASE f.type = "block-fetch-started" /\ f.cid = c
    <3>1. c \in Calling \/ EndsAfter(1, c)
      BY <1>4, <2>1 DEF FetchInv, n
    <3>2. 1 \in 1..n /\ 1 - 1 = 0
      BY <1>4
    <3>3. EndsAfter(1, c) => EndsAfter(1 - 1, c)'
      BY <1>5, <3>2
    <3> QED BY <1>2, <3>1, <3>2, <3>3
  <2>2. CASE ch.entries[c].status = "fetching" /\ ~Ends(f, c)
    <3>1. c \in Calling \/ EndsAfter(0, c)
      BY <2>2 DEF FetchInv
    <3>2. ASSUME EndsAfter(0, c) PROVE EndsAfter(0, c)'
      <4>1. PICK j \in 1..n : Ends(queue[j], c)
        BY <3>2 DEF EndsAfter, n
      <4>2. j # 1
        BY <1>4, <2>2, <4>1
      <4>3. j - 1 \in 1..Len(queue') /\ j - 1 > 0 /\ queue'[j - 1] = queue[j]
        BY <1>4, <4>1, <4>2
      <4> QED BY <4>1, <4>3 DEF EndsAfter
    <3> QED BY <1>2, <3>1, <3>2
  <2> QED BY <1>2, <1>6, <2>1, <2>2, ReduceFetching DEF Ends
<1>7. ASSUME NEW i \in 1..Len(queue'), queue'[i].type = "block-fetch-started",
             NEW c, c = queue'[i].cid
      PROVE  c \in Calling' \/ EndsAfter(i, c)'
  <2>1. CASE i <= n - 1
    <3>1. i + 1 \in 1..n /\ queue'[i] = queue[i + 1] /\ (i + 1) - 1 = i
      BY <1>4, <2>1
    <3>2. c \in Calling \/ EndsAfter(i + 1, c)
      BY <1>7, <3>1 DEF FetchInv, n
    <3>3. EndsAfter(i + 1, c) => EndsAfter((i + 1) - 1, c)'
      BY <1>5, <3>1
    <3> QED BY <1>2, <3>1, <3>2, <3>3
  <2>2. CASE i > n - 1
    <3>1. i - (n - 1) \in 1..Len(s) /\ queue'[i] = s[i - (n - 1)]
      BY <1>4, <2>2
    <3> QED BY <1>1, <1>7, <3>1 DEF Covered
  <2> QED BY <1>4, <2>1, <2>2
<1> QED BY <1>6, <1>7 DEF FetchInv

LEMMA IngestKeepsFetchInv ==
  ASSUME TypeOK, FetchInv, NEW w \in Worker, NEW c \in Cid, Ingest(w, c)
  PROVE  FetchInv'
<1>1. CASE StartApply(w, c)
  BY <1>1 DEF StartApply, FetchInv, Calling, EndsAfter
<1>2. ASSUME NEW outcome, Settle(w, c, outcome) PROVE FetchInv'
  <2> DEFINE t == TipFact(c)
             d == DiscoveredFact(c, "catalog", TRUE, NoSeq)
  <2>1. t \in Fact /\ d \in Fact
    BY FactTypes DEF Source
  <2>2. t.type # "block-fetch-started" /\ d.type # "block-fetch-started"
    BY DEF TipFact, DiscoveredFact
  <2>3. queue' = Append(queue, t) \/ queue' = Append(queue, d) \/ queue' = queue
    BY <1>2 DEF Settle, Report
  <2>4. UNCHANGED <<ch, inflight>>
    BY <1>2 DEF Settle
  <2> HIDE DEF t, d
  <2>5. CASE queue' = queue
    BY <2>4, <2>5 DEF FetchInv, Calling, EndsAfter
  <2> QED BY <2>1, <2>2, <2>3, <2>4, <2>5, AppendKeepsFetchInv
<1> QED BY <1>1, <1>2 DEF Ingest, Reject, Duplicate, Defer, PlaceNow, FailApply,
                          FinishApply

LEMMA EnvironmentKeepsFetchInv ==
  ASSUME TypeOK, FetchInv, Environment
  PROVE  FetchInv'
<1>1. ASSUME NEW c \in Cid, NEW source \in Source, NEW block \in BOOLEAN,
             NEW s \in Nat \cup {NoSeq}, Discovery(c, source, block, s)
      PROVE  FetchInv'
  <2> DEFINE f == DiscoveredFact(c, source, block, s)
  <2>1. f \in Fact /\ f.type # "block-fetch-started"
    BY FactTypes DEF DiscoveredFact
  <2>2. queue' = Append(queue, f) /\ UNCHANGED <<ch, inflight>>
    BY <1>1 DEF Discovery
  <2> HIDE DEF f
  <2> QED BY <2>1, <2>2, AppendKeepsFetchInv
<1>2. ASSUME NEW c \in Cid, NEW block \in BOOLEAN,
             Gossip(c, block) \/ Ipns(c) \/ HttpTip(c) \/ VersionIndex(c) \/ LoadVersion(c)
      PROVE  FetchInv'
  <2>1. SeqNo[c] \in Nat \cup {NoSeq} /\ NoSeq \in Nat \cup {NoSeq}
    BY ChainAssumption
  <2> QED BY <1>1, <1>2, <2>1 DEF Gossip, Ipns, HttpTip, VersionIndex, LoadVersion, Source
<1>3. ASSUME UNCHANGED <<ch, inflight, queue>> PROVE FetchInv'
  BY <1>3 DEF FetchInv, Calling, EndsAfter
<1>4. ASSUME Hydrate PROVE FetchInv'
  <2> DEFINE F(c) == DiscoveredFact(c, "cache", FALSE, SeqNo[c])
             found == [i \in DOMAIN Stored |-> F(Stored[i])]
  <2>1. found \in Seq(Fact) /\ \A i \in 1..Len(found) : found[i].type = "cid-discovered"
    <3>1. \A c \in Cid : F(c) \in Fact /\ F(c).type = "cid-discovered"
      BY ChainAssumption, FactTypes DEF Source, DiscoveredFact
    <3> HIDE DEF F
    <3> QED BY <3>1, PipelineAssumption
  <2>2. queue' = queue \o found /\ UNCHANGED <<ch, inflight>>
    BY <1>4 DEF Hydrate
  <2> HIDE DEF found
  <2>3. \A i \in 1..Len(found) : found[i].type # "block-fetch-started"
    BY <2>1
  <2> QED BY <2>1, <2>2, <2>3, QueueKeepsFetchInv
<1> QED BY <1>2, <1>3, <1>4 DEF Environment, RescanStart, CatalogBlock, chainVars

LEMMA FetchNext ==
  ASSUME TypeOK, FetchInv, [Next]_vars
  PROVE  FetchInv'
<1>1. ASSUME NEW c \in Cid, RetryDue(c) PROVE FetchInv'
  <2> DEFINE f == RetryFact(c)
  <2>1. f \in Fact /\ f.type # "block-fetch-started"
    BY FactTypes DEF RetryFact
  <2>2. queue' = Append(queue, f) /\ UNCHANGED <<ch, inflight>>
    BY <1>1 DEF RetryDue
  <2> HIDE DEF f
  <2> QED BY <2>1, <2>2, AppendKeepsFetchInv
<1>2. CASE RescanNext \/ UNCHANGED vars
  BY <1>2 DEF RescanNext, vars, chainVars, FetchInv, Calling, EndsAfter
<1>3. CASE Fetching
  BY <1>3, AnswerKeepsFetchInv DEF Fetching
<1> QED BY <1>1, <1>2, <1>3, TakeKeepsFetchInv, IngestKeepsFetchInv,
           EnvironmentKeepsFetchInv DEF Next

\* An entry shown as being fetched always has an open call of the resolver, or that
\* call's result on the queue, whatever order facts and results come in.
THEOREM FetchingCorrect == Spec => []FetchingIsPursued
<1>1. Init => FetchInv
  BY DEF Init, FetchInv, EmptyChain, AbsentEntry
<1> QED BY <1>1, FetchNext, FetchInvImplies, TypeCorrect, PTL DEF Spec
=============================================================================
