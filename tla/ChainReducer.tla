---------------------------- MODULE ChainReducer ----------------------------
(***************************************************************************)
(* The pure chain reducer of a document: reduceChain of                    *)
(* core/src/reducers.ts, which folds the facts about snapshot blocks into  *)
(* a ChainState.  A snapshot is known by its CID; every snapshot carries   *)
(* its publisher's sequence number and a link to the snapshot it was built *)
(* on, both covered by the hash, so they are functions of the CID.         *)
(*                                                                         *)
(* Each operator below takes a ChainState and returns the next one.  The   *)
(* field `applying` of the code is left out: nothing ever assigns it       *)
(* anything but null.  Acks, guarantees and timestamps are not modelled.   *)
(***************************************************************************)
EXTENDS Integers, Sequences

CONSTANTS
  Cid,       \* the snapshots that exist anywhere
  NoCid,     \* the code's null or undefined in place of a CID
  SeqNo,     \* SeqNo[c]: the sequence number encoded in block c
  Prev       \* Prev[c]: the parent encoded in block c, or NoCid

ASSUME ChainAssumption ==
  /\ NoCid \notin Cid
  /\ SeqNo \in [Cid -> Nat]
  /\ Prev \in [Cid -> Cid \cup {NoCid}]

NoSeq == -1     \* an undefined `seq`

\* How a CID was learnt (CidSource).
Source == {"gossipsub", "ipns", "http-tip", "reannounce", "chain-walk",
           "pinner-index", "cache", "catalog"}

\* "absent" stands for a CID the entries map has no key for.
Status == {"absent", "unknown", "fetching", "fetched", "applied", "failed"}

Entry == [status : Status, seq : Nat \cup {NoSeq}, via : SUBSET Source,
          attempt : Nat, prev : Cid \cup {NoCid}, rank : Nat]

\* `size` is the number of keys of the entries map, `rank` the place of a key
\* in its insertion order.
Chain == [entries : [Cid -> Entry], tip : Cid \cup {NoCid},
          newest : Cid \cup {NoCid}, maxSeq : Nat, size : Nat]

AbsentEntry == [status |-> "absent", seq |-> NoSeq, via |-> {}, attempt |-> 0,
                prev |-> NoCid, rank |-> 0]

EmptyChain == [entries |-> [c \in Cid |-> AbsentEntry], tip |-> NoCid,
               newest |-> NoCid, maxSeq |-> 0, size |-> 0]

Known(ch) == {c \in Cid : ch.entries[c].status # "absent"}

Or(s, t) == IF s = NoSeq THEN t ELSE s              \* s ?? t

Larger(m, s) == IF s > m THEN s ELSE m              \* Math.max, undefined ignored
-----------------------------------------------------------------------------
(***************************************************************************)
(* newestFetched: among the entries with a block that is not applied yet,  *)
(* the first in map order of those with the highest sequence number.       *)
(***************************************************************************)
FetchedIn(entries) == {c \in Cid : entries[c].status = "fetched"}

Precedes(entries, c, d) ==
  LET s == Or(entries[c].seq, 0)
      t == Or(entries[d].seq, 0)
  IN  s > t \/ (s = t /\ entries[c].rank < entries[d].rank)

Foremost(entries) ==
  {c \in FetchedIn(entries) :
     \A d \in FetchedIn(entries) : ~Precedes(entries, d, c)}

Newest(entries) ==
  IF Foremost(entries) = {} THEN NoCid ELSE CHOOSE c \in Foremost(entries) : TRUE

WithNewest(ch) == [ch EXCEPT !.newest = Newest(ch.entries)]
-----------------------------------------------------------------------------
\* A CID entered for the first time, at the end of the map.
Insert(ch, c, seq, source, status) ==
  [ch EXCEPT
     !.entries[c] = [AbsentEntry EXCEPT !.status = status, !.seq = seq,
                                        !.via = {source}, !.rank = ch.size],
     !.maxSeq = Larger(@, seq),
     !.size = @ + 1]

\* cid-discovered, by what the map holds for the CID.
Discover(ch, c, source, block, seq) ==
  LET e == ch.entries[c]
  IN  WithNewest(
        CASE e.status = "absent" ->
               Insert(ch, c, seq, source, IF block THEN "fetched" ELSE "unknown")
          [] e.status = "failed" ->
               [ch EXCEPT !.entries[c] = [e EXCEPT !.status = "unknown",
                                                   !.attempt = 0,
                                                   !.via = @ \cup {source}]]
          [] OTHER ->
               [ch EXCEPT
                  !.entries[c] = [e EXCEPT
                                    !.status = IF block THEN "fetched" ELSE @,
                                    !.seq = Or(@, seq),
                                    !.via = @ \cup {source}],
                  !.maxSeq = Larger(@, Or(e.seq, seq))])

\* block-fetch-started
FetchStart(ch, c) ==
  IF ch.entries[c].status \in {"absent", "fetched", "applied"}
  THEN ch
  ELSE [ch EXCEPT !.entries[c].status = "fetching"]

\* The sequence number a parent is guessed to have from its child's.
ParentSeq(seq) == IF seq > 0 THEN seq - 1 ELSE NoSeq

\* block-fetched: record the block, then enter the parent it names.
Fetched(ch, c) ==
  LET seq == Or(ch.entries[c].seq, SeqNo[c])
      own == [ch EXCEPT !.entries[c].status = "fetched",
                        !.entries[c].prev = Prev[c],
                        !.entries[c].seq = seq,
                        !.maxSeq = Larger(@, seq)]
      p == Prev[c]
  IN  IF ch.entries[c].status = "absent" THEN ch
      ELSE WithNewest(
             IF p # NoCid /\ own.entries[p].status = "absent"
             THEN Insert(own, p, ParentSeq(seq), "chain-walk", "unknown")
             ELSE own)

\* Fault: the newest fetched snapshot is not recomputed.
Fail_StaleNewest(ch, c, attempt) ==
  IF ch.entries[c].status = "absent" THEN ch
  ELSE [ch EXCEPT !.entries[c].status = "failed",
                  !.entries[c].attempt = attempt]

\* Fault: the attempt is not recorded.
Fail_Uncounted(ch, c, attempt) ==
  IF ch.entries[c].status = "absent" THEN WithNewest(ch)
  ELSE WithNewest([ch EXCEPT !.entries[c].status = "failed"])

\* block-fetch-failed: whatever the entry's status was.
Fail(ch, c, attempt) ==
  IF ch.entries[c].status = "absent" THEN WithNewest(ch)
  ELSE WithNewest([ch EXCEPT !.entries[c].status = "failed",
                             !.entries[c].attempt = attempt])

\* block-retry-reset
RetryReset(ch, c) ==
  IF ch.entries[c].status = "failed"
  THEN [ch EXCEPT !.entries[c].status = "unknown"] ELSE ch

\* tip-advanced, with the sequence number of the applied block.
AdvanceTip(ch, c) ==
  LET e == ch.entries[c]
      seq == Or(e.seq, SeqNo[c])
  IN  WithNewest([ch EXCEPT
        !.entries[c] = IF e.status = "absent" THEN e
                       ELSE [e EXCEPT !.status = "applied", !.seq = seq],
        !.tip = c,
        !.maxSeq = Larger(@, seq)])
=============================================================================
