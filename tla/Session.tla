------------------------------ MODULE Session ------------------------------
(***************************************************************************)
(* The session of the edit reconciliation protocol,                        *)
(* packages/sync/src/reconciliation/session.ts: pure, synchronous logic by *)
(* which one peer finds what the other one has and it has not, by a binary *)
(* search over a trie of edit hashes.                                      *)
(*                                                                         *)
(* A hash is the payload it is the hash of, and the XOR of distinct hashes *)
(* is the set of them (no collisions).  A trie is then the set of hashes   *)
(* it was built from, a node is the subset under a prefix, and two nodes   *)
(* have the same fingerprint and count exactly when they are equal.  The   *)
(* fingerprint of a whole CHANNEL is another matter: it runs over a list   *)
(* with repetitions, and there the XOR keeps what occurs an odd number of  *)
(* times.                                                                  *)
(***************************************************************************)
EXTENDS Naturals, Sequences, FiniteSets, Bags

CONSTANTS
    Edit,        \* the edits people type
    Bit(_, _),   \* Bit(h, i) is the i-th bit of the hash of payload h
    MaxDepth,    \* depth at which the search stops descending
    Threshold    \* subtrees of at most this many edits are listed, not split

ASSUME SearchAssumption ==
    /\ MaxDepth \in Nat
    /\ Threshold \in Nat

\* What a channel's tree holds: an edit, or the synthetic edit that carries a
\* whole snapshot; with the typed edits whose content it brings.
Payload == [kind : {"edit", "snapshot"}, covers : SUBSET Edit]

Typed(x) == [kind |-> "edit", covers |-> {x}]

SnapshotOf(xs) == [kind |-> "snapshot", covers |-> xs]

\* The bits the search looks at.
ASSUME BitAssumption ==
    \A h \in Payload, i \in 1 .. MaxDepth : Bit(h, i) \in {0, 1}

Covered(payloads) == UNION {h.covers : h \in payloads}

Prefix == UNION {[1 .. d -> {0, 1}] : d \in 0 .. MaxDepth}

Message ==
    [type : {"START"}, odd : SUBSET Payload, count : Nat]
        \cup [type : {"QUERY", "SET"}, prefix : Prefix, hashes : SUBSET Payload]
        \cup [type : {"RESPONSE"}, prefix : Prefix, match : BOOLEAN]
        \cup [type : {"BATCH"}, edits : SUBSET Payload]
        \cup [type : {"FULL"}, snapshot : Payload]

----------------------------------------------------------------------------
(* A session: what the channel held when it was created, the subtrees      *)
(* still to query, and the edits received so far.                          *)

\* The entries of a channel's list: a payload, and which of its occurrences.
Entries(tree) == UNION {{h} \X (1 .. tree[h]) : h \in BagToSet(tree)}

NewSession(tree) ==
    [hashes |-> BagToSet(tree),
     odd    |-> {h \in BagToSet(tree) : tree[h] % 2 = 1},
     count  |-> Cardinality(Entries(tree)),
     queue  |-> <<>>,
     buffer |-> EmptyBag]

Subtree(hashes, prefix) ==
    {h \in hashes : \A i \in DOMAIN prefix : Bit(h, i) = prefix[i]}

\* The two ways a step of a session ends: with a message for the peer, or
\* with the edits to apply (none of them when the code returns null).
Replies(s, m) == [session |-> s, reply |-> <<m>>, ends |-> FALSE, edits |-> EmptyBag]

Ends(s, edits) == [session |-> s, reply |-> <<>>, ends |-> TRUE, edits |-> edits]

Start(s) == [type |-> "START", odd |-> s.odd, count |-> s.count]

Query(s, prefix) ==
    [type |-> "QUERY", prefix |-> prefix, hashes |-> Subtree(s.hashes, prefix)]

\* Fault: subtrees that are empty here are not queried.
Drain_SkipsEmpty(s, edits) ==
    LET rest == SelectSeq(s.queue, LAMBDA prefix : Subtree(s.hashes, prefix) # {})
    IN  IF rest = <<>>
        THEN Ends([s EXCEPT !.queue = <<>>], edits)
        ELSE Replies([s EXCEPT !.queue = Tail(rest)], Query(s, Head(rest)))

\* Go on with the next queued subtree; without one, hand over the edits.
Drain(s, edits) ==
    IF s.queue = <<>>
    THEN Ends(s, edits)
    ELSE Replies([s EXCEPT !.queue = Tail(@)], Query(s, Head(s.queue)))

OnStart(s, m, snapshot) ==
    IF m.odd = s.odd /\ m.count = s.count THEN Ends(s, EmptyBag)
    ELSE IF m.count = 0 THEN Replies(s, [type |-> "FULL", snapshot |-> snapshot])
    ELSE Replies(s, Query(s, <<>>))

OnQuery(s, m) ==
    Replies(s, [type   |-> "RESPONSE",
                prefix |-> m.prefix,
                match  |-> Subtree(s.hashes, m.prefix) = m.hashes])

Splits(s, prefix) ==
    /\ Len(prefix) < MaxDepth
    /\ Cardinality(Subtree(s.hashes, prefix)) > Threshold

\* Fault: a half is asked for with the prefix of the whole.
OnResponse_Whole(s, m) ==
    IF m.match THEN Drain(s, EmptyBag)
    ELSE IF Splits(s, m.prefix) THEN Replies(s, Query(s, m.prefix))
    ELSE Replies(s, [Query(s, m.prefix) EXCEPT !.type = "SET"])

OnResponse(s, m) ==
    IF m.match THEN Drain(s, EmptyBag)
    ELSE IF Splits(s, m.prefix)
    THEN Replies([s EXCEPT !.queue = Append(@, Append(m.prefix, 1))],
                 Query(s, Append(m.prefix, 0)))
    ELSE Replies(s, [Query(s, m.prefix) EXCEPT !.type = "SET"])

OnSet(s, m) ==
    Replies(s, [type  |-> "BATCH",
                edits |-> Subtree(s.hashes, m.prefix) \ m.hashes])

OnBatch(s, m) ==
    LET t == [s EXCEPT !.buffer = @ (+) SetToBag(m.edits)]
    IN  Drain(t, t.buffer)

============================================================================
