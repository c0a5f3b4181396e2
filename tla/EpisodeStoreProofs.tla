------------------------- MODULE EpisodeStoreProofs -------------------------
(***************************************************************************)
(* Proofs about EpisodeStore, for any number of handlers, keys and         *)
(* operations.  Only SaveCommits changes the snapshot; the argument is     *)
(* that it appends one fact and that every result handed out so far is a   *)
(* prefix of the facts, which appending preserves.                         *)
(***************************************************************************)
EXTENDS EpisodeStore, SequenceTheorems, TLAPS

(* Appending to a sequence leaves its prefixes and elements alone.          *)
LEMMA PrefixKept ==
  ASSUME NEW S, NEW s \in Seq(S), NEW e \in S, NEW n \in 1 .. Len(s)
  PROVE  /\ SubSeq(Append(s, e), 1, n) = SubSeq(s, 1, n)
         /\ Append(s, e)[n] = s[n]
         /\ n \in 1 .. Len(Append(s, e))
<1>1. Append(s, e) = s \o <<e>>
  BY AppendIsConcat
<1>2. <<e>> \in Seq(S)
  OBVIOUS
<1>3. SubSeq(s \o <<e>>, 1, n) = SubSeq(s, 1, n)
  BY <1>2, SubSeqOfConcat1
<1>4. QED
  BY <1>1, <1>3, AppendProperties

(* The whole of a sequence that was just extended is its longest prefix.    *)
LEMMA WholePrefix ==
  ASSUME NEW S, NEW s \in Seq(S), NEW e \in S
  PROVE  /\ SubSeq(Append(s, e), 1, Len(s) + 1) = Append(s, e)
         /\ Append(s, e)[Len(s) + 1] = e
         /\ Len(Append(s, e)) = Len(s) + 1
         /\ Len(s) \in Nat
<1>1. Append(s, e) \in Seq(S) /\ Len(Append(s, e)) = Len(s) + 1
  BY AppendProperties
<1>2. SubSeq(Append(s, e), 1, Len(Append(s, e))) = Append(s, e)
  BY <1>1, SubSeqFull
<1>3. QED
  BY <1>1, <1>2, AppendProperties

(* A command applied to an aggregate gives an aggregate.                    *)
LEMMA ChangedType ==
  ASSUME NEW a \in Aggregate, NEW k \in Keys, NEW op \in Ops
  PROVE  Changed(a, k, op) \in Aggregate
BY AppendProperties DEF Changed, Aggregate, Fact

(* The aggregate of no command is an aggregate.                             *)
LEMMA EmptyType == Empty \in Aggregate
BY DEF Empty, Aggregate

(* What save writes is a snapshot again.                                    *)
LEMMA SavedType ==
  ASSUME NEW s \in Snapshot, NEW k \in Keys, NEW d \in Digest, NEW a \in Aggregate
  PROVE  Saved(s, k, d, a) \in Snapshot
<1> DEFINE event  == [sequence |-> Len(s.ledger) + 1, version |-> a.version,
                      key |-> k, digest |-> d, result |-> a]
           record == [event |-> event, status |-> "pending"]
<1>1. event \in Event
  BY DEF Event, Snapshot, Aggregate
<1>2. record \in Record
  BY <1>1 DEF Record
<1> HIDE DEF event, record
<1>3. Append(s.ledger, event) \in Seq(Event)
  BY <1>1 DEF Snapshot
<1>4. Append(s.outbox, record) \in Seq(Record)
  BY <1>2 DEF Snapshot
<1>5. ProjectionOf(a, Append(s.ledger, event)) \in Projection
  BY <1>3 DEF ProjectionOf, Projection, Aggregate
<1>6. [s.records EXCEPT ![k] = [digest |-> d, result |-> a]] \in [Keys -> Receipt \cup {NoReceipt}]
  BY DEF Snapshot, Receipt
<1>7. QED
  BY <1>3, <1>4, <1>5, <1>6 DEF Saved, Snapshot, event, record
-----------------------------------------------------------------------------
(* Type correctness.                                                        *)
LEMMA InitType == Init => TypeOK
<1> SUFFICES ASSUME Init PROVE TypeOK
  OBVIOUS
<1>1. NewFile \in Snapshot
  BY EmptyType DEF NewFile, Snapshot, ProjectionOf, Projection, Empty
<1>2. ASSUME NEW k \in Keys, NEW op \in Ops PROVE LegacyFile(k, op) \in Snapshot
  <2>1. Changed(Empty, k, op) \in Aggregate
    BY EmptyType, ChangedType
  <2>2. [digest |-> [op |-> op, expected |-> 0], result |-> Changed(Empty, k, op)] \in Receipt
    BY <2>1 DEF Receipt, Digest
  <2>3. ProjectionOf(Empty, <<>>) \in Projection
    BY EmptyType DEF ProjectionOf, Projection, Empty
  <2>4. QED
    BY <2>1, <2>2, <2>3 DEF LegacyFile, Snapshot
<1>3. QED
  BY <1>1, <1>2 DEF Init, TypeOK

(* Every action keeps the type of the state.                                *)
LEMMA StepType == TypeOK /\ [Next]_vars => TypeOK'
<1> SUFFICES ASSUME TypeOK, [Next]_vars PROVE TypeOK'
  OBVIOUS
<1> USE DEF TypeOK
<1>0. ASSUME NEW h \in Handlers, NEW ph \in {"received", "ready", "answered"},
             handler[h].phase = ph
      PROVE  handler[h] \in Busy
  BY <1>0 DEF Free
<1>1. ASSUME NEW h \in Handlers, NEW b \in Busy \cup {Free}
      PROVE  [handler EXCEPT ![h] = b] \in [Handlers -> Busy \cup {Free}]
  OBVIOUS
<1>2. CASE UNCHANGED vars
  BY <1>2 DEF vars
<1>3. ASSUME NEW h \in Handlers, NEW k \in Keys, NEW op \in Ops, ReceiveBootstrap(h, k, op)
      PROVE  TypeOK'
  <2>1. Changed(Empty, k, op) \in Aggregate
    BY EmptyType, ChangedType
  <2>2. [op |-> op, expected |-> 0] \in Digest
    BY DEF Digest
  <2>3. QED
    BY <1>3, <2>1, <2>2 DEF ReceiveBootstrap, Busy
<1>4. ASSUME NEW h \in Handlers, NEW k \in Keys, NEW op \in Ops,
             NEW v \in 1 .. snapshot.aggregate.version + 1, Receive(h, k, op, v)
      PROVE  TypeOK'
  <2>1. v \in Nat
    BY DEF Snapshot, Aggregate
  <2>2. [op |-> op, expected |-> v] \in Digest
    BY <2>1 DEF Digest
  <2>3. QED
    BY <1>4, <2>2, EmptyType DEF Receive, Busy
<1>5. ASSUME NEW h \in Handlers, Load(h) PROVE TypeOK'
  <2> DEFINE incoming == IF handler[h].digest.expected = snapshot.aggregate.version
                         THEN Changed(snapshot.aggregate, handler[h].key, handler[h].digest.op)
                         ELSE snapshot.aggregate
  <2>1. handler[h] \in Busy
    BY <1>0, <1>5 DEF Load
  <2>2. incoming \in Aggregate
    BY <2>1, ChangedType DEF Snapshot, Busy, Digest
  <2>3. [handler[h] EXCEPT !.phase = "ready", !.incoming = incoming] \in Busy
    BY <2>1, <2>2 DEF Busy
  <2>4. handler' = [handler EXCEPT ![h] = [handler[h] EXCEPT !.phase = "ready", !.incoming = incoming]]
    BY <1>5 DEF Load
  <2>5. QED
    BY <1>1, <1>5, <2>3, <2>4 DEF Load
<1>6. ASSUME NEW h \in Handlers, Abandon(h) PROVE TypeOK'
  BY <1>6 DEF Abandon
<1>7. ASSUME NEW h \in Handlers, SaveReplays(h) PROVE TypeOK'
  <2>1. handler[h] \in Busy
    BY <1>0, <1>7 DEF SaveReplays
  <2>2. StoredReceipt(handler[h].key).result \in Aggregate
    BY <1>7, <2>1 DEF SaveReplays, StoredReceipt, Snapshot, Receipt, Busy
  <2>3. QED
    BY <1>7, <2>1, <2>2 DEF SaveReplays, Busy
<1>8. ASSUME NEW h \in Handlers, SaveCommits(h) PROVE TypeOK'
  <2>1. handler[h] \in Busy
    BY <1>0, <1>8 DEF SaveCommits
  <2>2. snapshot' \in Snapshot
    BY <1>8, <2>1, SavedType DEF SaveCommits, Busy
  <2>3. QED
    BY <1>8, <2>1, <2>2 DEF SaveCommits, Busy
<1>9. ASSUME NEW h \in Handlers, SaveRefuses(h) PROVE TypeOK'
  BY <1>9 DEF SaveRefuses
<1>10. ASSUME NEW h \in Handlers, Answer(h) PROVE TypeOK'
  <2>1. handler[h] \in Busy
    BY <1>0, <1>10 DEF Answer
  <2>2. QED
    BY <1>10, <2>1 DEF Answer, Busy, Reply
<1>11. QED
  BY <1>2, <1>3, <1>4, <1>5, <1>6, <1>7, <1>8, <1>9, <1>10 DEF Next, Step

(* The state keeps its type.                                                *)
THEOREM TypeCorrect == Spec => []TypeOK
<1>1. Init => TypeOK
  BY InitType
<1>2. TypeOK /\ [Next]_vars => TypeOK'
  BY StepType
<1>3. QED
  BY <1>1, <1>2, PTL DEF Spec
-----------------------------------------------------------------------------
(* The inductive invariant.                                                 *)
LEMMA InitInv == Init => StoreInv
<1> SUFFICES ASSUME Init PROVE StoreInv
  OBVIOUS
<1>1. TypeOK
  BY InitType
<1>2. HandlersHold /\ RepliesMatch
  BY DEF Init, HandlersHold, RepliesMatch, Free
<1>3. CASE snapshot = NewFile
  <2> USE <1>3 DEF NewFile
  <2>1. VersionCounts
    BY DEF VersionCounts, Empty
  <2>2. ReceiptsMatchFacts
    BY DEF ReceiptsMatchFacts, Empty
  <2>3. NoLedgerYet /\ LedgerComplete
    BY DEF NoLedgerYet, LedgerComplete
  <2>4. SnapshotReadable
    BY DEF SnapshotReadable, Readable
  <2>5. QED
    BY <1>1, <1>2, <2>1, <2>2, <2>3, <2>4 DEF StoreInv
<1>4. ASSUME NEW k \in Keys, NEW op \in Ops, snapshot = LegacyFile(k, op)
      PROVE  StoreInv
  <2> DEFINE f == [key |-> k, op |-> op]
             a == Changed(Empty, k, op)
  <2>1. a.version = 1 /\ a.facts = <<f>>
    BY DEF Changed, Empty
  <2> HIDE DEF a
  <2>2. /\ snapshot.aggregate = a
        /\ snapshot.ledger = <<>>
        /\ snapshot.outbox = <<>>
        /\ snapshot.ledgered = FALSE
        /\ snapshot.records =
             [j \in Keys |-> IF j = k THEN [digest |-> [op |-> op, expected |-> 0], result |-> a]
                                      ELSE NoReceipt]
    BY <1>4 DEF LegacyFile, a
  <2>3. SubSeq(<<f>>, 1, 1) = <<f>>
    <3>1. <<f>> \in Seq({f}) /\ Len(<<f>>) = 1
      OBVIOUS
    <3>2. QED
      BY <3>1, SubSeqFull
  <2>4. VersionCounts
    BY <2>1, <2>2 DEF VersionCounts
  <2>5. [digest |-> [op |-> op, expected |-> 0], result |-> a] # NoReceipt
    <3>1. a \in [version : Nat, facts : Seq([key : Keys, op : Ops])]
      BY ChangedType, EmptyType DEF a, Aggregate, Fact
    <3>2. QED
      BY <3>1, StoreConstants
  <2>6. ReceiptsMatchFacts
    <3>1. IsResultOf(<<f>>, a, k, op)
      BY <2>1, <2>3 DEF IsResultOf
    <3>2. ASSUME NEW j \in Keys, snapshot.records[j] # NoReceipt
          PROVE  j = k /\ snapshot.records[j] = [digest |-> [op |-> op, expected |-> 0], result |-> a]
      BY <2>2, <3>2
    <3>3. ASSUME NEW i \in 1 .. Len(snapshot.aggregate.facts)
          PROVE  i = 1 /\ snapshot.aggregate.facts[i].key = k
      <4>1. snapshot.aggregate.facts = <<f>>
        BY <2>1, <2>2
      <4>2. i = 1
        BY <4>1
      <4>3. QED
        BY <4>1, <4>2
    <3>4. snapshot.records[k] = [digest |-> [op |-> op, expected |-> 0], result |-> a]
      BY <2>2
    <3>5. QED
      BY <2>1, <2>2, <2>5, <3>1, <3>2, <3>3, <3>4 DEF ReceiptsMatchFacts
  <2>7. NoLedgerYet /\ LedgerComplete
    BY <2>2 DEF NoLedgerYet, LedgerComplete
  <2>8. SnapshotReadable
    BY <2>1, <2>2 DEF SnapshotReadable, Readable
  <2>9. QED
    BY <1>1, <1>2, <2>4, <2>6, <2>7, <2>8 DEF StoreInv
<1>5. QED
  BY <1>3, <1>4 DEF Init

(* What a save that is accepted stores: the present aggregate and one fact. *)
LEMMA CommitAppends ==
  ASSUME StoreInv, NEW h \in Handlers, SaveCommits(h)
  PROVE  /\ handler[h] \in Busy
         /\ snapshot'.aggregate = handler[h].incoming
         /\ handler[h].incoming =
              Changed(snapshot.aggregate, handler[h].key, handler[h].digest.op)
<1>1. handler[h] \in Busy
  BY DEF StoreInv, TypeOK, SaveCommits, Free
<1>2. handler[h].incoming.version = snapshot.aggregate.version + 1
  BY DEF SaveCommits, VersionAccepted
<1>3. ~(handler[h].incoming.version <= snapshot.aggregate.version)
  BY <1>2 DEF StoreInv, TypeOK, Snapshot, Aggregate
<1>4. handler[h].incoming =
         Changed(snapshot.aggregate, handler[h].key, handler[h].digest.op)
  BY <1>3 DEF StoreInv, HandlersHold, SaveCommits
<1>5. snapshot'.aggregate = handler[h].incoming
  BY DEF SaveCommits, Saved
<1>6. QED
  BY <1>1, <1>4, <1>5

(* A result stays a result when a fact is appended.                         *)
LEMMA ResultKept ==
  ASSUME NEW s \in Seq(Fact), NEW f \in Fact,
         NEW r, NEW k, NEW op, IsResultOf(s, r, k, op)
  PROVE  IsResultOf(Append(s, f), r, k, op)
BY PrefixKept DEF IsResultOf

(* The aggregate a command produced is the result of its key.               *)
LEMMA ChangedIsResult ==
  ASSUME NEW a \in Aggregate, a.version = Len(a.facts), NEW k \in Keys, NEW op \in Ops
  PROVE  IsResultOf(Changed(a, k, op).facts, Changed(a, k, op), k, op)
<1>1. a.facts \in Seq(Fact) /\ [key |-> k, op |-> op] \in Fact
  BY DEF Aggregate, Fact
<1>2. QED
  BY <1>1, WholePrefix DEF IsResultOf, Changed

(* An accepted save preserves every part of the invariant.                  *)
LEMMA CommitInv ==
  ASSUME StoreInv, TypeOK', NEW h \in Handlers, SaveCommits(h)
  PROVE  StoreInv'
<1> DEFINE k  == handler[h].key
           d  == handler[h].digest
           a  == snapshot.aggregate
           n  == Changed(a, k, d.op)
           f  == [key |-> k, op |-> d.op]
<1>1. handler[h] \in Busy /\ handler[h].incoming = n /\ snapshot'.aggregate = n
  BY CommitAppends
<1>2. k \in Keys /\ d.op \in Ops /\ d \in Digest /\ f \in Fact
  BY <1>1 DEF Busy, Digest, Fact
<1>3. a \in Aggregate /\ a.version = Len(a.facts) /\ a.facts \in Seq(Fact)
  BY DEF StoreInv, TypeOK, VersionCounts, Snapshot, Aggregate
<1>4. n \in Aggregate /\ n.version = a.version + 1 /\ n.facts = Append(a.facts, f)
  BY <1>2, <1>3, ChangedType DEF Changed
<1>5. Len(n.facts) = Len(a.facts) + 1 /\ n.facts[Len(a.facts) + 1] = f
  BY <1>2, <1>3, <1>4, WholePrefix
<1>6. IsResultOf(n.facts, n, k, d.op)
  BY <1>2, <1>3, ChangedIsResult
<1>7. snapshot' = Saved(snapshot, k, d, n) /\ handler' = [handler EXCEPT ![h].phase = "answered"]
      /\ replies' = replies /\ snapshot.records[k] = NoReceipt
  BY <1>1 DEF SaveCommits, StoredReceipt
<1> HIDE DEF k, d, n, f, a
<1>8. snapshot.records \in [Keys -> Receipt \cup {NoReceipt}]
  BY DEF StoreInv, TypeOK, Snapshot
<1>9. snapshot'.records = [snapshot.records EXCEPT ![k] = [digest |-> d, result |-> n]]
  BY <1>7 DEF Saved
<1>10. VersionCounts'
  BY <1>1, <1>3, <1>4, <1>5 DEF VersionCounts
<1>11. ReceiptsMatchFacts'
  <2>1. ASSUME NEW j \in Keys, snapshot'.records[j] # NoReceipt
        PROVE  IsResultOf(n.facts, snapshot'.records[j].result, j, snapshot'.records[j].digest.op)
    <3>1. CASE j = k
      BY <1>2, <1>6, <1>8, <1>9, <3>1
    <3>2. CASE j # k
      <4>1. snapshot'.records[j] = snapshot.records[j]
        BY <1>8, <1>9, <3>2
      <4>2. IsResultOf(a.facts, snapshot.records[j].result, j, snapshot.records[j].digest.op)
        BY <2>1, <4>1 DEF StoreInv, ReceiptsMatchFacts, a
      <4>3. QED
        BY <1>2, <1>3, <1>4, <4>1, <4>2, ResultKept
    <3>3. QED
      BY <3>1, <3>2
  <2>2. ASSUME NEW i \in 1 .. Len(n.facts)
        PROVE  /\ snapshot'.records[n.facts[i].key] # NoReceipt
               /\ snapshot'.records[n.facts[i].key].result.version = i
    <3>1. CASE i = Len(a.facts) + 1
      <4>1. n.facts[i].key = k
        BY <1>5, <3>1 DEF f
      <4>2. snapshot'.records[k] = [digest |-> d, result |-> n]
        BY <1>2, <1>8, <1>9
      <4>3. [digest |-> d, result |-> n] # NoReceipt
        BY <1>2, <1>4, StoreConstants DEF Digest, Aggregate, Fact
      <4>4. QED
        BY <1>3, <1>4, <3>1, <4>1, <4>2, <4>3
    <3>2. CASE i # Len(a.facts) + 1
      <4>1. i \in 1 .. Len(a.facts)
        BY <1>3, <1>5, <3>2
      <4>2. n.facts[i] = a.facts[i]
        BY <1>2, <1>3, <1>4, <4>1, PrefixKept
      <4>3. /\ snapshot.records[a.facts[i].key] # NoReceipt
            /\ snapshot.records[a.facts[i].key].result.version = i
        BY <4>1 DEF StoreInv, ReceiptsMatchFacts, a
      <4>4. a.facts[i].key \in Keys
        <5>1. a.facts[i] \in Fact
          BY <1>3, <4>1, ElementOfSeq
        <5>2. QED
          BY <5>1 DEF Fact
      <4>5. a.facts[i].key # k
        BY <1>7, <4>3
      <4>6. QED
        BY <1>8, <1>9, <4>2, <4>3, <4>4, <4>5
    <3>3. QED
      BY <3>1, <3>2
  <2>3. QED
    BY <1>1, <2>1, <2>2 DEF ReceiptsMatchFacts
<1>12. HandlersHold'
  <2> SUFFICES ASSUME NEW g \in Handlers
               PROVE  /\ handler'[g].phase = "ready" =>
                           \/ handler'[g].incoming.version <= n.version
                           \/ handler'[g].incoming =
                                Changed(n, handler'[g].key, handler'[g].digest.op)
                      /\ handler'[g].phase = "answered" =>
                           IsResultOf(n.facts, handler'[g].incoming,
                                      handler'[g].key, handler'[g].digest.op)
    BY <1>1 DEF HandlersHold
  <2>1. handler \in [Handlers -> Busy \cup {Free}]
    BY DEF StoreInv, TypeOK
  <2>2. CASE g = h
    <3>1. handler'[g].phase = "answered" /\ handler'[g].incoming = n
          /\ handler'[g].key = k /\ handler'[g].digest = d
      BY <1>1, <1>7, <2>1, <2>2 DEF Busy, k, d
    <3>2. QED
      BY <1>6, <3>1
  <2>3. CASE g # h
    <3>1. handler'[g] = handler[g]
      BY <1>7, <2>1, <2>3
    <3>2. ASSUME handler[g].phase = "ready"
          PROVE  handler'[g].incoming.version <= n.version
      <4>1. handler[g] \in Busy
        BY <2>1, <3>2 DEF Free
      <4>2. \/ handler[g].incoming.version <= a.version
            \/ handler[g].incoming = Changed(a, handler[g].key, handler[g].digest.op)
        BY <3>2 DEF StoreInv, HandlersHold, a
      <4>3. handler[g].incoming.version \in Nat /\ a.version \in Nat
        BY <1>3, <4>1 DEF Busy, Aggregate
      <4>4. Changed(a, handler[g].key, handler[g].digest.op).version = a.version + 1
        BY DEF Changed
      <4>5. handler[g].incoming.version <= a.version + 1
        BY <4>2, <4>3, <4>4
      <4>6. QED
        BY <1>4, <3>1, <4>5
    <3>3. ASSUME handler[g].phase = "answered"
          PROVE  IsResultOf(n.facts, handler'[g].incoming, handler'[g].key, handler'[g].digest.op)
      <4>1. IsResultOf(a.facts, handler[g].incoming, handler[g].key, handler[g].digest.op)
        BY <3>3 DEF StoreInv, HandlersHold, a
      <4>2. QED
        BY <1>2, <1>3, <1>4, <3>1, <4>1, ResultKept
    <3>4. QED
      BY <3>1, <3>2, <3>3
  <2>4. QED
    BY <2>2, <2>3
<1>13. RepliesMatch'
  <2>1. ASSUME NEW r \in replies PROVE IsResultOf(n.facts, r.result, r.key, r.digest.op)
    <3>1. IsResultOf(a.facts, r.result, r.key, r.digest.op)
      BY DEF StoreInv, RepliesMatch, a
    <3>2. QED
      BY <1>2, <1>3, <1>4, <3>1, ResultKept
  <2>2. QED
    BY <1>1, <1>7, <2>1 DEF RepliesMatch
<1> DEFINE event  == [sequence |-> Len(snapshot.ledger) + 1, version |-> n.version,
                      key |-> k, digest |-> d, result |-> n]
           record == [event |-> event, status |-> "pending"]
<1>14. /\ snapshot'.ledger = Append(snapshot.ledger, event)
       /\ snapshot'.outbox = Append(snapshot.outbox, record)
       /\ snapshot'.ledgered = TRUE
       /\ snapshot'.projection = ProjectionOf(n, snapshot'.ledger)
  BY <1>7 DEF Saved
<1>15. /\ event \in Event /\ record \in Record
       /\ event.sequence = Len(snapshot.ledger) + 1
       /\ event.version = n.version /\ event.result = n /\ record.event = event
  BY <1>2, <1>4 DEF Event, Record, Aggregate, StoreInv, TypeOK, Snapshot
<1> HIDE DEF event, record
<1>16. /\ snapshot.ledger \in Seq(Event) /\ snapshot.outbox \in Seq(Record)
       /\ Len(snapshot.outbox) = Len(snapshot.ledger)
  <2>1. snapshot.ledger \in Seq(Event) /\ snapshot.outbox \in Seq(Record)
    BY DEF StoreInv, TypeOK, Snapshot
  <2>2. CASE snapshot.ledgered
    BY <2>1, <2>2 DEF StoreInv, SnapshotReadable, Readable
  <2>3. CASE ~snapshot.ledgered
    BY <2>1, <2>3 DEF StoreInv, NoLedgerYet
  <2>4. QED
    BY <2>1, <2>2, <2>3
<1>17. ASSUME NEW i \in DOMAIN snapshot.ledger
       PROVE  /\ snapshot.ledger[i].sequence = i
              /\ snapshot.ledger[i].version \in Nat
              /\ snapshot.ledger[i].version <= a.version
              /\ snapshot.outbox[i].event = snapshot.ledger[i]
  <2>1. i \in 1 .. Len(snapshot.ledger)
    BY <1>16
  <2>2. snapshot.ledger[i] \in Event
    BY <1>16, <2>1, ElementOfSeq
  <2>3. snapshot.ledgered
    BY <2>1 DEF StoreInv, NoLedgerYet
  <2>4. /\ snapshot.ledger[i].sequence = i
        /\ snapshot.ledger[i].version <= a.version
        /\ snapshot.outbox[i].event = snapshot.ledger[i]
    BY <2>3 DEF StoreInv, SnapshotReadable, Readable, a
  <2>5. QED
    BY <2>2, <2>4 DEF Event
<1>18. ASSUME NEW i \in DOMAIN snapshot'.ledger
       PROVE  \/ /\ i \in DOMAIN snapshot.ledger
                 /\ snapshot'.ledger[i] = snapshot.ledger[i]
                 /\ snapshot'.outbox[i] = snapshot.outbox[i]
              \/ /\ i = Len(snapshot.ledger) + 1
                 /\ snapshot'.ledger[i] = event
                 /\ snapshot'.outbox[i] = record
  BY <1>14, <1>15, <1>16, AppendProperties
<1>19. /\ Len(snapshot'.ledger) = Len(snapshot.ledger) + 1
       /\ Len(snapshot'.outbox) = Len(snapshot.outbox) + 1
  BY <1>14, <1>15, <1>16, AppendProperties
<1>20. SnapshotReadable'
  <2>1. ASSUME NEW j \in Keys, snapshot'.records[j] # NoReceipt
        PROVE  snapshot'.records[j].result.version <= n.version
    <3>1. IsResultOf(n.facts, snapshot'.records[j].result, j, snapshot'.records[j].digest.op)
      BY <1>1, <1>11, <2>1 DEF ReceiptsMatchFacts
    <3>2. QED
      BY <1>3, <1>4, <1>5, <3>1 DEF IsResultOf
  <2>2. ASSUME NEW i \in DOMAIN snapshot'.ledger
        PROVE  /\ snapshot'.ledger[i].sequence = i
               /\ snapshot'.ledger[i].version <= n.version
               /\ snapshot'.outbox[i].event = snapshot'.ledger[i]
    <3>1. CASE i \in DOMAIN snapshot.ledger /\ snapshot'.ledger[i] = snapshot.ledger[i]
               /\ snapshot'.outbox[i] = snapshot.outbox[i]
      <4>1. snapshot.ledger[i].version \in Nat
        BY <1>17, <3>1
      <4>2. QED
        BY <1>3, <1>4, <1>17, <3>1, <4>1 DEF Aggregate
    <3>2. CASE i = Len(snapshot.ledger) + 1 /\ snapshot'.ledger[i] = event
               /\ snapshot'.outbox[i] = record
      BY <1>4, <1>15, <3>2 DEF Aggregate
    <3>3. QED
      BY <1>18, <3>1, <3>2
  <2>3. QED
    BY <1>1, <1>14, <1>16, <1>19, <2>1, <2>2 DEF SnapshotReadable, Readable
<1>21. LedgerComplete'
  <2> SUFFICES ASSUME NEW i \in DOMAIN snapshot'.ledger
               PROVE  /\ snapshot'.ledger[i].version = n.version - Len(snapshot'.ledger) + i
                      /\ snapshot'.ledger[i].result.facts =
                           SubSeq(n.facts, 1, snapshot'.ledger[i].version)
    BY <1>1 DEF LedgerComplete
  <2>1. Len(snapshot.ledger) \in Nat /\ a.version \in Nat
    BY <1>3, <1>16 DEF Aggregate
  <2>2. CASE i \in DOMAIN snapshot.ledger /\ snapshot'.ledger[i] = snapshot.ledger[i]
    <3>1. /\ snapshot.ledger[i].version = a.version - Len(snapshot.ledger) + i
          /\ snapshot.ledger[i].result.facts = SubSeq(a.facts, 1, snapshot.ledger[i].version)
      BY <2>2 DEF StoreInv, LedgerComplete, a
    <3>2. i \in 1 .. Len(snapshot.ledger)
      BY <1>16, <2>2
    <3>3. snapshot.ledger[i].version \in Nat /\ snapshot.ledger[i].version <= a.version
      BY <1>17, <2>2
    <3>4. SubSeq(n.facts, 1, snapshot.ledger[i].version) =
            SubSeq(a.facts, 1, snapshot.ledger[i].version)
      <4>1. CASE snapshot.ledger[i].version = 0
        BY <1>2, <1>3, <1>4, <4>1, SubSeqEmpty
      <4>2. CASE snapshot.ledger[i].version \in 1 .. Len(a.facts)
        BY <1>2, <1>3, <1>4, <4>2, PrefixKept
      <4>3. QED
        BY <1>3, <3>3, <4>1, <4>2
    <3>5. n.version - Len(snapshot'.ledger) + i = a.version - Len(snapshot.ledger) + i
      BY <1>4, <1>19, <2>1, <3>2
    <3>6. QED
      BY <2>2, <3>1, <3>4, <3>5
  <2>3. CASE i = Len(snapshot.ledger) + 1 /\ snapshot'.ledger[i] = event
    <3>1. n.facts = SubSeq(n.facts, 1, n.version)
      BY <1>6 DEF IsResultOf
    <3>2. n.version \in Nat
      BY <1>4 DEF Aggregate
    <3>3. n.version - Len(snapshot'.ledger) + i = n.version
      BY <1>19, <2>1, <2>3, <3>2
    <3>4. QED
      BY <1>15, <2>3, <3>1, <3>3
  <2>4. QED
    BY <1>18, <2>2, <2>3
<1>22. NoLedgerYet'
  BY <1>14 DEF NoLedgerYet
<1>23. QED
  BY <1>10, <1>11, <1>12, <1>13, <1>20, <1>21, <1>22 DEF StoreInv

(* Every other step leaves the snapshot alone and hands on what it holds.   *)
LEMMA StepInv == StoreInv /\ [Next]_vars => StoreInv'
<1> SUFFICES ASSUME StoreInv, [Next]_vars PROVE StoreInv'
  OBVIOUS
<1>1. TypeOK'
  BY StepType DEF StoreInv
<1>2. ASSUME snapshot' = snapshot, HandlersHold', RepliesMatch' PROVE StoreInv'
  BY <1>1, <1>2 DEF StoreInv, VersionCounts, ReceiptsMatchFacts, NoLedgerYet,
                    SnapshotReadable, LedgerComplete
<1>3. handler \in [Handlers -> Busy \cup {Free}]
  BY DEF StoreInv, TypeOK
<1>4. CASE UNCHANGED vars
  BY <1>2, <1>4 DEF vars, StoreInv, HandlersHold, RepliesMatch
<1>5. ASSUME NEW h \in Handlers, handler' = [handler EXCEPT ![h] = Free],
             snapshot' = snapshot
      PROVE  HandlersHold'
  BY <1>3, <1>5 DEF StoreInv, HandlersHold, Free
<1>6. ASSUME NEW h \in Handlers, NEW k \in Keys, NEW op \in Ops, ReceiveBootstrap(h, k, op)
      PROVE  StoreInv'
  <2>1. Changed(Empty, k, op).version = 1
    BY DEF Changed, Empty
  <2>2. snapshot.aggregate \in Aggregate /\ snapshot.aggregate.version = Len(snapshot.aggregate.facts)
    BY DEF StoreInv, TypeOK, VersionCounts, Snapshot
  <2>3. \/ 1 <= snapshot.aggregate.version
        \/ snapshot.aggregate = Empty
    <3>1. CASE Len(snapshot.aggregate.facts) = 0
      <4>1. snapshot.aggregate.facts = <<>>
        BY <2>2, <3>1 DEF Aggregate
      <4>2. QED
        BY <2>2, <3>1, <4>1 DEF Aggregate, Empty
    <3>2. CASE Len(snapshot.aggregate.facts) # 0
      BY <2>2, <3>2 DEF Aggregate
    <3>3. QED
      BY <3>1, <3>2
  <2>4. handler'[h] = [phase |-> "ready", key |-> k, digest |-> [op |-> op, expected |-> 0],
                       incoming |-> Changed(Empty, k, op)]
    BY <1>3, <1>6 DEF ReceiveBootstrap
  <2>5. \A g \in Handlers : g # h => handler'[g] = handler[g]
    BY <1>3, <1>6 DEF ReceiveBootstrap
  <2>6. snapshot' = snapshot /\ replies' = replies
    BY <1>6 DEF ReceiveBootstrap
  <2>7. HandlersHold'
    BY <2>1, <2>3, <2>4, <2>5, <2>6 DEF StoreInv, HandlersHold
  <2>8. QED
    BY <1>2, <2>6, <2>7 DEF StoreInv, RepliesMatch
<1>7. ASSUME NEW h \in Handlers, NEW k \in Keys, NEW op \in Ops, NEW v, Receive(h, k, op, v)
      PROVE  StoreInv'
  <2>1. HandlersHold'
    BY <1>3, <1>7 DEF Receive, StoreInv, HandlersHold
  <2>2. QED
    BY <1>2, <1>7, <2>1 DEF Receive, StoreInv, RepliesMatch
<1>8. ASSUME NEW h \in Handlers, Load(h) PROVE StoreInv'
  <2>1. handler[h] \in Busy
    BY <1>3, <1>8 DEF Load, Free
  <2> DEFINE incoming == IF handler[h].digest.expected = snapshot.aggregate.version
                         THEN Changed(snapshot.aggregate, handler[h].key, handler[h].digest.op)
                         ELSE snapshot.aggregate
  <2>2. /\ handler'[h].phase = "ready" /\ handler'[h].incoming = incoming
        /\ handler'[h].key = handler[h].key /\ handler'[h].digest = handler[h].digest
    BY <1>3, <1>8, <2>1 DEF Load, Busy
  <2>3. \A g \in Handlers : g # h => handler'[g] = handler[g]
    BY <1>3, <1>8 DEF Load
  <2>4. snapshot.aggregate.version <= snapshot.aggregate.version
    BY DEF StoreInv, TypeOK, Snapshot, Aggregate
  <2>5. HandlersHold'
    BY <1>8, <2>2, <2>3, <2>4 DEF Load, StoreInv, HandlersHold
  <2>6. QED
    BY <1>2, <1>8, <2>5 DEF Load, StoreInv, RepliesMatch
<1>9. ASSUME NEW h \in Handlers, Abandon(h) PROVE StoreInv'
  BY <1>2, <1>5, <1>9 DEF Abandon, StoreInv, RepliesMatch
<1>10. ASSUME NEW h \in Handlers, SaveReplays(h) PROVE StoreInv'
  <2>1. handler[h] \in Busy
    BY <1>3, <1>10 DEF SaveReplays, Free
  <2>2. /\ handler'[h].phase = "answered"
        /\ handler'[h].incoming = snapshot.records[handler[h].key].result
        /\ handler'[h].key = handler[h].key /\ handler'[h].digest = handler[h].digest
    BY <1>3, <1>10, <2>1 DEF SaveReplays, StoredReceipt, Busy
  <2>3. \A g \in Handlers : g # h => handler'[g] = handler[g]
    BY <1>3, <1>10 DEF SaveReplays
  <2>4. IsResultOf(snapshot.aggregate.facts, snapshot.records[handler[h].key].result,
                   handler[h].key, handler[h].digest.op)
    BY <1>10, <2>1 DEF SaveReplays, StoredReceipt, StoreInv, ReceiptsMatchFacts, Busy
  <2>5. HandlersHold'
    BY <1>10, <2>2, <2>3, <2>4 DEF SaveReplays, StoreInv, HandlersHold
  <2>6. QED
    BY <1>2, <1>10, <2>5 DEF SaveReplays, StoreInv, RepliesMatch
<1>11. ASSUME NEW h \in Handlers, SaveCommits(h) PROVE StoreInv'
  BY <1>1, <1>11, CommitInv
<1>12. ASSUME NEW h \in Handlers, SaveRefuses(h) PROVE StoreInv'
  BY <1>2, <1>5, <1>12 DEF SaveRefuses, StoreInv, RepliesMatch
<1>13. ASSUME NEW h \in Handlers, Answer(h) PROVE StoreInv'
  <2>1. IsResultOf(snapshot.aggregate.facts, handler[h].incoming,
                   handler[h].key, handler[h].digest.op)
    BY <1>13 DEF Answer, StoreInv, HandlersHold
  <2>2. HandlersHold'
    BY <1>5, <1>13 DEF Answer
  <2>3. RepliesMatch'
    BY <1>13, <2>1 DEF Answer, StoreInv, RepliesMatch
  <2>4. QED
    BY <1>2, <1>13, <2>2, <2>3 DEF Answer
<1>14. QED
  BY <1>4, <1>6, <1>7, <1>8, <1>9, <1>10, <1>11, <1>12, <1>13 DEF Next, Step

(* The inductive invariant holds in every state the store reaches: facts,   *)
(* receipts, ledger, outbox and what the handlers hold fit together.         *)
THEOREM Invariance == Spec => []StoreInv
<1>1. Init => StoreInv
  BY InitInv
<1>2. StoreInv /\ [Next]_vars => StoreInv'
  BY StepInv
<1>3. QED
  BY <1>1, <1>2, PTL DEF Spec
-----------------------------------------------------------------------------
(* A save never writes a snapshot its own reader would reject.              *)
THEOREM AlwaysReadable == Spec => []SnapshotReadable
<1>1. StoreInv => SnapshotReadable
  BY DEF StoreInv
<1>2. QED
  BY <1>1, Invariance, PTL

(* An idempotency key changes the project at most once.                     *)
THEOREM AppliedOnce == Spec => []KeyAppliedOnce
<1>1. ASSUME StoreInv PROVE KeyAppliedOnce
  <2> DEFINE facts == snapshot.aggregate.facts
  <2>1. facts \in Seq(Fact)
    BY <1>1 DEF StoreInv, TypeOK, Snapshot, Aggregate
  <2>2. DOMAIN facts = 1 .. Len(facts)
    BY <2>1
  <2>3. \A i \in DOMAIN facts : snapshot.records[facts[i].key].result.version = i
    BY <1>1, <2>2 DEF StoreInv, ReceiptsMatchFacts
  <2>4. QED
    BY <2>3 DEF KeyAppliedOnce
<1>2. QED
  BY <1>1, Invariance, PTL

(* What a client was told stays in the project, for every retry the same.   *)
THEOREM NothingToldIsLost == Spec => []AnswersKept
<1>1. ASSUME StoreInv PROVE AnswersKept
  <2>1. snapshot.aggregate.facts \in Seq(Fact)
    BY <1>1 DEF StoreInv, TypeOK, Snapshot, Aggregate
  <2>2. QED
    BY <1>1, <2>1 DEF AnswersKept, StoreInv, RepliesMatch, IsResultOf
<1>2. QED
  BY <1>1, Invariance, PTL

(* The ledger and the outbox tell of every version since the first event.   *)
THEOREM LedgerTellsAll == Spec => []LedgerComplete
<1>1. StoreInv => LedgerComplete
  BY DEF StoreInv
<1>2. QED
  BY <1>1, Invariance, PTL
-----------------------------------------------------------------------------
(* The store implements the history of facts it promises: an accepted save  *)
(* extends the history, an answer tells a prefix of it, nothing else shows. *)
THEOREM StoreImplementsHistory == Spec => ImplementsHistory
<1> DEFINE history == snapshot.aggregate.facts
           told    == {[key |-> r.key, result |-> r.result.facts] : r \in replies}
<1>1. Init => History!Init
  <2> SUFFICES ASSUME Init PROVE History!Init
    OBVIOUS
  <2>1. told = {}
    BY DEF Init
  <2>2. CASE snapshot = NewFile
    BY <2>1, <2>2 DEF NewFile, Empty, History!Init
  <2>3. ASSUME NEW k \in Keys, NEW op \in Ops, snapshot = LegacyFile(k, op)
        PROVE  History!Init
    <3>1. history = <<[key |-> k, op |-> op]>>
      BY <2>3 DEF LegacyFile, Changed, Empty
    <3>2. [key |-> k, op |-> op] \in History!Fact
      BY DEF History!Fact
    <3>3. QED
      BY <2>1, <3>1, <3>2 DEF History!Init
  <2>4. QED
    BY <2>2, <2>3 DEF Init
<1>2. StoreInv /\ [Next]_vars => [History!Next]_<<history, told>>
  <2> SUFFICES ASSUME StoreInv, [Next]_vars
               PROVE  History!Next \/ (history' = history /\ told' = told)
    OBVIOUS
  <2>1. ASSUME snapshot' = snapshot, replies' = replies
        PROVE  history' = history /\ told' = told
    BY <2>1
  <2>2. ASSUME NEW h \in Handlers, SaveCommits(h) PROVE History!Next
    <3> DEFINE k == handler[h].key  op == handler[h].digest.op
    <3>1. handler[h] \in Busy /\ history' = Append(history, [key |-> k, op |-> op])
      <4>1. snapshot'.aggregate = Changed(snapshot.aggregate, k, op) /\ handler[h] \in Busy
        BY <2>2, CommitAppends
      <4>2. Changed(snapshot.aggregate, k, op).facts = Append(history, [key |-> k, op |-> op])
        BY DEF Changed
      <4>3. QED
        BY <4>1, <4>2
    <3>2. k \in Keys /\ op \in Ops
      BY <3>1 DEF Busy, Digest
    <3>3. ~History!HasKey(history, k)
      <4>1. history \in Seq(Fact) /\ DOMAIN history = 1 .. Len(history)
        BY DEF StoreInv, TypeOK, Snapshot, Aggregate
      <4>2. snapshot.records[k] = NoReceipt
        BY <2>2 DEF SaveCommits, StoredReceipt
      <4>3. QED
        BY <4>1, <4>2 DEF StoreInv, ReceiptsMatchFacts, History!HasKey
    <3>4. ~History!IsRetired(history)
      BY <2>2 DEF SaveCommits, AcceptsMutations, IsRetired, History!IsRetired
    <3>5. told' = told
      BY <2>2 DEF SaveCommits
    <3>6. QED
      BY <3>1, <3>2, <3>3, <3>4, <3>5 DEF History!Next, History!Extend
  <2>3. ASSUME NEW h \in Handlers, Answer(h) PROVE History!Next
    <3> DEFINE n == handler[h].incoming.version
    <3>1. IsResultOf(history, handler[h].incoming, handler[h].key, handler[h].digest.op)
      BY <2>3 DEF Answer, StoreInv, HandlersHold
    <3>2. history \in Seq(Fact)
      BY DEF StoreInv, TypeOK, Snapshot, Aggregate
    <3>3. n \in DOMAIN history
      BY <3>1, <3>2 DEF IsResultOf
    <3>4. told' = told \cup {[key |-> handler[h].key, result |-> handler[h].incoming.facts]}
      <4> DEFINE r0 == [key |-> handler[h].key, digest |-> handler[h].digest,
                        result |-> handler[h].incoming]
      <4>1. replies' = replies \cup {r0}
        BY <2>3 DEF Answer
      <4>2. r0.key = handler[h].key /\ r0.result.facts = handler[h].incoming.facts
        OBVIOUS
      <4> HIDE DEF r0
      <4>3. QED
        BY <4>1, <4>2, Zenon
    <3>5. told' = told \cup {[key |-> history[n].key, result |-> SubSeq(history, 1, n)]}
      BY <3>1, <3>4 DEF IsResultOf
    <3>6. history' = history
      BY <2>3 DEF Answer
    <3>7. QED
      BY <3>3, <3>5, <3>6 DEF History!Next, History!Tell
  <2>4. QED
    BY <2>1, <2>2, <2>3 DEF Next, Step, vars, ReceiveBootstrap, Receive, Load, Abandon,
       SaveReplays, SaveRefuses
<1>3. QED
  BY <1>1, <1>2, Invariance, PTL DEF Spec, ImplementsHistory, History!Spec
=============================================================================
