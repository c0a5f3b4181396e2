---------------------------- MODULE EpisodeStore ----------------------------
(***************************************************************************)
(* The durable aggregate of one project (runtime_episode_domain_store.py)  *)
(* and the request handlers that load it, compute a changed aggregate with *)
(* no lock held, and save it (runtime_episode_command_routes.py and        *)
(* runtime_episode_domain_routes.py).                                      *)
(*                                                                         *)
(* load and save each run under the exclusive file lock of the snapshot    *)
(* and the snapshot is replaced by one rename, so each is one action; all  *)
(* interleaving happens between the two.  A handler may die at any point,  *)
(* and its client may send the same request again.                         *)
(*                                                                         *)
(* An aggregate is its version and the sequence of facts its commands      *)
(* added.  A digest is injective on what it digests, so it is kept as      *)
(* that value.                                                             *)
(***************************************************************************)
EXTENDS Naturals, Sequences

CONSTANTS Handlers,   \* request handlers running at the same time
          Keys,       \* idempotency keys the clients use
          Ops,        \* what a command does to the project
          Retire,     \* the operation that retires the project
          NoReceipt   \* a key without idempotency record

ASSUME StoreConstants ==
  /\ Retire \in Ops
  /\ NoReceipt \notin [digest : [op : Ops, expected : Nat],
                       result : [version : Nat, facts : Seq([key : Keys, op : Ops])]]

VARIABLES
  snapshot,   \* the snapshot file of the project
  handler,    \* what each request handler is doing
  replies     \* the successful answers that reached a client

vars == <<snapshot, handler, replies>>
-----------------------------------------------------------------------------
Fact      == [key : Keys, op : Ops]
Aggregate == [version : Nat, facts : Seq(Fact)]
Digest    == [op : Ops, expected : Nat]
Receipt   == [digest : Digest, result : Aggregate]
Event     == [sequence : Nat, version : Nat, key : Keys, digest : Digest, result : Aggregate]
Record    == [event : Event, status : {"pending"}]
Projection == [version : Nat, aggregate : Aggregate, ledger : Seq(Event)]

(* A snapshot of version 0 stands for a file that does not exist yet.      *)
Snapshot == [aggregate  : Aggregate,
             records    : [Keys -> Receipt \cup {NoReceipt}],
             ledger     : Seq(Event),
             outbox     : Seq(Record),
             projection : Projection,
             ledgered   : BOOLEAN]  \* written since the ledger exists

(* A handler serves no request, or has one in hand.                         *)
Free == [phase |-> "idle"]
Busy == [phase    : {"received", "ready", "answered"},
         key      : Keys,
         digest   : Digest,
         incoming : Aggregate]

Empty == [version |-> 0, facts |-> <<>>]

Reply == [key : Keys, digest : Digest, result : Aggregate]
-----------------------------------------------------------------------------
IsRetired(a) == \E i \in DOMAIN a.facts : a.facts[i].op = Retire

(* The aggregate a command produces from the one it was given.             *)
Changed(a, k, op) ==
  [version |-> a.version + 1, facts |-> Append(a.facts, [key |-> k, op |-> op])]

ProjectionOf(a, ledger) == [version |-> a.version, aggregate |-> a, ledger |-> ledger]

(* The bootstrap snapshot: no file, or one written before the ledger was   *)
(* introduced, with its first version, its receipt and no ledger.          *)
NewFile ==
  [aggregate |-> Empty, records |-> [k \in Keys |-> NoReceipt],
   ledger |-> <<>>, outbox |-> <<>>, projection |-> ProjectionOf(Empty, <<>>),
   ledgered |-> FALSE]

LegacyFile(k, op) ==
  LET a == Changed(Empty, k, op)
  IN  [aggregate |-> a,
       records |-> [j \in Keys |-> IF j = k THEN [digest |-> [op |-> op, expected |-> 0], result |-> a]
                                            ELSE NoReceipt],
       ledger |-> <<>>, outbox |-> <<>>, projection |-> ProjectionOf(Empty, <<>>),
       ledgered |-> FALSE]

(* What _read_envelope insists on before load or save go on: no receipt    *)
(* newer than the aggregate, and, unless the file has no ledger at all, an  *)
(* outbox record for every event and a projection of the whole ledger.      *)
Readable(s) ==
  /\ \A k \in Keys : s.records[k] # NoReceipt =>
                       s.records[k].result.version <= s.aggregate.version
  /\ s.ledgered =>
       /\ Len(s.outbox) = Len(s.ledger)
       /\ \A i \in DOMAIN s.ledger :
             /\ s.ledger[i].sequence = i
             /\ s.ledger[i].version <= s.aggregate.version
             /\ s.outbox[i].event = s.ledger[i]
       /\ s.projection = ProjectionOf(s.aggregate, s.ledger)
-----------------------------------------------------------------------------
Init ==
  /\ \/ snapshot = NewFile
     \/ \E k \in Keys, op \in Ops : snapshot = LegacyFile(k, op)
  /\ handler = [h \in Handlers |-> Free]
  /\ replies = {}

(* A command arrives with the version its client says it has last seen.    *)
Receive(h, k, op, expected) ==
  /\ handler[h] = Free
  /\ handler' = [handler EXCEPT ![h] = [phase |-> "received", key |-> k,
                    digest |-> [op |-> op, expected |-> expected], incoming |-> Empty]]
  /\ UNCHANGED <<snapshot, replies>>

(* The bootstrap route takes a whole aggregate of version 1 and loads none. *)
ReceiveBootstrap(h, k, op) ==
  /\ handler[h] = Free
  /\ handler' = [handler EXCEPT ![h] = [phase |-> "ready", key |-> k,
                    digest |-> [op |-> op, expected |-> 0], incoming |-> Changed(Empty, k, op)]]
  /\ UNCHANGED <<snapshot, replies>>

(* load: a client that expects the loaded version gets its command run on   *)
(* it; any other is passed on with the loaded aggregate as it is, so that   *)
(* save can still find its receipt.                                         *)
Load(h) ==
  /\ handler[h].phase = "received"
  /\ snapshot.aggregate.version > 0
  /\ Readable(snapshot)
  /\ handler' = [handler EXCEPT
        ![h].phase = "ready",
        ![h].incoming =
            IF handler[h].digest.expected = snapshot.aggregate.version
            THEN Changed(snapshot.aggregate, handler[h].key, handler[h].digest.op)
            ELSE snapshot.aggregate]
  /\ UNCHANGED <<snapshot, replies>>

(* There is no readable snapshot to load, the command is refused by its own rules,   *)
(* or the process dies: the client hears nothing or an error.               *)
Abandon(h) ==
  /\ handler[h] # Free
  /\ handler' = [handler EXCEPT ![h] = Free]
  /\ UNCHANGED <<snapshot, replies>>

-----------------------------------------------------------------------------
(* A faulty store could forget what it answered.                            *)
ForgetsReceipts(k) == NoReceipt

StoredReceipt(k) == snapshot.records[k]

(* What a faulty store could do instead; each breaks a property below.      *)
RepliesWithReceipt(h) ==
  /\ handler[h] # Free /\ handler[h].phase = "ready"
  /\ StoredReceipt(handler[h].key) # NoReceipt
  /\ handler' = [handler EXCEPT ![h].phase = "answered",
                                ![h].incoming = StoredReceipt(handler[h].key)]
  /\ UNCHANGED <<snapshot, replies>>

RepliesWithPresent(h) ==
  /\ handler[h] # Free /\ handler[h].phase = "ready"
  /\ StoredReceipt(handler[h].key) # NoReceipt
  /\ handler' = [handler EXCEPT ![h].phase = "answered",
                                ![h].incoming = snapshot.aggregate]
  /\ UNCHANGED <<snapshot, replies>>

AcceptsAnyVersion(incoming, expected) == TRUE

SavesWithoutOutbox(s, k, d, incoming) ==
  LET ledger == Append(s.ledger, [sequence |-> Len(s.ledger) + 1, version |-> incoming.version,
                                  key |-> k, digest |-> d, result |-> incoming])
  IN  [s EXCEPT !.aggregate = incoming,
                !.records = [@ EXCEPT ![k] = [digest |-> d, result |-> incoming]],
                !.ledger = ledger,
                !.projection = ProjectionOf(incoming, ledger),
                !.ledgered = TRUE]

(* Compare and swap: the client saw the present version, and what it saves  *)
(* is the next one.                                                         *)
VersionAccepted(incoming, expected) ==
  /\ expected = snapshot.aggregate.version
  /\ incoming.version = snapshot.aggregate.version + 1

AcceptsMutations == ~IsRetired(snapshot.aggregate)

(* The snapshot that records incoming as the result of key k.               *)
Saved(s, k, d, incoming) ==
  LET event  == [sequence |-> Len(s.ledger) + 1, version |-> incoming.version,
                 key |-> k, digest |-> d, result |-> incoming]
      ledger == Append(s.ledger, event)
  IN  [aggregate  |-> incoming,
       records    |-> [s.records EXCEPT ![k] = [digest |-> d, result |-> incoming]],
       ledger     |-> ledger,
       outbox     |-> Append(s.outbox, [event |-> event, status |-> "pending"]),
       projection |-> ProjectionOf(incoming, ledger),
       ledgered   |-> TRUE]

-----------------------------------------------------------------------------
(* save, one action per way out.                                            *)
(* The key is known with this payload: the stored result is the answer.     *)
SaveReplays(h) ==
  /\ handler[h].phase = "ready"
  /\ Readable(snapshot)
  /\ StoredReceipt(handler[h].key) # NoReceipt
  /\ StoredReceipt(handler[h].key).digest = handler[h].digest
  /\ handler' = [handler EXCEPT ![h].phase = "answered",
                                ![h].incoming = StoredReceipt(handler[h].key).result]
  /\ UNCHANGED <<snapshot, replies>>

SaveCommits(h) ==
  /\ handler[h].phase = "ready"
  /\ Readable(snapshot)
  /\ StoredReceipt(handler[h].key) = NoReceipt
  /\ VersionAccepted(handler[h].incoming, handler[h].digest.expected)
  /\ AcceptsMutations
  /\ snapshot' = Saved(snapshot, handler[h].key, handler[h].digest, handler[h].incoming)
  /\ handler' = [handler EXCEPT ![h].phase = "answered"]
  /\ UNCHANGED replies

(* An unreadable snapshot, a key used with another payload, a version that  *)
(* moved on, a retired project: save raises and stores nothing.             *)
SaveRefuses(h) ==
  /\ handler[h].phase = "ready"
  /\ \/ ~Readable(snapshot)
     \/ /\ StoredReceipt(handler[h].key) # NoReceipt
        /\ StoredReceipt(handler[h].key).digest # handler[h].digest
     \/ /\ StoredReceipt(handler[h].key) = NoReceipt
        /\ \/ ~VersionAccepted(handler[h].incoming, handler[h].digest.expected)
           \/ ~AcceptsMutations
  /\ handler' = [handler EXCEPT ![h] = Free]
  /\ UNCHANGED <<snapshot, replies>>

(* The answer reaches the client.                                           *)
Answer(h) ==
  /\ handler[h].phase = "answered"
  /\ replies' = replies \cup {[key |-> handler[h].key, digest |-> handler[h].digest,
                               result |-> handler[h].incoming]}
  /\ handler' = [handler EXCEPT ![h] = Free]
  /\ UNCHANGED snapshot

Step(h) ==
  \/ \E k \in Keys, op \in Ops :
        \/ ReceiveBootstrap(h, k, op)
        \/ \E v \in 1 .. snapshot.aggregate.version + 1 : Receive(h, k, op, v)
  \/ Load(h)
  \/ Abandon(h)
  \/ SaveReplays(h)
  \/ SaveCommits(h)
  \/ SaveRefuses(h)
  \/ Answer(h)

Next == \E h \in Handlers : Step(h)

Spec == Init /\ [][Next]_vars
-----------------------------------------------------------------------------
(* The type of the state (_read_envelope checks the stored half of it).     *)
TypeOK ==
  /\ snapshot \in Snapshot
  /\ handler \in [Handlers -> Busy \cup {Free}]
  /\ replies \subseteq Reply

(* save never writes a snapshot its own reader would reject: if it did, the *)
(* project could neither be loaded nor saved again.                         *)
SnapshotReadable == Readable(snapshot)

(* An idempotency key changes the project at most once, however often and   *)
(* with whatever payload it is sent, by however many handlers at a time.    *)
KeyAppliedOnce ==
  \A i, j \in DOMAIN snapshot.aggregate.facts :
     snapshot.aggregate.facts[i].key = snapshot.aggregate.facts[j].key => i = j

(* A change a client was told of is in the project for good, and every      *)
(* retry was told the same: no save that started from an older aggregate    *)
(* overwrites it.                                                           *)
AnswersKept ==
  \A r \in replies :
    /\ r.result.version \in DOMAIN snapshot.aggregate.facts
    /\ r.result.facts = SubSeq(snapshot.aggregate.facts, 1, r.result.version)
    /\ snapshot.aggregate.facts[r.result.version].key = r.key
    /\ snapshot.aggregate.facts[r.result.version].op = r.digest.op

(* Once ledgered, the ledger and with it the outbox tell of every version   *)
(* since the first event, in order, with no gap and no repetition: a        *)
(* consumer of the outbox can rebuild each aggregate.                       *)
LedgerComplete ==
  \A i \in DOMAIN snapshot.ledger :
    /\ snapshot.ledger[i].version = snapshot.aggregate.version - Len(snapshot.ledger) + i
    /\ snapshot.ledger[i].result.facts =
         SubSeq(snapshot.aggregate.facts, 1, snapshot.ledger[i].version)

-----------------------------------------------------------------------------
(* The inductive invariant of the store, part by part.                      *)
VersionCounts == snapshot.aggregate.version = Len(snapshot.aggregate.facts)

(* result is the aggregate as it was when the fact of key k was added.      *)
IsResultOf(facts, result, k, op) ==
  /\ result.version \in 1 .. Len(facts)
  /\ result.facts = SubSeq(facts, 1, result.version)
  /\ facts[result.version].key = k
  /\ facts[result.version].op = op

(* Receipts and facts correspond one to one.                                *)
ReceiptsMatchFacts ==
  /\ \A k \in Keys :
        snapshot.records[k] # NoReceipt =>
           IsResultOf(snapshot.aggregate.facts, snapshot.records[k].result,
                      k, snapshot.records[k].digest.op)
  /\ \A i \in 1 .. Len(snapshot.aggregate.facts) :
        /\ snapshot.records[snapshot.aggregate.facts[i].key] # NoReceipt
        /\ snapshot.records[snapshot.aggregate.facts[i].key].result.version = i

(* What a handler holds is too old to be accepted, or extends the present.  *)
HandlersHold ==
  \A h \in Handlers :
    /\ handler[h].phase = "ready" =>
          \/ handler[h].incoming.version <= snapshot.aggregate.version
          \/ handler[h].incoming =
               Changed(snapshot.aggregate, handler[h].key, handler[h].digest.op)
    /\ handler[h].phase = "answered" =>
          IsResultOf(snapshot.aggregate.facts, handler[h].incoming,
                     handler[h].key, handler[h].digest.op)

NoLedgerYet == ~snapshot.ledgered => snapshot.ledger = <<>> /\ snapshot.outbox = <<>>

RepliesMatch ==
  \A r \in replies : IsResultOf(snapshot.aggregate.facts, r.result, r.key, r.digest.op)

StoreInv ==
  /\ TypeOK
  /\ VersionCounts
  /\ ReceiptsMatchFacts
  /\ HandlersHold
  /\ RepliesMatch
  /\ NoLedgerYet
  /\ SnapshotReadable
  /\ LedgerComplete

(* The store implements the history of facts it promises.                   *)
History == INSTANCE EpisodeHistory WITH
             history <- snapshot.aggregate.facts,
             told <- {[key |-> r.key, result |-> r.result.facts] : r \in replies}
ImplementsHistory == History!Spec
=============================================================================
