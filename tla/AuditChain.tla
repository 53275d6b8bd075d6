------------------------------ MODULE AuditChain ------------------------------
(***************************************************************************)
(* The audit log: src/helpers/audit.py over src/helpers/storage.py.         *)
(*                                                                         *)
(* Every scope has a head and numbered rows in one SQLite file; each row    *)
(* carries the hash of the one before it.  A store object (one per process) *)
(* keeps the rows it validated, so that the next append need not hash them  *)
(* again.  Writers are threads of the stores.  What BEGIN IMMEDIATE ..      *)
(* COMMIT does is one step; reading the clock before it and publishing the  *)
(* validated rows after it are steps of their own.                          *)
(*                                                                         *)
(* SHA-256 is taken to be injective, and the hash of an event is modelled   *)
(* by the sequence of the payloads it covers.  Redaction, the aliases and   *)
(* the bounds of an event's fields are left out: they do not depend on the  *)
(* state.  The database file is one inode: another one shares no cache key. *)
(***************************************************************************)
EXTENDS Integers, Sequences, FiniteSets

CONSTANTS
  Scopes,        \* project, profile, chat
  Stores,        \* AuditStore objects
  Writers, StoreOf,
  Contents,      \* redacted events
  Garbage,       \* what a damaged row may hold instead
  MaxEvents,     \* _MAX_EVENTS
  MaxAge,        \* _MAX_AGE
  CacheScopes,   \* _CACHE_MAX_SCOPES
  CacheRows,     \* _CACHE_MAX_BYTES, counted in rows
  Times,         \* the clock values that occur: the wall clock may be set back
  MaxAppends,    \* bound: events of all scopes together
  FaultBudget    \* bound: failures, crashes, restores and damages

ASSUME AuditAssumption ==
  /\ StoreOf \in [Writers -> Stores]
  /\ Garbage \notin Contents
  /\ MaxEvents \in Nat \ {0} /\ MaxAge \in Nat \ {0}
  /\ CacheScopes \in Nat \ {0} /\ CacheRows \in Nat
  /\ Times \subseteq Int
  /\ MaxAppends \in Nat /\ FaultBudget \in Nat

VARIABLES
  heads,    \* audit_heads
  rows,     \* audit_events: sequence -> row, for each scope
  cache,    \* _validated_rows of each store, the entry published first in front
  writers,  \* the append() each writer runs
  committed, \* history: <<sequence, event hash>> of every append that committed
  damaged,  \* history: the scopes whose stored rows were altered by other means
  faults

vars == <<heads, rows, cache, writers, committed, damaged, faults>>

Payload == [sequence: Nat, scope: Scopes, at: Times, content: Contents \cup {Garbage}]
Hash == Seq(Payload)
ZeroHash == <<>>
ChainHash(previous, payload) == Append(previous, payload)

Row == [at: Times, payload: Payload, prev: Hash, hash: Hash]
NoRows == [n \in {} |-> n]
Table == UNION {[S -> Row] : S \in SUBSET Nat}

NoHead == [base |-> 0, baseHash |-> ZeroHash, end |-> 0, endHash |-> ZeroHash, count |-> -1]
HeadRow == [base: Nat, baseHash: Hash, end: Nat, endHash: Hash, count: Nat]

-----------------------------------------------------------------------------
(* _validate_state(): the head, then each row either equal to the one cached *)
(* under its number or checked against its payload, in the chain's order.    *)
Previous(h, rs, n) == IF n = h.base + 1 THEN h.baseHash ELSE rs[n - 1].hash

\* Mutant: the time the retention goes by is not compared with the payload's.
GenuineUntimed(s, n, r) ==
  /\ r.payload.sequence = n /\ r.payload.scope = s
  /\ r.hash = ChainHash(r.prev, r.payload)

Genuine(s, n, r) ==
  /\ r.payload.sequence = n /\ r.payload.scope = s
  /\ r.at = r.payload.at
  /\ r.hash = ChainHash(r.prev, r.payload)

\* Mutant: a cached row is recognised by its hash.
RecalledByHash(known, n, r) == n \in DOMAIN known /\ known[n].hash = r.hash

(* _row_signature(): every stored column, with its type. *)
Recalled(known, n, r) == n \in DOMAIN known /\ known[n] = r

Valid(s, h, rs, known) ==
  IF h = NoHead THEN rs = NoRows
  ELSE /\ h.base <= h.end /\ h.count <= MaxEvents /\ h.count = h.end - h.base
       /\ h.base = 0 => h.baseHash = ZeroHash
       /\ DOMAIN rs = (h.base + 1)..h.end
       /\ \A n \in DOMAIN rs :
            /\ rs[n].prev = Previous(h, rs, n)
            /\ Recalled(known, n, rs[n]) \/ Genuine(s, n, rs[n])
       /\ h.endHash = Previous(h, rs, h.end + 1)

(* verify_chain() trusts no cache. *)
VerifyChain(s) == Valid(s, heads[s], rows[s], NoRows)

(* list_redacted(): the contents, the last event first, or AuditStorageError. *)
Refused == [ok |-> FALSE]
ListRedacted(s, limit) ==
  LET end == heads[s].end
      kept == Cardinality(DOMAIN rows[s])
  IN  IF ~VerifyChain(s) THEN Refused
      ELSE [ok |-> TRUE,
            events |-> [i \in 1..(IF kept < limit THEN kept ELSE limit) |-> rows[s][end + 1 - i]]]

Known(p, s) ==
  LET hits == {i \in DOMAIN cache[p] : cache[p][i].scope = s}
  IN  IF hits = {} THEN NoRows ELSE cache[p][CHOOSE i \in hits : TRUE].rows
AppendAccepts(p, s) == Valid(s, heads[s], rows[s], Known(p, s))

-----------------------------------------------------------------------------
Idle == [pc |-> "idle"]

Init ==
  /\ heads = [s \in Scopes |-> NoHead]
  /\ rows = [s \in Scopes |-> NoRows]
  /\ cache = [p \in Stores |-> <<>>]
  /\ writers = [w \in Writers |-> Idle]
  /\ committed = [s \in Scopes |-> {}]
  /\ damaged = {}
  /\ faults = FaultBudget

At(w, pc) == writers[w].pc = pc
Return(w) == writers' = [writers EXCEPT ![w] = Idle]
Forget(p) == cache' = [cache EXCEPT ![p] = <<>>]

(* append(): the event's time is read before the transaction begins. *)
AppendBegin(w, s, t, content) ==
  /\ At(w, "idle")
  /\ Cardinality(UNION {{z} \X committed[z] : z \in Scopes}) < MaxAppends
  /\ writers' = [writers EXCEPT ![w] =
       [pc |-> "write", scope |-> s, at |-> t, content |-> content]]
  /\ UNCHANGED <<heads, rows, cache, committed, damaged, faults>>

\* Mutant: the next number is taken from the number of rows kept.
NextByCount(s) == (IF heads[s] = NoHead THEN 0 ELSE heads[s].count) + 1

NextSequence(s) == heads[s].end + 1

NewRow(w) ==
  LET s == writers[w].scope
      payload == [sequence |-> NextSequence(s), scope |-> s, at |-> writers[w].at,
                  content |-> writers[w].content]
  IN  [at |-> writers[w].at, payload |-> payload, prev |-> heads[s].endHash,
       hash |-> ChainHash(heads[s].endHash, payload)]

Grown(w) ==
  LET s == writers[w].scope
  IN  [n \in DOMAIN rows[s] \cup {NextSequence(s)} |->
         IF n = NextSequence(s) THEN NewRow(w) ELSE rows[s][n]]

\* Mutant: retention stops at the first row that is young enough.
DoomedInOrder(w, table, base, n) ==
  \/ \A m \in DOMAIN table : m <= n => table[m].at <= writers[w].at - MaxAge
  \/ n + MaxEvents <= base + Cardinality(DOMAIN table)

(* _prune(): a row is too old, or more than _MAX_EVENTS rows are kept. *)
Doomed(w, table, base, n) ==
  \/ table[n].at <= writers[w].at - MaxAge
  \/ n + MaxEvents <= base + Cardinality(DOMAIN table)

(* The last doomed row becomes the base, and everything up to it is deleted. *)
PrunesTo(w, table, base, b) ==
  /\ \A n \in DOMAIN table : Doomed(w, table, base, n) => n <= b
  /\ b = base \/ (b \in DOMAIN table /\ Doomed(w, table, base, b))

AppendCommit(w) ==
  LET s == writers[w].scope
      table == Grown(w)
  IN  /\ At(w, "write")
      /\ AppendAccepts(StoreOf[w], s)
      /\ \E b \in heads[s].base..heads[s].end :
           /\ PrunesTo(w, table, heads[s].base, b)
           /\ rows' = [rows EXCEPT ![s] = [n \in {m \in DOMAIN table : m > b} |-> table[n]]]
           /\ heads' = [heads EXCEPT ![s] =
                [base |-> b,
                 baseHash |-> IF b = heads[s].base THEN heads[s].baseHash ELSE table[b].hash,
                 end |-> NextSequence(s), endHash |-> NewRow(w).hash,
                 count |-> NextSequence(s) - b]]
      /\ writers' = [writers EXCEPT ![w] =
           [pc |-> "publish", scope |-> s, rows |-> rows[s]]]
      /\ committed' = [committed EXCEPT ![s] =
           committed[s] \cup {<<NextSequence(s), NewRow(w).hash>>}]
      /\ UNCHANGED <<cache, damaged, faults>>

(* The stored chain is not valid: the cache goes, and the append raises. *)
AppendRefuse(w) ==
  /\ At(w, "write")
  /\ ~AppendAccepts(StoreOf[w], writers[w].scope)
  /\ Forget(StoreOf[w])
  /\ Return(w)
  /\ UNCHANGED <<heads, rows, committed, damaged, faults>>

-----------------------------------------------------------------------------
Total(entries) ==
  Cardinality(UNION {{<<i, n>> : n \in DOMAIN entries[i].rows} : i \in DOMAIN entries})

\* Mutant: the entry that is replaced stays.
WithoutScopeNever(entries, s) == entries

WithoutScope(entries, s) ==
  IF \A i \in DOMAIN entries : entries[i].scope # s THEN entries
  ELSE LET old == CHOOSE i \in DOMAIN entries : entries[i].scope = s
       IN  SubSeq(entries, 1, old - 1) \o SubSeq(entries, old + 1, Len(entries))

Size(rs) == Cardinality(DOMAIN rs)
Stored(rs) == rs # NoRows /\ Size(rs) <= CacheRows

(* The oldest entries go, one by one, until the next k - 1 are gone and the  *)
(* new one fits; they go for one that is not stored, too.                    *)
Fits(entries, rs, k) ==
  /\ Total(SubSeq(entries, k, Len(entries))) + (IF Stored(rs) THEN Size(rs) ELSE 0) <= CacheRows
  /\ Len(entries) - k + 1 < CacheScopes
Evicts(entries, rs, k) ==
  /\ k = Len(entries) + 1 \/ Fits(entries, rs, k)
  /\ \A j \in 1..(k - 1) : ~Fits(entries, rs, j)

(* _publish_cache(): the rows read before the append, validated by it.       *)
Published(entries, s, rs) ==
  IF Stored(rs) THEN Append(entries, [scope |-> s, rows |-> rs]) ELSE entries

AppendPublish(w) ==
  LET p == StoreOf[w]
      s == writers[w].scope
      rest == WithoutScope(cache[p], s)
  IN  /\ At(w, "publish")
      /\ \E k \in 1..(Len(rest) + 1) :
           /\ Evicts(rest, writers[w].rows, k)
           /\ cache' = [cache EXCEPT ![p] =
                Published(SubSeq(rest, k, Len(rest)), s, writers[w].rows)]
      /\ Return(w)
      /\ UNCHANGED <<heads, rows, committed, damaged, faults>>

-----------------------------------------------------------------------------
Fault == faults > 0 /\ faults' = faults - 1

(* SQLite fails, or something after the commit does: nothing is cached, the  *)
(* transaction is rolled back unless it was committed, and the append raises.*)
AppendFails(w) ==
  /\ Fault
  /\ writers[w].pc \in {"write", "publish"}
  /\ Forget(StoreOf[w])
  /\ Return(w)
  /\ UNCHANGED <<heads, rows, committed, damaged>>

(* The process of a store dies. *)
Crash(p) ==
  /\ Fault
  /\ Forget(p)
  /\ writers' = [w \in Writers |-> IF StoreOf[w] = p THEN Idle ELSE writers[w]]
  /\ UNCHANGED <<heads, rows, committed, damaged>>

(* An older copy of the database is put back in place while stores run: it   *)
(* ends at event n, the newest of an older chain.                            *)
Restore(s, n) ==
  /\ Fault
  /\ s \notin damaged /\ heads[s] # NoHead
  /\ n \in (heads[s].base + 1)..(heads[s].end - 1)
  /\ rows' = [rows EXCEPT ![s] = [m \in (heads[s].base + 1)..n |-> rows[s][m]]]
  /\ heads' = [heads EXCEPT ![s].end = n, ![s].count = n - heads[s].base,
                            ![s].endHash = Previous(heads[s], rows[s], n + 1)]
  /\ committed' = [committed EXCEPT ![s] = {a \in committed[s] : a[1] <= n}]
  /\ UNCHANGED <<cache, writers, damaged>>

(* One column of the head or of a row changes, or a row is lost.             *)
Altered(s) ==
  {[heads[s] EXCEPT !.base = k] : k \in 0..MaxAppends}
    \cup {[heads[s] EXCEPT !.end = k] : k \in 0..MaxAppends}
    \cup {[heads[s] EXCEPT !.count = k] : k \in 0..MaxAppends}
    \cup {[heads[s] EXCEPT !.baseHash = x] : x \in {ZeroHash, heads[s].endHash}}
    \cup {[heads[s] EXCEPT !.endHash = x] : x \in {ZeroHash, heads[s].baseHash}}

AlteredRow(r) ==
  {[r EXCEPT !.at = t] : t \in Times}
    \cup {[r EXCEPT !.payload.at = t] : t \in Times}
    \cup {[r EXCEPT !.payload.content = Garbage]}
    \cup {[r EXCEPT !.hash = r.prev], [r EXCEPT !.prev = r.hash]}

Damage(s) ==
  /\ Fault
  /\ s \notin damaged /\ heads[s] # NoHead
  /\ \/ /\ heads' \in {[heads EXCEPT ![s] = h] : h \in Altered(s) \cup {NoHead}}
        /\ heads' # heads
        /\ UNCHANGED rows
     \/ /\ \E n \in DOMAIN rows[s] :
             \/ rows' \in {[rows EXCEPT ![s][n] = r] : r \in AlteredRow(rows[s][n])}
             \/ rows' = [rows EXCEPT ![s] = [m \in DOMAIN rows[s] \ {n} |-> rows[s][m]]]
        /\ rows' # rows
        /\ UNCHANGED heads
  /\ damaged' = damaged \cup {s}
  /\ UNCHANGED <<cache, writers, committed>>

-----------------------------------------------------------------------------
Next ==
  \/ \E w \in Writers, s \in Scopes, t \in Times, content \in Contents :
       AppendBegin(w, s, t, content)
  \/ \E w \in Writers :
       AppendCommit(w) \/ AppendRefuse(w) \/ AppendPublish(w) \/ AppendFails(w)
  \/ \E p \in Stores : Crash(p)
  \/ \E s \in Scopes : Damage(s) \/ \E n \in 0..MaxAppends : Restore(s, n)

Spec == Init /\ [][Next]_vars

-----------------------------------------------------------------------------
WriterState ==
  {Idle}
    \cup [pc: {"write"}, scope: Scopes, at: Times, content: Contents]
    \cup [pc: {"publish"}, scope: Scopes, rows: Table]

(***************************************************************************)
(* Types, and the cache of a store: one entry per scope, within both limits *)
(* (audit.py _publish_cache).  Written with the sets TLC cannot enumerate   *)
(* kept out.                                                               *)
(***************************************************************************)
RowsOK(rs) == \A n \in DOMAIN rs : n \in Nat /\ rs[n].at \in Times /\ rs[n].payload \in Payload
AuditTypeOK ==
  /\ \A s \in Scopes :
       /\ heads[s] = NoHead \/ (heads[s].base \in Nat /\ heads[s].end \in Nat /\ heads[s].count \in Nat)
       /\ RowsOK(rows[s])
       /\ \A a \in committed[s] : a[1] \in Nat
  /\ \A p \in Stores :
       /\ Len(cache[p]) <= CacheScopes /\ Total(cache[p]) <= CacheRows
       /\ \A i, j \in DOMAIN cache[p] : cache[p][i].scope = cache[p][j].scope => i = j
       /\ \A i \in DOMAIN cache[p] : cache[p][i].rows # NoRows /\ RowsOK(cache[p][i].rows)
  /\ \A w \in Writers : writers[w].pc \in {"idle", "write", "publish"}
  /\ damaged \subseteq Scopes /\ faults \in Nat

(***************************************************************************)
(* A store that remembers validated rows judges a chain as one that hashes  *)
(* every row, whatever other stores append, a restore takes back, an older  *)
(* commit publishes late or a disk alters: the cache is "never an           *)
(* authorization or integrity shortcut" (audit.py _publish_cache).          *)
(***************************************************************************)
CacheAgrees == \A p \in Stores, s \in Scopes : AppendAccepts(p, s) = VerifyChain(s)

(***************************************************************************)
(* One altered column or lost row anywhere in a scope's chain is seen by    *)
(* the verification (audit.py _validate_state), so that nothing is appended *)
(* to it or listed from it.                                                *)
(***************************************************************************)
DamageIsSeen == \A s \in damaged : ~ListRedacted(s, MaxEvents).ok

(***************************************************************************)
(* An append that committed stays in the chain at the number and with the   *)
(* hash it returns, through concurrent appends, failures and crashes,      *)
(* until retention has passed it, and is listed there; the hash stays that  *)
(* of the history up to it after retention has passed it, too, so that the  *)
(* head vouches for all that was ever returned; an undamaged chain always   *)
(* verifies (audit.py append, _prune, list_redacted).                      *)
(***************************************************************************)
CommittedIsKept ==
  \A s \in Scopes \ damaged :
    LET listed == ListRedacted(s, MaxEvents)
    IN  /\ listed.ok
        /\ \A a \in committed[s] :
             /\ a[1] <= heads[s].end
             /\ a[1] > heads[s].base => listed.events[heads[s].end + 1 - a[1]].hash = a[2]
             /\ a[2] = SubSeq(heads[s].endHash, 1, a[1])

(***************************************************************************)
(* No more than _MAX_EVENTS rows are kept, and none that was _MAX_AGE old   *)
(* when the last event occurred, though events are not stored in the order  *)
(* of their times (audit.py append reads the clock before its transaction,  *)
(* and the clock may be set back).                                         *)
(***************************************************************************)
RetentionIsExact ==
  \A s \in Scopes \ damaged : heads[s] # NoHead =>
    /\ Cardinality(DOMAIN rows[s]) <= MaxEvents
    /\ heads[s].end \in DOMAIN rows[s] =>
         \A n \in DOMAIN rows[s] : rows[s][n].at > rows[s][heads[s].end].at - MaxAge

(***************************************************************************)
(* Types and limits together.                                               *)
(***************************************************************************)
AuditLimits == AuditTypeOK /\ RetentionIsExact

-----------------------------------------------------------------------------
(* What the log of a scope is: the rows it keeps, after the events that the  *)
(* base's hash covers; or lost, when the chain does not verify.              *)
Covered(s, i) ==
  IF i <= heads[s].base THEN heads[s].baseHash[i] ELSE rows[s][i].payload

LogOf(s) ==
  IF ~VerifyChain(s) THEN [ok |-> FALSE]
  ELSE [ok |-> TRUE, gone |-> heads[s].base,
        events |-> [i \in 1..heads[s].end |->
                      [at |-> Covered(s, i).at, content |-> Covered(s, i).content]]]

EL == INSTANCE EventLog WITH log <- [s \in Scopes |-> LogOf(s)]

(***************************************************************************)
(* Through its transactions, caches, failures, crashes and restored copies,  *)
(* the store implements EventLog: a log per scope that changes by whole      *)
(* events at its end, retained exactly, and that is lost for good once it    *)
(* was altered (audit.py append, _prune, verify_chain, list_redacted).       *)
(***************************************************************************)
ImplementsEventLog == EL!LogSpec

=============================================================================
