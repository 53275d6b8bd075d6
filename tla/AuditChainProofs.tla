--------------------------- MODULE AuditChainProofs ---------------------------
(***************************************************************************)
(* Theorems about the audit log, for any number of scopes, stores, writers  *)
(* and events, and whatever the clock does.  The hash of an event is the     *)
(* sequence it covers, so that equal hashes mean equal histories.           *)
(***************************************************************************)
EXTENDS AuditChain, SequenceTheorems, FiniteSetTheorems, TLAPS

Entry == [scope: Scopes, rows: Table]

ChainTyped ==
  /\ heads \in [Scopes -> HeadRow \cup {NoHead}]
  /\ rows \in [Scopes -> Table]
  /\ writers \in [Writers -> WriterState]
  /\ damaged \subseteq Scopes

\* What a store may remember under a scope: rows that were checked.
Checked(s, rs) == \A n \in DOMAIN rs : Genuine(s, n, rs[n])
Validated == {e \in Entry : Checked(e.scope, e.rows)}

CacheIsValidated ==
  /\ cache \in [Stores -> Seq(Validated)]
  /\ \A w \in Writers : writers[w].pc = "publish" => Checked(writers[w].scope, writers[w].rows)

-----------------------------------------------------------------------------
(* Types.                                                                    *)
LEMMA TableRows ==
  ASSUME NEW f
  PROVE  f \in Table <=> DOMAIN f \subseteq Nat /\ f \in [DOMAIN f -> Row]
BY DEF Table

LEMMA NewRowTyped ==
  ASSUME ChainTyped, NEW w \in Writers, At(w, "write")
  PROVE  /\ writers[w].scope \in Scopes /\ writers[w].at \in Times
         /\ writers[w].content \in Contents
         /\ NewRow(w) \in Row
         /\ NextSequence(writers[w].scope) \in Nat
<1>1. writers[w] \in [pc: {"write"}, scope: Scopes, at: Times, content: Contents]
  BY DEF ChainTyped, At, WriterState, Idle
<1> DEFINE s == writers[w].scope
<1>2. s \in Scopes /\ writers[w].at \in Times /\ writers[w].content \in Contents
  BY <1>1
<1>3. heads[s].end \in Nat /\ heads[s].endHash \in Hash
  <2>1. CASE heads[s] \in HeadRow
    BY <2>1 DEF HeadRow
  <2>2. CASE heads[s] = NoHead
    BY <2>2, EmptySeq DEF NoHead, ZeroHash, Hash
  <2> QED
    BY <1>2, <2>1, <2>2 DEF ChainTyped
<1> DEFINE payload == [sequence |-> NextSequence(s), scope |-> s, at |-> writers[w].at,
                       content |-> writers[w].content]
<1>4. payload \in Payload /\ NextSequence(s) \in Nat
  BY <1>2, <1>3 DEF Payload, NextSequence
<1>5. Append(heads[s].endHash, payload) \in Hash
  BY <1>3, <1>4, AppendProperties DEF Hash
<1> QED
  BY <1>2, <1>3, <1>4, <1>5 DEF NewRow, Row, ChainHash
-----------------------------------------------------------------------------
(* The cache.                                                                *)
LEMMA KnownIsChecked ==
  ASSUME CacheIsValidated, NEW p \in Stores, NEW s \in Scopes
  PROVE  Checked(s, Known(p, s))
<1> DEFINE hits == {i \in DOMAIN cache[p] : cache[p][i].scope = s}
<1>1. CASE hits = {}
  <2>1. Known(p, s) = NoRows
    BY <1>1 DEF Known
  <2> QED
    BY <2>1 DEF Checked, NoRows
<1>2. CASE hits # {}
  <2> DEFINE i == CHOOSE j \in hits : TRUE
  <2>1. i \in DOMAIN cache[p] /\ cache[p][i].scope = s
    BY <1>2
  <2>2. cache[p] \in Seq(Validated)
    BY DEF CacheIsValidated
  <2>3. cache[p][i] \in Validated
    BY <2>1, <2>2, LenProperties, ElementOfSeq
  <2>4. Known(p, s) = cache[p][i].rows
    BY <1>2 DEF Known
  <2> QED
    BY <2>1, <2>3, <2>4 DEF Validated
<1> QED
  BY <1>1, <1>2

LEMMA MemoryAgrees ==
  ASSUME CacheIsValidated, NEW p \in Stores, NEW s \in Scopes
  PROVE  /\ AppendAccepts(p, s) = VerifyChain(s)
         /\ AppendAccepts(p, s) => Checked(s, rows[s])
<1>1. \A n \in DOMAIN rows[s] :
        Recalled(Known(p, s), n, rows[s][n]) => Genuine(s, n, rows[s][n])
  BY KnownIsChecked DEF Checked, Recalled
<1>2. \A n, r : ~Recalled(NoRows, n, r)
  BY DEF Recalled, NoRows
<1>3. AppendAccepts(p, s) <=> VerifyChain(s)
  BY <1>1, <1>2 DEF AppendAccepts, VerifyChain, Valid
<1>4. AppendAccepts(p, s) \in BOOLEAN /\ VerifyChain(s) \in BOOLEAN
  BY DEF AppendAccepts, VerifyChain, Valid
<1>5. AppendAccepts(p, s) => Checked(s, rows[s])
  BY <1>1 DEF AppendAccepts, Valid, Checked, NoRows
<1> QED
  BY <1>3, <1>4, <1>5

(* Entries move to the back, and the oldest go.                              *)
LEMMA SuffixTyped ==
  ASSUME NEW S, NEW q \in Seq(S), NEW m \in Nat \ {0}, NEW n \in 0..Len(q)
  PROVE  SubSeq(q, m, n) \in Seq(S)
<1>1. \A i \in m..n : q[i] \in S
  BY LenProperties, ElementOfSeq
<1> QED
  BY <1>1, LenProperties, SubSeqProperties

LEMMA ForgottenTyped ==
  ASSUME NEW q \in Seq(Validated), NEW s
  PROVE  WithoutScope(q, s) \in Seq(Validated)
<1>1. CASE \A i \in DOMAIN q : q[i].scope # s
  BY <1>1 DEF WithoutScope
<1>2. CASE ~\A i \in DOMAIN q : q[i].scope # s
  <2> DEFINE old == CHOOSE i \in DOMAIN q : q[i].scope = s
  <2>1. old \in 1..Len(q) /\ Len(q) \in Nat
    BY <1>2, LenProperties
  <2>2. WithoutScope(q, s) = SubSeq(q, 1, old - 1) \o SubSeq(q, old + 1, Len(q))
    BY <1>2 DEF WithoutScope
  <2> HIDE DEF old
  <2>3. SubSeq(q, 1, old - 1) \in Seq(Validated)
    BY <2>1, SuffixTyped
  <2>4. SubSeq(q, old + 1, Len(q)) \in Seq(Validated)
    BY <2>1, SuffixTyped
  <2> QED
    BY <2>2, <2>3, <2>4, ConcatProperties
<1> QED
  BY <1>1, <1>2

LEMMA PublishedTyped ==
  ASSUME NEW q \in Seq(Validated), NEW s \in Scopes, NEW rs \in Table, Checked(s, rs),
         NEW k \in 1..(Len(q) + 1)
  PROVE  Published(SubSeq(q, k, Len(q)), s, rs) \in Seq(Validated)
<1>1. SubSeq(q, k, Len(q)) \in Seq(Validated)
  BY LenProperties, SuffixTyped
<1>2. [scope |-> s, rows |-> rs] \in Validated
  BY DEF Validated, Entry
<1> QED
  BY <1>1, <1>2, AppendProperties DEF Published
-----------------------------------------------------------------------------
(* What a chain that verifies looks like, the empty one of no head included. *)
LEMMA ValidShape ==
  ASSUME ChainTyped, NEW s \in Scopes, VerifyChain(s)
  PROVE  /\ heads[s].base \in Nat /\ heads[s].end \in Nat
         /\ heads[s].base <= heads[s].end /\ heads[s].end - heads[s].base <= MaxEvents
         /\ heads[s].base = 0 => heads[s].baseHash = ZeroHash
         /\ heads[s].baseHash \in Hash /\ heads[s].endHash \in Hash
         /\ DOMAIN rows[s] = (heads[s].base + 1)..heads[s].end
         /\ \A n \in DOMAIN rows[s] :
              rows[s][n].prev = Previous(heads[s], rows[s], n) /\ Genuine(s, n, rows[s][n])
         /\ heads[s].endHash = Previous(heads[s], rows[s], heads[s].end + 1)
         /\ rows[s] \in [DOMAIN rows[s] -> Row]
<1>1. rows[s] \in [DOMAIN rows[s] -> Row]
  BY TableRows DEF ChainTyped
<1>2. CASE heads[s] = NoHead
  <2>1. rows[s] = NoRows /\ DOMAIN NoRows = {}
    BY <1>2 DEF VerifyChain, Valid, NoRows
  <2>2. ZeroHash \in Hash
    BY EmptySeq DEF ZeroHash, Hash
  <2> QED
    BY <1>1, <1>2, <2>1, <2>2, AuditAssumption DEF NoHead, Previous, AuditAssumption
<1>3. CASE heads[s] # NoHead
  <2>1. heads[s] \in HeadRow
    BY <1>3 DEF ChainTyped
  <2>2. \A n, r : ~Recalled(NoRows, n, r)
    BY DEF Recalled, NoRows
  <2> QED
    BY <1>1, <1>3, <2>1, <2>2, SMTT(30) DEF VerifyChain, Valid, HeadRow
<1> QED
  BY <1>2, <1>3

LEMMA GrownShape ==
  ASSUME ChainTyped, NEW w \in Writers, At(w, "write"), VerifyChain(writers[w].scope)
  PROVE  LET s == writers[w].scope
             h == heads[s]
             table == Grown(w)
         IN  /\ NextSequence(s) = h.end + 1
             /\ DOMAIN table = (h.base + 1)..(h.end + 1)
             /\ table[h.end + 1] = NewRow(w)
             /\ \A n \in (h.base + 1)..h.end : table[n] = rows[s][n]
             /\ \A n \in DOMAIN table : table[n] \in Row
             /\ \A n \in DOMAIN table :
                  table[n].prev = Previous(h, table, n) /\ Genuine(s, n, table[n])
             /\ NewRow(w).hash = Previous(h, table, h.end + 2)
<1> DEFINE s == writers[w].scope
           h == heads[s]
           table == Grown(w)
<1>1. s \in Scopes /\ NewRow(w) \in Row
  BY NewRowTyped
<1>2. /\ h.base \in Nat /\ h.end \in Nat /\ h.base <= h.end
      /\ DOMAIN rows[s] = (h.base + 1)..h.end
      /\ \A n \in DOMAIN rows[s] :
           rows[s][n].prev = Previous(h, rows[s], n) /\ Genuine(s, n, rows[s][n])
      /\ h.endHash = Previous(h, rows[s], h.end + 1)
      /\ \A n \in DOMAIN rows[s] : rows[s][n] \in Row
  BY <1>1, ValidShape
<1>3. /\ DOMAIN table = (h.base + 1)..(h.end + 1)
      /\ table[h.end + 1] = NewRow(w)
      /\ \A n \in (h.base + 1)..h.end : table[n] = rows[s][n]
  <2> DEFINE next == h.end + 1
             old == rows[s]
             new == NewRow(w)
  <2>1. table = [n \in DOMAIN old \cup {next} |-> IF n = next THEN new ELSE old[n]]
    BY DEF Grown, NextSequence
  <2>2. next \in Nat /\ h.base + 1 <= next /\ next - 1 = h.end
    BY <1>2
  <2>3. DOMAIN old = (h.base + 1)..(next - 1)
    BY <1>2, <2>2
  <2> HIDE DEF table, next, old, new, h
  <2>4. DOMAIN old \cup {next} = (h.base + 1)..next /\ next \notin DOMAIN old
    BY <1>2, <2>2, <2>3
  <2>5. /\ DOMAIN table = (h.base + 1)..next
        /\ table[next] = new
        /\ \A n \in DOMAIN old : table[n] = old[n]
    BY <2>1, <2>4
  <2> QED
    BY <2>2, <2>3, <2>5 DEF next, old, new
<1>4. /\ NewRow(w).prev = h.endHash /\ Genuine(s, h.end + 1, NewRow(w))
  BY DEF NewRow, Genuine, NextSequence
<1> HIDE DEF s, h, table
<1>5. ASSUME NEW n \in (h.base + 1)..(h.end + 1)
      PROVE  Previous(h, table, n) = Previous(h, rows[s], n)
  BY <1>2, <1>3, <1>5, SMTT(30) DEF Previous
<1>6. ASSUME NEW n \in DOMAIN table
      PROVE  table[n].prev = Previous(h, table, n) /\ Genuine(s, n, table[n]) /\ table[n] \in Row
  <2>1. CASE n = h.end + 1
    BY <1>1, <1>2, <1>3, <1>4, <1>5, <2>1
  <2>2. CASE n # h.end + 1
    BY <1>2, <1>3, <1>5, <1>6, <2>2
  <2> QED
    BY <2>1, <2>2
<1>7. NewRow(w).hash = Previous(h, table, h.end + 2)
  BY <1>2, <1>3 DEF Previous
<1>8. NextSequence(s) = h.end + 1
  BY DEF NextSequence, h
<1> QED
  BY <1>3, <1>6, <1>7, <1>8 DEF s, h, table
-----------------------------------------------------------------------------
(* An undamaged chain: it verifies, holds what committed, and what it keeps   *)
(* is young enough for every event that came after.                         *)
Recorded(s) ==
  \A a \in committed[s] :
    /\ a[1] \in Nat /\ a[1] <= heads[s].end
    /\ a[1] > heads[s].base => rows[s][a[1]].hash = a[2]
Retained(s) ==
  \A m, n \in DOMAIN rows[s] : n <= m => rows[s][n].at > rows[s][m].at - MaxAge
Intact(s) ==
  /\ VerifyChain(s) /\ Recorded(s) /\ Retained(s)
  /\ heads[s] # NoHead => heads[s].base < heads[s].end

(* What a commit does to its scope: it keeps the rows after b and the new one. *)
CommitsTo(w, s, b) ==
  /\ b \in heads[s].base..heads[s].end
  /\ PrunesTo(w, Grown(w), heads[s].base, b)
  /\ rows' = [rows EXCEPT ![s] = [n \in (b + 1)..(heads[s].end + 1) |-> Grown(w)[n]]]
  /\ heads' = [heads EXCEPT ![s] =
       [base |-> b,
        baseHash |-> IF b = heads[s].base THEN heads[s].baseHash ELSE Grown(w)[b].hash,
        end |-> NextSequence(s), endHash |-> NewRow(w).hash,
        count |-> NextSequence(s) - b]]
  /\ writers' = [writers EXCEPT ![w] = [pc |-> "publish", scope |-> s, rows |-> rows[s]]]
  /\ committed' = [committed EXCEPT ![s] =
       committed[s] \cup {<<NextSequence(s), NewRow(w).hash>>}]
  /\ UNCHANGED <<cache, damaged, faults>>

LEMMA CommitShape ==
  ASSUME ChainTyped, CacheIsValidated, NEW w \in Writers, AppendCommit(w)
  PROVE  /\ writers[w].scope \in Scopes /\ At(w, "write")
         /\ VerifyChain(writers[w].scope)
         /\ \E b \in Nat : CommitsTo(w, writers[w].scope, b)
<1> DEFINE s == writers[w].scope
           table == Grown(w)
<1>1. At(w, "write") /\ s \in Scopes /\ StoreOf[w] \in Stores
  BY NewRowTyped, AuditAssumption DEF AppendCommit, AuditAssumption
<1>2. VerifyChain(s)
  BY <1>1, MemoryAgrees DEF AppendCommit
<1>3. /\ DOMAIN table = (heads[s].base + 1)..(heads[s].end + 1)
      /\ NextSequence(s) = heads[s].end + 1
  BY <1>1, <1>2, GrownShape
<1>4. heads[s].base \in Nat /\ heads[s].end \in Nat
  BY <1>1, <1>2, ValidShape, SMTT(30)
<1>5. PICK b \in heads[s].base..heads[s].end :
        /\ PrunesTo(w, table, heads[s].base, b)
        /\ rows' = [rows EXCEPT ![s] = [n \in {m \in DOMAIN table : m > b} |-> table[n]]]
        /\ heads' = [heads EXCEPT ![s] =
             [base |-> b,
              baseHash |-> IF b = heads[s].base THEN heads[s].baseHash ELSE table[b].hash,
              end |-> NextSequence(s), endHash |-> NewRow(w).hash,
              count |-> NextSequence(s) - b]]
  BY DEF AppendCommit
<1>6. {m \in DOMAIN table : m > b} = (b + 1)..(heads[s].end + 1)
  BY <1>3, <1>4, <1>5
<1>7. /\ writers' = [writers EXCEPT ![w] =
           [pc |-> "publish", scope |-> s, rows |-> rows[s]]]
      /\ committed' = [committed EXCEPT ![s] =
           committed[s] \cup {<<NextSequence(s), NewRow(w).hash>>}]
      /\ UNCHANGED <<cache, damaged, faults>>
  BY DEF AppendCommit
<1>8. CommitsTo(w, s, b)
  <2> HIDE DEF s, table
  <2>1. rows' = [rows EXCEPT ![s] = [n \in (b + 1)..(heads[s].end + 1) |-> table[n]]]
    BY <1>5, <1>6
  <2> QED
    BY <1>5, <1>7, <2>1 DEF CommitsTo, table
<1> QED
  BY <1>1, <1>2, <1>4, <1>5, <1>8

LEMMA KeepsFew ==
  ASSUME ChainTyped, NEW w \in Writers, At(w, "write"), VerifyChain(writers[w].scope),
         NEW b \in Nat, CommitsTo(w, writers[w].scope, b)
  PROVE  heads[writers[w].scope].end + 1 - b <= MaxEvents
<1> DEFINE s == writers[w].scope
           base == heads[s].base
           end == heads[s].end
<1>1. s \in Scopes
  BY NewRowTyped
<1>2. /\ base \in Nat /\ end \in Nat /\ base <= end
      /\ DOMAIN Grown(w) = (base + 1)..(end + 1)
      /\ b \in base..end
  <2>1. base \in Nat /\ end \in Nat /\ base <= end
    BY <1>1, ValidShape
  <2>2. DOMAIN Grown(w) = (base + 1)..(end + 1)
    BY GrownShape
  <2> QED
    BY <2>1, <2>2 DEF CommitsTo
<1>3. PrunesTo(w, Grown(w), base, b)
  BY DEF CommitsTo
<1>4. MaxEvents \in Nat \ {0}
  BY AuditAssumption DEF AuditAssumption
<1> HIDE DEF s, base, end
<1>5. Cardinality((base + 1)..(end + 1)) = end + 1 - base
  <2>1. base + 1 \in Int /\ end + 1 \in Int /\ base + 1 <= end + 1
    BY <1>2
  <2>2. Cardinality((base + 1)..(end + 1)) = (end + 1) - (base + 1) + 1
    BY <2>1, FS_Interval
  <2> QED
    BY <1>2, <2>2
<1>6. \A n \in DOMAIN Grown(w) : n + MaxEvents <= base + Cardinality(DOMAIN Grown(w)) => n <= b
  BY <1>3 DEF PrunesTo, Doomed
<1>7. \A n \in (base + 1)..(end + 1) : n + MaxEvents <= end + 1 => n <= b
  BY <1>2, <1>5, <1>6
<1>8. end + 1 - b <= MaxEvents
  <2>1. SUFFICES ASSUME end + 1 - b > MaxEvents PROVE FALSE
    BY <1>2, <1>4
  <2>2. PICK n \in Int : n = end + 1 - MaxEvents
    BY <1>2, <1>4
  <2>3. n \in (base + 1)..(end + 1) /\ n + MaxEvents <= end + 1 /\ n > b
    BY <1>2, <1>4, <2>1, <2>2
  <2> QED
    BY <1>2, <1>7, <2>3
<1> QED
  BY <1>8 DEF s, end
LEMMA CommitFrame ==
  ASSUME ChainTyped, NEW w \in Writers, At(w, "write"), VerifyChain(writers[w].scope),
         NEW b \in Nat, CommitsTo(w, writers[w].scope, b)
  PROVE  LET s == writers[w].scope
         IN  /\ rows'[s] = [n \in (b + 1)..(heads[s].end + 1) |-> Grown(w)[n]]
             /\ heads'[s].base = b /\ heads'[s].end = heads[s].end + 1
             /\ heads'[s].baseHash = Previous(heads[s], Grown(w), b + 1)
             /\ heads'[s].endHash = NewRow(w).hash
             /\ heads'[s].count = heads[s].end + 1 - b
             /\ heads'[s] \in HeadRow
             /\ \A z \in Scopes \ {s} :
                  heads'[z] = heads[z] /\ rows'[z] = rows[z] /\ committed'[z] = committed[z]
<1> DEFINE s == writers[w].scope
           table == Grown(w)
           new == [base |-> b,
                   baseHash |-> IF b = heads[s].base THEN heads[s].baseHash ELSE table[b].hash,
                   end |-> NextSequence(s), endHash |-> NewRow(w).hash,
                   count |-> NextSequence(s) - b]
<1>1. s \in Scopes /\ NewRow(w) \in Row
  BY NewRowTyped
<1>2. /\ NextSequence(s) = heads[s].end + 1
      /\ DOMAIN table = (heads[s].base + 1)..(heads[s].end + 1)
      /\ \A n \in DOMAIN table : table[n] \in Row
  BY GrownShape
<1>3. /\ heads[s].base \in Nat /\ heads[s].end \in Nat
      /\ heads[s].baseHash \in Hash
  BY <1>1, ValidShape
<1>4. b \in heads[s].base..heads[s].end
  BY DEF CommitsTo
<1>5. /\ heads' = [heads EXCEPT ![s] = new]
      /\ rows' = [rows EXCEPT ![s] = [n \in (b + 1)..(heads[s].end + 1) |-> table[n]]]
      /\ committed' = [committed EXCEPT ![s] =
           committed[s] \cup {<<NextSequence(s), NewRow(w).hash>>}]
  BY DEF CommitsTo
<1>6. new.baseHash = Previous(heads[s], table, b + 1)
  <2>1. b + 1 = heads[s].base + 1 <=> b = heads[s].base
    BY <1>3
  <2>2. b + 1 - 1 = b
    OBVIOUS
  <2> QED
    BY <2>1, <2>2 DEF Previous
<1>7. b # heads[s].base => table[b] \in Row
  BY <1>2, <1>3, <1>4
<1>8. new \in HeadRow
  <2>1. new.baseHash \in Hash
    BY <1>3, <1>7 DEF Row
  <2>2. NextSequence(s) \in Nat /\ NextSequence(s) - b \in Nat
    BY <1>2, <1>3, <1>4, SMTT(30)
  <2>3. NewRow(w).hash \in Hash
    BY <1>1 DEF Row
  <2>4. new = [base |-> b, baseHash |-> new.baseHash, end |-> NextSequence(s),
               endHash |-> NewRow(w).hash, count |-> NextSequence(s) - b]
    OBVIOUS
  <2> HIDE DEF new, s, table
  <2> QED
    BY <2>1, <2>2, <2>3, <2>4 DEF HeadRow
<1>9. heads \in [Scopes -> HeadRow \cup {NoHead}] /\ rows \in [Scopes -> Table]
  BY DEF ChainTyped
<1>10. /\ new.base = b /\ new.end = heads[s].end + 1 /\ new.endHash = NewRow(w).hash
       /\ new.count = heads[s].end + 1 - b
  <2>1. new.base = b /\ new.end = NextSequence(s) /\ new.endHash = NewRow(w).hash
        /\ new.count = NextSequence(s) - b
    OBVIOUS
  <2>2. NextSequence(s) = heads[s].end + 1 /\ NextSequence(s) \in Nat
    BY <1>2, <1>3
  <2> HIDE DEF new, s, table
  <2>3. new.count = heads[s].end + 1 - b
    BY <1>3, <2>1, <2>2
  <2>4. new.end = heads[s].end + 1
    BY <2>1, <2>2
  <2> QED
    BY <2>1, <2>3, <2>4
<1> HIDE DEF new, s, table
<1>11. heads'[s] = new
  BY <1>1, <1>5, <1>9
<1>12. rows'[s] = [n \in (b + 1)..(heads[s].end + 1) |-> table[n]]
  BY <1>1, <1>5, <1>9
<1>13. \A z \in Scopes \ {s} :
         heads'[z] = heads[z] /\ rows'[z] = rows[z] /\ committed'[z] = committed[z]
  BY <1>1, <1>5, <1>9
<1> QED
  BY <1>6, <1>8, <1>10, <1>12, <1>13, <1>11 DEF s, table
(* What is kept is a chain again, and what is removed is what had to go.     *)
LEMMA CommitVerifies ==
  ASSUME ChainTyped, NEW w \in Writers, At(w, "write"), VerifyChain(writers[w].scope),
         NEW b \in Nat, CommitsTo(w, writers[w].scope, b),
         NEW s \in Scopes, s = writers[w].scope
  PROVE  VerifyChain(s)'
<1> DEFINE h == heads[s]
           k == heads'[s]
           table == Grown(w)
           kept == rows'[s]
<1>1. s \in Scopes /\ VerifyChain(s)
  OBVIOUS
<1>2. /\ DOMAIN table = (h.base + 1)..(h.end + 1)
      /\ \A n \in DOMAIN table :
           table[n].prev = Previous(h, table, n) /\ Genuine(s, n, table[n])
      /\ NewRow(w).hash = Previous(h, table, h.end + 2)
  BY GrownShape
<1>3. /\ h.base \in Nat /\ h.end \in Nat /\ h.base <= h.end
      /\ h.base = 0 => h.baseHash = ZeroHash
  BY <1>1, ValidShape
<1>4. /\ kept = [n \in (b + 1)..(h.end + 1) |-> table[n]]
      /\ k.base = b /\ k.end = h.end + 1 /\ k.baseHash = Previous(h, table, b + 1)
      /\ k.endHash = NewRow(w).hash /\ k.count = h.end + 1 - b
      /\ k \in HeadRow
  BY CommitFrame
<1>5. b \in h.base..h.end
  BY DEF CommitsTo
<1>6. h.end + 1 - b <= MaxEvents
  BY KeepsFew
<1> HIDE DEF h, k, table, kept
<1>7. k # NoHead
  BY <1>4 DEF HeadRow, NoHead
<1>8. /\ DOMAIN kept = (b + 1)..(h.end + 1)
      /\ \A n \in DOMAIN kept : kept[n] = table[n] /\ n \in DOMAIN table
  BY <1>2, <1>3, <1>4, <1>5
<1>9. ASSUME NEW n \in Int, b + 1 <= n, n <= h.end + 2
      PROVE  Previous(k, kept, n) = Previous(h, table, n)
  <2>1. CASE n = b + 1
    BY <1>4, <2>1 DEF Previous
  <2>2. CASE n # b + 1
    <3>1. n - 1 \in DOMAIN kept
      BY <1>3, <1>5, <1>8, <1>9, <2>2
    <3>2. kept[n - 1] = table[n - 1]
      BY <1>8, <3>1
    <3>3. n # h.base + 1 /\ n # k.base + 1
      BY <1>3, <1>4, <1>5, <1>9, <2>2
    <3> QED
      BY <3>2, <3>3 DEF Previous
  <2> QED
    BY <2>1, <2>2
<1>10. \A n \in DOMAIN kept : kept[n].prev = Previous(k, kept, n) /\ Genuine(s, n, kept[n])
  BY <1>2, <1>3, <1>5, <1>8, <1>9
<1>11. k.endHash = Previous(k, kept, k.end + 1)
  <2>1. Previous(k, kept, h.end + 2) = Previous(h, table, h.end + 2)
    BY <1>3, <1>5, <1>9
  <2>2. k.end + 1 = h.end + 2
    BY <1>3, <1>4
  <2> QED
    BY <1>2, <1>4, <2>1, <2>2
<1>12. k.base = 0 => k.baseHash = ZeroHash
  BY <1>3, <1>4, <1>5 DEF Previous
<1>13. k.base <= k.end /\ k.count <= MaxEvents /\ k.count = k.end - k.base
       /\ DOMAIN kept = (k.base + 1)..k.end
  BY <1>3, <1>4, <1>5, <1>6, <1>8
<1>14. Valid(s, k, kept, NoRows)
  BY <1>7, <1>10, <1>11, <1>12, <1>13 DEF Valid
<1> QED
  <2>1. heads'[s] = k /\ rows'[s] = kept
    BY DEF k, kept
  <2> QED
    BY <1>14, <2>1 DEF VerifyChain, Valid
LEMMA CommitRecords ==
  ASSUME ChainTyped, NEW w \in Writers, At(w, "write"), VerifyChain(writers[w].scope),
         NEW b \in Nat, CommitsTo(w, writers[w].scope, b),
         NEW s \in Scopes, s = writers[w].scope,
         committed \in [Scopes -> SUBSET (Nat \X Hash)], Recorded(s), Retained(s)
  PROVE  Recorded(s)' /\ Retained(s)'
<1> DEFINE h == heads[s]
           k == heads'[s]
           table == Grown(w)
           kept == rows'[s]
           new == NewRow(w)
           time == writers[w].at
<1>1. /\ DOMAIN table = (h.base + 1)..(h.end + 1)
      /\ table[h.end + 1] = new
      /\ \A n \in (h.base + 1)..h.end : table[n] = rows[s][n]
      /\ \A n \in DOMAIN table : table[n] \in Row
      /\ NextSequence(s) = h.end + 1
  BY GrownShape
<1>2. /\ h.base \in Nat /\ h.end \in Nat /\ h.base <= h.end
      /\ DOMAIN rows[s] = (h.base + 1)..h.end
  BY ValidShape
<1>3. /\ kept = [n \in (b + 1)..(h.end + 1) |-> table[n]]
      /\ k.base = b /\ k.end = h.end + 1
  BY CommitFrame
<1>4. /\ b \in h.base..h.end
      /\ PrunesTo(w, table, h.base, b)
      /\ committed' = [committed EXCEPT ![s] =
           committed[s] \cup {<<NextSequence(s), new.hash>>}]
  BY DEF CommitsTo
<1>5. new.at = time /\ time \in Times
  BY NewRowTyped DEF NewRow
<1>6. MaxAge \in Nat /\ MaxAge > 0 /\ Times \subseteq Int
  BY AuditAssumption DEF AuditAssumption
<1>7. /\ \A a \in committed[s] :
           a[1] \in Nat /\ a[1] <= h.end /\ (a[1] > h.base => rows[s][a[1]].hash = a[2])
      /\ \A m, n \in DOMAIN rows[s] : n <= m => rows[s][n].at > rows[s][m].at - MaxAge
  BY DEF Recorded, Retained
<1> HIDE DEF h, k, table, kept, new, time
<1>8. /\ DOMAIN kept = (b + 1)..(h.end + 1)
      /\ \A n \in DOMAIN kept : kept[n] = table[n] /\ n \in DOMAIN table
  BY <1>1, <1>2, <1>3, <1>4
<1>9. committed'[s] = committed[s] \cup {<<h.end + 1, new.hash>>}
  BY <1>1, <1>4
<1>10. ASSUME NEW a \in committed'[s]
       PROVE  a[1] \in Nat /\ a[1] <= k.end /\ (a[1] > k.base => kept[a[1]].hash = a[2])
  <2>1. CASE a = <<h.end + 1, new.hash>>
    <3>1. h.end + 1 \in DOMAIN kept
      BY <1>2, <1>4, <1>8
    <3>2. kept[h.end + 1] = new
      BY <1>1, <1>8, <3>1
    <3> QED
      BY <1>2, <1>3, <2>1, <3>2
  <2>2. CASE a \in committed[s]
    <3>1. a[1] \in Nat /\ a[1] <= h.end /\ (a[1] > h.base => rows[s][a[1]].hash = a[2])
      BY <1>7, <2>2
    <3>2. a[1] > b => a[1] \in (h.base + 1)..h.end /\ a[1] \in DOMAIN kept
      BY <1>2, <1>4, <1>8, <3>1
    <3>3. a[1] > b => kept[a[1]] = rows[s][a[1]]
      BY <1>1, <1>8, <3>2
    <3> QED
      BY <1>2, <1>3, <1>4, <3>1, <3>2, <3>3
  <2> QED
    BY <1>9, <2>1, <2>2
<1>11. Recorded(s)'
  BY <1>10 DEF Recorded, k, kept
<1>12. ASSUME NEW m \in DOMAIN kept, NEW n \in DOMAIN kept, n <= m
       PROVE  kept[n].at > kept[m].at - MaxAge
  <2>1. kept[n].at \in Int /\ kept[m].at \in Int
    BY <1>1, <1>6, <1>8 DEF Row
  <2>2. CASE n = m
    BY <1>6, <2>1, <2>2
  <2>3. CASE m = h.end + 1 /\ n # m
    <3>1. ~ Doomed(w, table, h.base, n)
      BY <1>2, <1>4, <1>8 DEF PrunesTo
    <3>2. ~ (kept[n].at <= writers[w].at - MaxAge)
      BY <1>8, <3>1 DEF Doomed
    <3>3. kept[m].at = time
      BY <1>1, <1>5, <1>8, <2>3
    <3> QED
      BY <1>5, <1>6, <2>1, <3>2, <3>3 DEF time
  <2>4. CASE m # h.end + 1 /\ n # m
    <3>1. m \in DOMAIN rows[s] /\ n \in DOMAIN rows[s]
      BY <1>2, <1>4, <1>8, <1>12, <2>4, SMTT(30)
    <3>2. kept[m] = rows[s][m] /\ kept[n] = rows[s][n]
      BY <1>1, <1>2, <1>8, <3>1
    <3> QED
      BY <1>7, <1>12, <3>1, <3>2
  <2> QED
    BY <2>2, <2>3, <2>4
<1>13. Retained(s)'
  BY <1>12 DEF Retained, kept
<1> QED
  BY <1>11, <1>13

LEMMA CommitTyped ==
  ASSUME ChainTyped, NEW w \in Writers, At(w, "write"), VerifyChain(writers[w].scope),
         NEW b \in Nat, CommitsTo(w, writers[w].scope, b)
  PROVE  ChainTyped'
<1> DEFINE s == writers[w].scope
<1>1. s \in Scopes
  BY NewRowTyped
<1>2. rows'[s] \in Table
  <2>1. /\ rows'[s] = [n \in (b + 1)..(heads[s].end + 1) |-> Grown(w)[n]]
        /\ b \in heads[s].base..heads[s].end
    BY CommitFrame DEF CommitsTo
  <2>2. /\ DOMAIN Grown(w) = (heads[s].base + 1)..(heads[s].end + 1)
        /\ \A n \in DOMAIN Grown(w) : Grown(w)[n] \in Row
    BY GrownShape
  <2>3. heads[s].base \in Nat /\ heads[s].end \in Nat
    BY <1>1, ValidShape, SMTT(30)
  <2> DEFINE kept == [n \in (b + 1)..(heads[s].end + 1) |-> Grown(w)[n]]
  <2>4. DOMAIN kept \subseteq Nat /\ DOMAIN kept \subseteq DOMAIN Grown(w)
    BY <2>1, <2>2, <2>3
  <2>5. kept \in [DOMAIN kept -> Row]
    BY <2>2, <2>4
  <2> QED
    BY <2>1, <2>4, <2>5, TableRows
<1>3. heads'[s] \in HeadRow
  BY CommitFrame
<1>4. /\ heads \in [Scopes -> HeadRow \cup {NoHead}]
      /\ rows \in [Scopes -> Table]
      /\ writers \in [Writers -> WriterState]
      /\ damaged \subseteq Scopes
  BY DEF ChainTyped
<1>5. heads' \in [Scopes -> HeadRow \cup {NoHead}] /\ rows' \in [Scopes -> Table]
  <2>1. PICK new, kept : heads' = [heads EXCEPT ![s] = new] /\ rows' = [rows EXCEPT ![s] = kept]
    BY DEF CommitsTo
  <2> HIDE DEF s
  <2>2. new = heads'[s] /\ kept = rows'[s]
    BY <1>1, <1>4, <2>1
  <2> QED
    BY <1>2, <1>3, <1>4, <2>1, <2>2
<1>6. writers' \in [Writers -> WriterState] /\ damaged' = damaged
  <2>1. [pc |-> "publish", scope |-> s, rows |-> rows[s]] \in WriterState
    BY <1>1, <1>4 DEF WriterState
  <2> QED
    BY <1>4, <2>1 DEF CommitsTo
<1> QED
  BY <1>4, <1>5, <1>6 DEF ChainTyped
-----------------------------------------------------------------------------
(* The inductive invariant.                                                  *)
HistoryTyped == committed \in [Scopes -> SUBSET (Nat \X Hash)]

AuditInvariant ==
  /\ ChainTyped /\ CacheIsValidated /\ HistoryTyped
  /\ \A s \in Scopes \ damaged : Intact(s)
  /\ \A s \in damaged : ~VerifyChain(s)

LEMMA AuditInit == Init => AuditInvariant
<1> SUFFICES ASSUME Init PROVE AuditInvariant
  OBVIOUS
<1>1. NoRows \in Table /\ DOMAIN NoRows = {}
  <2>1. DOMAIN NoRows = {}
    BY DEF NoRows
  <2>2. NoRows \in [DOMAIN NoRows -> Row] /\ DOMAIN NoRows \subseteq Nat
    BY DEF NoRows
  <2> QED
    BY <2>1, <2>2, TableRows
<1>2. ChainTyped
  BY <1>1 DEF Init, ChainTyped, WriterState
<1>3. CacheIsValidated
  <2>1. <<>> \in Seq(Validated)
    BY EmptySeq
  <2> QED
    BY <2>1 DEF Init, CacheIsValidated, Idle
<1>4. HistoryTyped
  BY DEF Init, HistoryTyped
<1>5. ASSUME NEW s \in Scopes PROVE Intact(s)
  <2>1. heads[s] = NoHead /\ rows[s] = NoRows /\ committed[s] = {}
    BY DEF Init
  <2> QED
    BY <1>1, <2>1 DEF Intact, VerifyChain, Valid, Recorded, Retained
<1> QED
  BY <1>2, <1>3, <1>4, <1>5 DEF AuditInvariant, Init

(* A scope whose head, rows and history stay as they are.                    *)
LEMMA ScopeUntouched ==
  ASSUME NEW s, heads'[s] = heads[s], rows'[s] = rows[s], committed'[s] = committed[s]
  PROVE  Intact(s)' <=> Intact(s)
BY DEF Intact, VerifyChain, Recorded, Retained, Valid, Previous, Recalled, NoRows, Genuine

LEMMA VerifyUntouched ==
  ASSUME NEW s, heads'[s] = heads[s], rows'[s] = rows[s]
  PROVE  VerifyChain(s)' <=> VerifyChain(s)
BY DEF VerifyChain, Valid, Previous, Recalled, NoRows, Genuine

LEMMA ChainUntouched ==
  ASSUME AuditInvariant, UNCHANGED <<heads, rows, committed, damaged>>,
         writers' \in [Writers -> WriterState], CacheIsValidated'
  PROVE  AuditInvariant'
<1>1. ChainTyped' /\ HistoryTyped'
  BY DEF AuditInvariant, ChainTyped, HistoryTyped
<1>2. \A s \in Scopes : Intact(s)' <=> Intact(s)
  BY ScopeUntouched
<1>3. \A s : VerifyChain(s)' <=> VerifyChain(s)
  BY VerifyUntouched
<1> QED
  BY <1>1, <1>2, <1>3 DEF AuditInvariant

LEMMA BeginKeeps ==
  ASSUME AuditInvariant,
         NEW w \in Writers, NEW s \in Scopes, NEW t \in Times, NEW content \in Contents,
         AppendBegin(w, s, t, content)
  PROVE  AuditInvariant'
<1> DEFINE new == [pc |-> "write", scope |-> s, at |-> t, content |-> content]
<1>1. new \in WriterState /\ new.pc # "publish"
  BY DEF WriterState
<1>2. writers' = [writers EXCEPT ![w] = new]
      /\ UNCHANGED <<heads, rows, cache, committed, damaged>>
  BY DEF AppendBegin
<1>3. writers \in [Writers -> WriterState] /\ CacheIsValidated
  BY DEF AuditInvariant, ChainTyped
<1> HIDE DEF new
<1>4. writers' \in [Writers -> WriterState]
  BY <1>1, <1>2, <1>3
<1>5. CacheIsValidated'
  BY <1>1, <1>2, <1>3 DEF CacheIsValidated, Checked, Genuine
<1> QED
  BY <1>2, <1>4, <1>5, ChainUntouched

LEMMA ForgetReturnKeeps ==
  ASSUME AuditInvariant, UNCHANGED <<heads, rows, committed, damaged>>,
         \E p \in Stores : Forget(p),
         \A w \in Writers : writers'[w] \in {Idle, writers[w]},
         writers' \in [Writers -> WriterState]
  PROVE  AuditInvariant'
<1>1. PICK p \in Stores : cache' = [cache EXCEPT ![p] = <<>>]
  BY DEF Forget
<1>2. CacheIsValidated
  BY DEF AuditInvariant
<1>3. cache' \in [Stores -> Seq(Validated)]
  BY <1>1, <1>2, EmptySeq DEF CacheIsValidated
<1>4. ASSUME NEW w \in Writers, writers'[w].pc = "publish"
      PROVE  Checked(writers'[w].scope, writers'[w].rows)
  <2>1. writers'[w] # Idle
    BY <1>4 DEF Idle
  <2>2. writers'[w] = writers[w]
    BY <2>1
  <2> QED
    BY <1>2, <1>4, <2>2 DEF CacheIsValidated
<1>5. CacheIsValidated'
  BY <1>3, <1>4 DEF CacheIsValidated, Checked, Genuine
<1> QED
  BY <1>5, ChainUntouched

LEMMA PublishKeeps ==
  ASSUME AuditInvariant, NEW w \in Writers, AppendPublish(w)
  PROVE  AuditInvariant'
<1> DEFINE p == StoreOf[w]
           s == writers[w].scope
           rs == writers[w].rows
           rest == WithoutScope(cache[p], s)
<1>1. p \in Stores /\ At(w, "publish") /\ writers \in [Writers -> WriterState]
  BY AuditAssumption DEF AuditAssumption, AuditInvariant, AppendPublish, ChainTyped
<1>2. writers[w] \in [pc: {"publish"}, scope: Scopes, rows: Table]
  BY <1>1 DEF At, WriterState, Idle
<1>3. s \in Scopes /\ rs \in Table /\ Checked(s, rs) /\ cache \in [Stores -> Seq(Validated)]
  BY <1>1, <1>2 DEF AuditInvariant, CacheIsValidated, At
<1>4. PICK k \in 1..(Len(rest) + 1) :
        cache' = [cache EXCEPT ![p] = Published(SubSeq(rest, k, Len(rest)), s, rs)]
  BY DEF AppendPublish
<1>5. rest \in Seq(Validated)
  BY <1>1, <1>3, ForgottenTyped
<1>6. Published(SubSeq(rest, k, Len(rest)), s, rs) \in Seq(Validated)
  BY <1>3, <1>4, <1>5, PublishedTyped
<1> HIDE DEF p, s, rs, rest
<1>7. cache' \in [Stores -> Seq(Validated)]
  BY <1>1, <1>3, <1>4, <1>6
<1>8. writers' = [writers EXCEPT ![w] = Idle] /\ UNCHANGED <<heads, rows, committed, damaged>>
  BY DEF AppendPublish, Return
<1>9. writers' \in [Writers -> WriterState]
  BY <1>1, <1>8 DEF WriterState
<1>10. CacheIsValidated'
  <2>1. \A v \in Writers : writers'[v] \in {Idle, writers[v]}
    BY <1>1, <1>8
  <2> QED
    BY <1>7, <2>1 DEF CacheIsValidated, AuditInvariant, Idle, Checked, Genuine
<1> QED
  BY <1>8, <1>9, <1>10, ChainUntouched
LEMMA CommitKeeps ==
  ASSUME AuditInvariant, NEW w \in Writers, AppendCommit(w)
  PROVE  AuditInvariant'
<1>1. ChainTyped /\ CacheIsValidated /\ HistoryTyped
  BY DEF AuditInvariant
<1> DEFINE z == writers[w].scope
<1>2. /\ z \in Scopes /\ At(w, "write") /\ VerifyChain(z)
      /\ \E b \in Nat : CommitsTo(w, z, b)
  BY <1>1, CommitShape
<1>3. PICK s \in Scopes : s = z
  BY <1>2
<1>4. PICK b \in Nat : CommitsTo(w, z, b)
  BY <1>2
<1> HIDE DEF z
<1>5. s \notin damaged /\ Intact(s)
  BY <1>2, <1>3 DEF AuditInvariant
<1>6. ChainTyped' /\ VerifyChain(s)'
  BY <1>1, <1>2, <1>3, <1>4, CommitTyped, CommitVerifies DEF z
<1>7. Recorded(s)' /\ Retained(s)'
  BY <1>1, <1>2, <1>3, <1>4, <1>5, CommitRecords DEF z, HistoryTyped, Intact
<1>8. Intact(s)'
  <2>1. heads'[s].base = b /\ heads'[s].end = heads[s].end + 1
    BY <1>1, <1>2, <1>3, <1>4, CommitFrame DEF z
  <2>2. b \in heads[s].base..heads[s].end
    BY <1>3, <1>4 DEF CommitsTo
  <2>3. heads[s].base \in Nat /\ heads[s].end \in Nat
    BY <1>1, <1>2, <1>3, ValidShape
  <2> QED
    BY <1>6, <1>7, <2>1, <2>2, <2>3 DEF Intact
<1>9. ASSUME NEW y \in Scopes \ {s}
      PROVE  heads'[y] = heads[y] /\ rows'[y] = rows[y] /\ committed'[y] = committed[y]
  BY <1>1, <1>2, <1>3, <1>4, CommitFrame DEF z
<1>10. UNCHANGED <<cache, damaged>>
       /\ writers' = [writers EXCEPT ![w] = [pc |-> "publish", scope |-> s, rows |-> rows[s]]]
  BY <1>3, <1>4 DEF CommitsTo
<1>11. \A y \in Scopes \ damaged' : Intact(y)'
  BY <1>8, <1>9, <1>10, ScopeUntouched DEF AuditInvariant
<1>12. \A y \in damaged' : ~VerifyChain(y)'
  BY <1>5, <1>9, <1>10, VerifyUntouched DEF AuditInvariant, ChainTyped
<1>13. HistoryTyped'
  <2>1. NewRow(w).hash \in Hash /\ NextSequence(s) \in Nat
    BY <1>1, <1>2, <1>3, NewRowTyped DEF Row, z
  <2>2. committed' = [committed EXCEPT ![s] =
          committed[s] \cup {<<NextSequence(s), NewRow(w).hash>>}]
    BY <1>3, <1>4 DEF CommitsTo
  <2> QED
    BY <1>1, <2>1, <2>2 DEF HistoryTyped
<1>14. CacheIsValidated'
  <2>1. Checked(s, rows[s])
    BY <1>1, <1>2, <1>3, ValidShape DEF Checked
  <2>2. ASSUME NEW v \in Writers, writers'[v].pc = "publish"
        PROVE  Checked(writers'[v].scope, writers'[v].rows)
    <3>1. writers \in [Writers -> WriterState]
      BY <1>1 DEF ChainTyped
    <3>2. CASE v = w
      BY <1>10, <2>1, <3>1, <3>2
    <3>3. CASE v # w
      <4>1. writers'[v] = writers[v]
        BY <1>10, <3>1, <3>3
      <4> QED
        BY <1>1, <2>2, <4>1 DEF CacheIsValidated
    <3> QED
      BY <3>2, <3>3
  <2> QED
    BY <1>1, <1>10, <2>2 DEF CacheIsValidated, Checked, Genuine
<1> QED
  BY <1>6, <1>11, <1>12, <1>13, <1>14 DEF AuditInvariant

LEMMA CrashKeeps ==
  ASSUME AuditInvariant, NEW p \in Stores, Crash(p)
  PROVE  AuditInvariant'
<1>1. writers \in [Writers -> WriterState]
  BY DEF AuditInvariant, ChainTyped
<1>2. writers' = [w \in Writers |-> IF StoreOf[w] = p THEN Idle ELSE writers[w]]
  BY DEF Crash
<1>3. writers' \in [Writers -> WriterState] /\ \A w \in Writers : writers'[w] \in {Idle, writers[w]}
  BY <1>1, <1>2 DEF WriterState
<1> QED
  BY <1>3, ForgetReturnKeeps DEF Crash

LEMMA GiveUpKeeps ==
  ASSUME AuditInvariant, NEW w \in Writers, AppendRefuse(w) \/ AppendFails(w)
  PROVE  AuditInvariant'
<1>1. writers \in [Writers -> WriterState] /\ StoreOf[w] \in Stores
  BY AuditAssumption DEF AuditAssumption, AuditInvariant, ChainTyped
<1>2. /\ writers' = [writers EXCEPT ![w] = Idle] /\ Forget(StoreOf[w])
      /\ UNCHANGED <<heads, rows, committed, damaged>>
  BY DEF AppendRefuse, AppendFails, Return
<1>3. writers' \in [Writers -> WriterState] /\ \A v \in Writers : writers'[v] \in {Idle, writers[v]}
  BY <1>1, <1>2 DEF WriterState
<1> QED
  BY <1>1, <1>2, <1>3, ForgetReturnKeeps
(* An older copy of an intact chain is an intact chain.                      *)
LEMMA RestoreKeeps ==
  ASSUME AuditInvariant, NEW s \in Scopes, NEW n, Restore(s, n)
  PROVE  AuditInvariant'
<1> DEFINE h == heads[s]
           k == heads'[s]
           old == rows[s]
           kept == rows'[s]
           last == Previous(h, old, n + 1)
<1>1. /\ heads \in [Scopes -> HeadRow \cup {NoHead}] /\ rows \in [Scopes -> Table]
      /\ committed \in [Scopes -> SUBSET (Nat \X Hash)]
      /\ Intact(s) /\ h \in HeadRow /\ s \notin damaged
  BY DEF AuditInvariant, ChainTyped, HistoryTyped, Restore
<1>2. /\ h.base \in Nat /\ h.end \in Nat /\ h.end - h.base <= MaxEvents
      /\ h.baseHash \in Hash
      /\ h.base = 0 => h.baseHash = ZeroHash
      /\ DOMAIN old = (h.base + 1)..h.end
      /\ \A m \in DOMAIN old : old[m].prev = Previous(h, old, m) /\ Genuine(s, m, old[m])
      /\ old \in [DOMAIN old -> Row]
  BY <1>1, ValidShape DEF AuditInvariant, Intact
<1>3. n \in (h.base + 1)..(h.end - 1)
  BY DEF Restore
<1>4. /\ rows' = [rows EXCEPT ![s] = [m \in (h.base + 1)..n |-> old[m]]]
      /\ heads' = [heads EXCEPT ![s].end = n, ![s].count = n - h.base, ![s].endHash = last]
      /\ committed' = [committed EXCEPT ![s] = {a \in committed[s] : a[1] <= n}]
      /\ UNCHANGED <<cache, writers, damaged>>
  BY DEF Restore
<1> HIDE DEF last
<1>5. last = old[n].hash /\ last \in Hash
  <2> HIDE DEF h, old
  <2>1. n \in DOMAIN old /\ n + 1 # h.base + 1 /\ n + 1 - 1 = n
    BY <1>2, <1>3
  <2>2. last = old[n].hash
    <3>1. n + 1 \in Int /\ h.base + 1 \in Int /\ n + 1 # h.base + 1
      BY <1>2, <1>3
    <3>2. PICK i \in Int : i = n + 1
      BY <3>1
    <3>3. last = Previous(h, old, i)
      BY <3>2 DEF last
    <3>4. last = old[i - 1].hash
      BY <3>1, <3>2, <3>3 DEF Previous
    <3>5. i - 1 = n
      BY <1>2, <1>3, <3>2
    <3> QED
      BY <3>4, <3>5
  <2> QED
    BY <1>2, <2>1, <2>2 DEF Row
<1>6. k = [h EXCEPT !.end = n, !.count = n - h.base, !.endHash = last]
  BY <1>1, <1>4
<1>7. /\ k.base = h.base /\ k.baseHash = h.baseHash /\ k.end = n
      /\ k.count = n - h.base /\ k.endHash = last /\ k \in HeadRow
  <2>1. n \in Nat /\ n - h.base \in Nat
    BY <1>2, <1>3
  <2> HIDE DEF h, k
  <2> QED
    BY <1>1, <1>5, <1>6, <2>1 DEF HeadRow
<1>8. kept = [m \in (h.base + 1)..n |-> old[m]]
  BY <1>1, <1>4
<1>9. committed'[s] = {a \in committed[s] : a[1] <= n}
  BY <1>1, <1>4
<1>10. \A z \in Scopes \ {s} :
         heads'[z] = heads[z] /\ rows'[z] = rows[z] /\ committed'[z] = committed[z]
  BY <1>1, <1>4
<1>11. Recorded(s) /\ Retained(s)
  BY <1>1 DEF Intact
<1> HIDE DEF h, k, old, kept
<1>12. /\ DOMAIN kept = (h.base + 1)..n
       /\ \A m \in DOMAIN kept : m \in DOMAIN old /\ kept[m] = old[m]
  BY <1>2, <1>3, <1>8
<1>13. ASSUME NEW m \in Int, h.base + 1 <= m, m <= n + 1
       PROVE  Previous(k, kept, m) = Previous(h, old, m)
  <2>1. CASE m = h.base + 1
    BY <1>7, <2>1 DEF Previous
  <2>2. CASE m # h.base + 1
    <3>1. m - 1 \in DOMAIN kept
      BY <1>2, <1>3, <1>12, <1>13, <2>2
    <3> QED
      BY <1>7, <1>12, <2>2, <3>1 DEF Previous
  <2> QED
    BY <2>1, <2>2
<1>14. Valid(s, k, kept, NoRows)
  <2>1. k # NoHead
    BY <1>7 DEF HeadRow, NoHead
  <2>2. \A m \in DOMAIN kept : kept[m].prev = Previous(k, kept, m) /\ Genuine(s, m, kept[m])
    BY <1>2, <1>3, <1>12, <1>13
  <2>3. k.endHash = Previous(k, kept, k.end + 1)
    BY <1>2, <1>3, <1>7, <1>13 DEF last
  <2>4. k.base <= k.end /\ k.count <= MaxEvents /\ k.count = k.end - k.base
        /\ DOMAIN kept = (k.base + 1)..k.end
    BY <1>2, <1>3, <1>7, <1>12, AuditAssumption, SMTT(30) DEF AuditAssumption
  <2> QED
    BY <1>2, <1>7, <2>1, <2>2, <2>3, <2>4 DEF Valid
<1>15. VerifyChain(s)'
  BY <1>14 DEF VerifyChain, Valid, k, kept
<1>16. Recorded(s)'
  <2>1. ASSUME NEW a \in committed'[s]
        PROVE  a[1] \in Nat /\ a[1] <= k.end /\ (a[1] > k.base => kept[a[1]].hash = a[2])
    <3>1. /\ a[1] \in Nat /\ a[1] <= n
          /\ a[1] > h.base => old[a[1]].hash = a[2]
      BY <1>9, <1>11 DEF Recorded, h, old
    <3>2. a[1] > h.base => a[1] \in DOMAIN kept
      BY <1>2, <1>3, <1>12, <3>1
    <3> QED
      BY <1>7, <1>12, <3>1, <3>2
  <2> QED
    BY <2>1 DEF Recorded, k, kept
<1>17. Retained(s)'
  <2>1. \A m, j \in DOMAIN old : j <= m => old[j].at > old[m].at - MaxAge
    BY <1>11 DEF Retained, old
  <2>2. \A m, j \in DOMAIN kept : j <= m => kept[j].at > kept[m].at - MaxAge
    BY <1>12, <2>1
  <2> QED
    BY <2>2 DEF Retained, kept
<1>18. Intact(s)'
  <2>1. k.base < k.end
    BY <1>2, <1>3, <1>7
  <2> QED
    BY <1>15, <1>16, <1>17, <2>1 DEF Intact, k
<1>19. ChainTyped'
  <2>1. kept \in Table
    <3>1. kept \in [DOMAIN kept -> Row] /\ DOMAIN kept \subseteq Nat
      BY <1>2, <1>3, <1>8, <1>12
    <3> QED
      BY <3>1, TableRows
  <2>2. heads' \in [Scopes -> HeadRow \cup {NoHead}]
    BY <1>1, <1>4, <1>7, <1>10 DEF k
  <2>3. rows' \in [Scopes -> Table]
    BY <1>1, <1>4, <2>1, <1>10 DEF kept
  <2> QED
    BY <1>4, <2>2, <2>3 DEF AuditInvariant, ChainTyped
<1>20. HistoryTyped'
  BY <1>1, <1>4 DEF HistoryTyped
<1>21. CacheIsValidated'
  BY <1>4 DEF AuditInvariant, CacheIsValidated, Checked, Genuine
<1>22. \A z \in Scopes \ damaged' : Intact(z)'
  BY <1>4, <1>10, <1>18, ScopeUntouched DEF AuditInvariant
<1>23. \A z \in damaged' : ~VerifyChain(z)'
  BY <1>1, <1>4, <1>10, VerifyUntouched DEF AuditInvariant, ChainTyped
<1> QED
  BY <1>19, <1>20, <1>21, <1>22, <1>23 DEF AuditInvariant
-----------------------------------------------------------------------------
(* One alteration of a chain that verified is seen.                          *)
LEMMA HashGrows ==
  ASSUME NEW x \in Hash, NEW p \in Payload
  PROVE  /\ ChainHash(x, p) \in Hash /\ ChainHash(x, p) # x
         /\ \A q \in Payload : ChainHash(x, p) = ChainHash(x, q) => p = q
<1>1. Append(x, p) \in Seq(Payload) /\ Len(Append(x, p)) = Len(x) + 1 /\ Len(x) \in Nat
  BY AppendProperties, LenProperties DEF Hash
<1>2. \A q \in Payload : Append(x, q)[Len(x) + 1] = q
  BY AppendProperties DEF Hash
<1> QED
  BY <1>1, <1>2 DEF ChainHash, Hash

LEMMA HeadDamageSeen ==
  ASSUME ChainTyped, NEW s \in Scopes, VerifyChain(s), heads[s] # NoHead,
         heads[s].base < heads[s].end,
         heads'[s] \in Altered(s) \cup {NoHead}, heads'[s] # heads[s], rows'[s] = rows[s]
  PROVE  ~VerifyChain(s)' /\ heads'[s] \in HeadRow \cup {NoHead}
<1> DEFINE h == heads[s]
           k == heads'[s]
           rs == rows[s]
<1>1. /\ h.base \in Nat /\ h.end \in Nat /\ h.base < h.end
      /\ h.baseHash \in Hash /\ h.endHash \in Hash
      /\ DOMAIN rs = (h.base + 1)..h.end
      /\ \A n \in DOMAIN rs : rs[n].prev = Previous(h, rs, n)
      /\ h.endHash = Previous(h, rs, h.end + 1)
  BY ValidShape
<1>2. h \in HeadRow /\ h.count = h.end - h.base
  BY DEF ChainTyped, VerifyChain, Valid
<1>3. ZeroHash \in Hash
  BY EmptySeq DEF ZeroHash, Hash
<1>4. k \in {[h EXCEPT !.base = i] : i \in 0..MaxAppends}
          \cup {[h EXCEPT !.end = i] : i \in 0..MaxAppends}
          \cup {[h EXCEPT !.count = i] : i \in 0..MaxAppends}
          \cup {[h EXCEPT !.baseHash = x] : x \in {ZeroHash, h.endHash}}
          \cup {[h EXCEPT !.endHash = x] : x \in {ZeroHash, h.baseHash}}
          \cup {NoHead}
  BY DEF Altered
<1>5. (rows'[s] = rs) /\ k # h
  OBVIOUS
<1>6. SUFFICES ~Valid(s, k, rs, NoRows) /\ k \in HeadRow \cup {NoHead}
  BY <1>5 DEF VerifyChain, Valid
<1> HIDE DEF h, k, rs
<1>7. CASE k = NoHead
  <2>1. h.end \in DOMAIN rs
    BY <1>1
  <2>2. rs # NoRows
    BY <2>1 DEF NoRows
  <2> QED
    BY <1>7, <2>2 DEF Valid
<1>8. CASE \E i \in 0..MaxAppends : k = [h EXCEPT !.base = i]
  <2>1. PICK i \in 0..MaxAppends : k = [h EXCEPT !.base = i]
    BY <1>8
  <2>2. k \in HeadRow /\ k.base = i /\ k.end = h.end /\ i # h.base
    BY <1>2, <1>5, <2>1, AuditAssumption DEF HeadRow, AuditAssumption
  <2>3. (i + 1)..h.end # (h.base + 1)..h.end
    <3>1. h.base + 1 \in (h.base + 1)..h.end /\ h.base \notin (h.base + 1)..h.end
      BY <1>1
    <3>2. i < h.base => i + 1 \in (i + 1)..h.end /\ i + 1 \notin (h.base + 1)..h.end
      BY <1>1
    <3>3. i > h.base => h.base + 1 \notin (i + 1)..h.end
      BY <1>1
    <3> QED
      BY <1>1, <2>2, <3>1, <3>2, <3>3
  <2>4. k # NoHead
    BY <2>2 DEF HeadRow, NoHead
  <2> QED
    BY <1>1, <2>2, <2>3, <2>4 DEF Valid
<1>9. CASE \E i \in 0..MaxAppends : k = [h EXCEPT !.end = i]
  <2>1. PICK i \in 0..MaxAppends : k = [h EXCEPT !.end = i]
    BY <1>9
  <2>2. k \in HeadRow /\ k.base = h.base /\ k.end = i /\ i # h.end
    BY <1>2, <1>5, <2>1, AuditAssumption DEF HeadRow, AuditAssumption
  <2>3. (h.base + 1)..i # (h.base + 1)..h.end
    <3>1. i < h.end => h.end \notin (h.base + 1)..i /\ h.end \in (h.base + 1)..h.end
      BY <1>1
    <3>2. i > h.end => i \in (h.base + 1)..i /\ i \notin (h.base + 1)..h.end
      BY <1>1
    <3> QED
      BY <1>1, <2>2, <3>1, <3>2
  <2>4. k # NoHead
    BY <2>2 DEF HeadRow, NoHead
  <2> QED
    BY <1>1, <2>2, <2>3, <2>4 DEF Valid
<1>10. CASE \E i \in 0..MaxAppends : k = [h EXCEPT !.count = i]
  <2>1. PICK i \in 0..MaxAppends : k = [h EXCEPT !.count = i]
    BY <1>10
  <2>2. k \in HeadRow /\ k.base = h.base /\ k.end = h.end /\ k.count = i /\ i # h.count
    BY <1>2, <1>5, <2>1, AuditAssumption DEF HeadRow, AuditAssumption
  <2>3. k # NoHead
    BY <2>2 DEF HeadRow, NoHead
  <2> QED
    BY <1>2, <2>2, <2>3 DEF Valid
<1>11. CASE \E x \in {ZeroHash, h.endHash} : k = [h EXCEPT !.baseHash = x]
  <2>1. PICK x \in Hash : k = [h EXCEPT !.baseHash = x]
    BY <1>1, <1>3, <1>11
  <2>2. k \in HeadRow /\ k.base = h.base /\ k.baseHash = x /\ x # h.baseHash
    BY <1>2, <1>5, <2>1 DEF HeadRow
  <2>3. h.base + 1 \in DOMAIN rs
    BY <1>1
  <2>4. rs[h.base + 1].prev = h.baseHash /\ Previous(k, rs, h.base + 1) = x
    BY <1>1, <2>2, <2>3 DEF Previous
  <2>5. k # NoHead
    BY <2>2 DEF HeadRow, NoHead
  <2> QED
    BY <2>2, <2>3, <2>4, <2>5 DEF Valid
<1>12. CASE \E x \in {ZeroHash, h.baseHash} : k = [h EXCEPT !.endHash = x]
  <2>1. PICK x \in Hash : k = [h EXCEPT !.endHash = x]
    BY <1>1, <1>3, <1>12
  <2>2. /\ k \in HeadRow /\ k.base = h.base /\ k.end = h.end /\ k.baseHash = h.baseHash
        /\ k.endHash = x /\ x # h.endHash
    BY <1>2, <1>5, <2>1 DEF HeadRow
  <2>3. Previous(k, rs, k.end + 1) = h.endHash
    BY <1>1, <2>2 DEF Previous
  <2>4. k # NoHead
    BY <2>2 DEF HeadRow, NoHead
  <2> QED
    BY <2>2, <2>3, <2>4 DEF Valid
<1> QED
  BY <1>4, <1>7, <1>8, <1>9, <1>10, <1>11, <1>12
LEMMA RowDamageSeen ==
  ASSUME ChainTyped, NEW s \in Scopes, VerifyChain(s), heads[s] # NoHead,
         heads'[s] = heads[s],
         NEW n \in DOMAIN rows[s], NEW r \in AlteredRow(rows[s][n]), r # rows[s][n],
         rows'[s] = [rows[s] EXCEPT ![n] = r]
  PROVE  ~VerifyChain(s)' /\ r \in Row
<1> DEFINE h == heads[s]
           rs == rows[s]
           old == rows[s][n]
           kept == rows'[s]
<1>1. /\ h.base \in Nat /\ h.end \in Nat
      /\ DOMAIN rs = (h.base + 1)..h.end
      /\ old.prev = Previous(h, rs, n) /\ Genuine(s, n, old)
      /\ rs \in [DOMAIN rs -> Row]
  BY ValidShape
<1>2. /\ old \in Row /\ old.payload \in Payload
      /\ old.prev \in Hash /\ old.hash \in Hash
      /\ old.at = old.payload.at /\ old.hash = ChainHash(old.prev, old.payload)
  BY <1>1 DEF Row, Genuine
<1>3. old.hash # old.prev /\ \A q \in Payload : old.hash = ChainHash(old.prev, q) => old.payload = q
  BY <1>2, HashGrows
<1>4. r \in {[old EXCEPT !.at = t] : t \in Times}
          \cup {[old EXCEPT !.payload.at = t] : t \in Times}
          \cup {[old EXCEPT !.payload.content = Garbage]}
          \cup {[old EXCEPT !.hash = old.prev], [old EXCEPT !.prev = old.hash]}
  BY DEF AlteredRow
<1>5. kept = [rs EXCEPT ![n] = r] /\ heads'[s] = h /\ rows'[s] = kept /\ r # old /\ old = rs[n]
  OBVIOUS
<1>6. SUFFICES ~Valid(s, h, kept, NoRows) /\ r \in Row
  BY <1>5 DEF VerifyChain, Valid
<1>7. n \in DOMAIN rs /\ h # NoHead
  OBVIOUS
<1> HIDE DEF h, rs, old, kept
<1>8. /\ DOMAIN kept = DOMAIN rs /\ kept[n] = r /\ n \in DOMAIN kept
      /\ \A m \in DOMAIN rs \ {n} : kept[m] = rs[m]
  BY <1>1, <1>5, <1>7
<1>9. Previous(h, kept, n) = Previous(h, rs, n)
  <2>1. n \in Int /\ n - 1 # n /\ (n # h.base + 1 => n - 1 \in DOMAIN rs)
    BY <1>1, <1>7
  <2> QED
    BY <1>8, <2>1 DEF Previous
<1>10. SUFFICES (r.prev # old.prev \/ ~Genuine(s, n, r)) /\ r \in Row
  <2>1. \A m, x : ~Recalled(NoRows, m, x)
    BY DEF Recalled, NoRows
  <2> QED
    BY <1>1, <1>7, <1>8, <1>9, <2>1 DEF Valid
<1>11. CASE \E t \in Times : r = [old EXCEPT !.at = t]
  <2>1. PICK t \in Times : r = [old EXCEPT !.at = t]
    BY <1>11
  <2>2. r \in Row /\ r.at = t /\ r.payload = old.payload /\ t # old.at
    BY <1>2, <1>5, <2>1 DEF Row
  <2> QED
    BY <1>2, <2>2 DEF Genuine
<1>12. CASE \E t \in Times : r = [old EXCEPT !.payload.at = t]
  <2>1. PICK t \in Times : r = [old EXCEPT !.payload.at = t]
    BY <1>12
  <2> DEFINE q == [old.payload EXCEPT !.at = t]
  <2>2. q \in Payload /\ q.at = t /\ r = [old EXCEPT !.payload = q]
    BY <1>2, <2>1 DEF Payload
  <2> HIDE DEF q
  <2>3. r \in Row /\ r.at = old.at /\ r.payload = q /\ q # old.payload
    BY <1>2, <1>5, <2>2 DEF Row
  <2>4. r.hash = old.hash /\ r.prev = old.prev
    BY <1>2, <2>2 DEF Row
  <2> QED
    BY <1>3, <2>2, <2>3, <2>4 DEF Genuine
<1>13. CASE r = [old EXCEPT !.payload.content = Garbage]
  <2> DEFINE q == [old.payload EXCEPT !.content = Garbage]
  <2>1. q \in Payload /\ r = [old EXCEPT !.payload = q]
    BY <1>2, <1>13 DEF Payload
  <2> HIDE DEF q
  <2>2. r \in Row /\ r.payload = q /\ q # old.payload /\ r.hash = old.hash /\ r.prev = old.prev
    BY <1>2, <1>5, <2>1 DEF Row
  <2> QED
    BY <1>3, <2>1, <2>2 DEF Genuine
<1>14. CASE r = [old EXCEPT !.hash = old.prev]
  <2>1. r \in Row /\ r.hash = old.prev /\ r.payload = old.payload /\ r.prev = old.prev
    BY <1>2, <1>14 DEF Row
  <2> QED
    BY <1>2, <1>3, <2>1 DEF Genuine
<1>15. CASE r = [old EXCEPT !.prev = old.hash]
  <2>1. r \in Row /\ r.prev = old.hash
    BY <1>2, <1>15 DEF Row
  <2> QED
    BY <1>3, <2>1
<1> QED
  BY <1>4, <1>11, <1>12, <1>13, <1>14, <1>15

LEMMA RowLossSeen ==
  ASSUME ChainTyped, NEW s \in Scopes, VerifyChain(s), heads[s] # NoHead,
         heads'[s] = heads[s], NEW n \in DOMAIN rows[s],
         rows'[s] = [m \in DOMAIN rows[s] \ {n} |-> rows[s][m]]
  PROVE  ~VerifyChain(s)'
<1>1. DOMAIN rows[s] = (heads[s].base + 1)..heads[s].end
  BY ValidShape
<1>2. DOMAIN rows'[s] # (heads[s].base + 1)..heads[s].end
  BY <1>1
<1> QED
  BY <1>2 DEF VerifyChain, Valid
LEMMA DamageKeeps ==
  ASSUME AuditInvariant, NEW s \in Scopes, Damage(s)
  PROVE  AuditInvariant'
<1>1. /\ heads \in [Scopes -> HeadRow \cup {NoHead}] /\ rows \in [Scopes -> Table]
      /\ damaged \subseteq Scopes /\ ChainTyped /\ HistoryTyped
  BY DEF AuditInvariant, ChainTyped
<1>2. /\ s \notin damaged /\ heads[s] # NoHead
      /\ damaged' = damaged \cup {s} /\ UNCHANGED <<cache, writers, committed>>
  BY DEF Damage
<1>3. VerifyChain(s) /\ heads[s].base < heads[s].end
  BY <1>2 DEF AuditInvariant, Intact
<1>4. /\ ~VerifyChain(s)'
      /\ heads' \in [Scopes -> HeadRow \cup {NoHead}] /\ rows' \in [Scopes -> Table]
      /\ \A z \in Scopes \ {s} : heads'[z] = heads[z] /\ rows'[z] = rows[z]
  <2>1. CASE /\ heads' \in {[heads EXCEPT ![s] = h] : h \in Altered(s) \cup {NoHead}}
             /\ heads' # heads
             /\ UNCHANGED rows
    <3>1. PICK h \in Altered(s) \cup {NoHead} : heads' = [heads EXCEPT ![s] = h]
      BY <2>1
    <3>2. heads'[s] = h /\ h # heads[s] /\ rows' = rows
      BY <1>1, <2>1, <3>1
    <3>3. ~VerifyChain(s)' /\ h \in HeadRow \cup {NoHead}
      BY <1>1, <1>2, <1>3, <3>1, <3>2, HeadDamageSeen
    <3> QED
      BY <1>1, <3>1, <3>2, <3>3
  <2>2. ASSUME NEW n \in DOMAIN rows[s], NEW r \in AlteredRow(rows[s][n]),
               rows' = [rows EXCEPT ![s][n] = r], rows' # rows, heads' = heads
        PROVE  /\ ~VerifyChain(s)' /\ rows' \in [Scopes -> Table]
               /\ \A z \in Scopes \ {s} : rows'[z] = rows[z]
    <3>1. rows'[s] = [rows[s] EXCEPT ![n] = r] /\ \A z \in Scopes \ {s} : rows'[z] = rows[z]
      BY <1>1, <2>2
    <3>2. r # rows[s][n]
      <4>1. SUFFICES ASSUME r = rows[s][n] PROVE FALSE
        OBVIOUS
      <4>2. rows[s] \in [DOMAIN rows[s] -> Row]
        BY <1>1, TableRows
      <4>3. [rows[s] EXCEPT ![n] = r] = rows[s]
        BY <4>1, <4>2
      <4>4. rows'[s] = rows[s]
        BY <3>1, <4>3
      <4>5. rows' = rows
        BY <1>1, <2>2, <3>1, <4>4
      <4> QED
        BY <2>2, <4>5
    <3>3. ~VerifyChain(s)' /\ r \in Row
      BY <1>1, <1>2, <1>3, <2>2, <3>1, <3>2, RowDamageSeen
    <3>4. rows'[s] \in Table
      BY <1>1, <2>2, <3>1, <3>3, TableRows
    <3>5. DOMAIN rows' = Scopes /\ rows' = [z \in Scopes |-> rows'[z]]
      BY <1>1, <2>2
    <3> QED
      BY <1>1, <3>1, <3>3, <3>4, <3>5
  <2>3. ASSUME NEW n \in DOMAIN rows[s], heads' = heads,
               rows' = [rows EXCEPT ![s] = [m \in DOMAIN rows[s] \ {n} |-> rows[s][m]]]
        PROVE  /\ ~VerifyChain(s)' /\ rows' \in [Scopes -> Table]
               /\ \A z \in Scopes \ {s} : rows'[z] = rows[z]
    <3> DEFINE kept == [m \in DOMAIN rows[s] \ {n} |-> rows[s][m]]
    <3>1. rows'[s] = kept /\ \A z \in Scopes \ {s} : rows'[z] = rows[z]
      BY <1>1, <2>3
    <3>2. kept \in Table
      <4>1. rows[s] \in [DOMAIN rows[s] -> Row] /\ DOMAIN rows[s] \subseteq Nat
        BY <1>1, TableRows
      <4>2. DOMAIN kept \subseteq Nat /\ kept \in [DOMAIN kept -> Row]
        BY <4>1
      <4> QED
        BY <4>2, TableRows
    <3>3. ~VerifyChain(s)'
      BY <1>1, <1>2, <1>3, <2>3, <3>1, RowLossSeen
    <3> HIDE DEF kept
    <3> QED
      BY <1>1, <2>3, <3>1, <3>2, <3>3 DEF kept
  <2>4. \/ /\ heads' \in {[heads EXCEPT ![s] = h] : h \in Altered(s) \cup {NoHead}}
           /\ heads' # heads
           /\ UNCHANGED rows
        \/ \E n \in DOMAIN rows[s] :
             /\ \/ rows' \in {[rows EXCEPT ![s][n] = r] : r \in AlteredRow(rows[s][n])}
                \/ rows' = [rows EXCEPT ![s] = [m \in DOMAIN rows[s] \ {n} |-> rows[s][m]]]
             /\ rows' # rows /\ heads' = heads
    BY DEF Damage
  <2>5. CASE heads' # heads
    BY <2>1, <2>4, <2>5
  <2>6. CASE heads' = heads
    <3>1. PICK n \in DOMAIN rows[s] :
            /\ \/ rows' \in {[rows EXCEPT ![s][n] = r] : r \in AlteredRow(rows[s][n])}
               \/ rows' = [rows EXCEPT ![s] = [m \in DOMAIN rows[s] \ {n} |-> rows[s][m]]]
            /\ rows' # rows
      BY <2>4, <2>6
    <3>2. ~VerifyChain(s)' /\ rows' \in [Scopes -> Table]
          /\ \A z \in Scopes \ {s} : rows'[z] = rows[z]
      BY <2>2, <2>3, <2>6, <3>1
    <3> QED
      BY <1>1, <2>6, <3>2
  <2> QED
    BY <2>5, <2>6
<1>5. \A z \in Scopes \ damaged' : Intact(z)'
  BY <1>2, <1>4, ScopeUntouched DEF AuditInvariant
<1>6. \A z \in damaged' : ~VerifyChain(z)'
  BY <1>1, <1>2, <1>4, VerifyUntouched DEF AuditInvariant
<1>7. ChainTyped' /\ HistoryTyped'
  BY <1>1, <1>2, <1>4 DEF ChainTyped, HistoryTyped
<1>8. CacheIsValidated'
  BY <1>2 DEF AuditInvariant, CacheIsValidated, Checked, Genuine
<1> QED
  BY <1>5, <1>6, <1>7, <1>8 DEF AuditInvariant

LEMMA AuditStep == AuditInvariant /\ [Next]_vars => AuditInvariant'
<1> SUFFICES ASSUME AuditInvariant, [Next]_vars PROVE AuditInvariant'
  OBVIOUS
<1>1. ASSUME NEW w \in Writers, NEW s \in Scopes, NEW t \in Times, NEW content \in Contents,
             AppendBegin(w, s, t, content)
      PROVE  AuditInvariant'
  BY <1>1, BeginKeeps
<1>2. ASSUME NEW w \in Writers, AppendCommit(w) PROVE AuditInvariant'
  BY <1>2, CommitKeeps
<1>3. ASSUME NEW w \in Writers, AppendRefuse(w) \/ AppendFails(w) PROVE AuditInvariant'
  BY <1>3, GiveUpKeeps
<1>4. ASSUME NEW w \in Writers, AppendPublish(w) PROVE AuditInvariant'
  BY <1>4, PublishKeeps
<1>5. ASSUME NEW p \in Stores, Crash(p) PROVE AuditInvariant'
  BY <1>5, CrashKeeps
<1>6. ASSUME NEW s \in Scopes, Damage(s) PROVE AuditInvariant'
  BY <1>6, DamageKeeps
<1>7. ASSUME NEW s \in Scopes, NEW n \in 0..MaxAppends, Restore(s, n) PROVE AuditInvariant'
  BY <1>7, RestoreKeeps
<1>8. CASE UNCHANGED vars
  <2>1. UNCHANGED <<heads, rows, cache, writers, committed, damaged>>
    BY <1>8 DEF vars
  <2>2. CacheIsValidated' /\ writers' \in [Writers -> WriterState]
    BY <2>1 DEF AuditInvariant, ChainTyped, CacheIsValidated, Checked, Genuine
  <2> QED
    BY <2>1, <2>2, ChainUntouched
<1> QED
  BY <1>1, <1>2, <1>3, <1>4, <1>5, <1>6, <1>7, <1>8 DEF Next

(***************************************************************************)
(* An undamaged chain verifies, holds what committed to it and is young      *)
(* enough; a damaged one does not verify; and what a store remembers was    *)
(* checked (audit.py append, _prune, _publish_cache).                       *)
(***************************************************************************)
THEOREM AuditInduction == Spec => []AuditInvariant
<1>1. Init => AuditInvariant
  BY AuditInit
<1>2. AuditInvariant /\ [Next]_vars => AuditInvariant'
  BY AuditStep
<1> QED
  BY <1>1, <1>2, PTL DEF Spec
-----------------------------------------------------------------------------
(* The hash of a row covers every event up to it, and the base's those that   *)
(* were let go; so does every hash that append() returned.                   *)
Covers(s) ==
  /\ DOMAIN heads[s].baseHash = 1..heads[s].base
  /\ \A n \in DOMAIN rows[s] :
       DOMAIN rows[s][n].hash = 1..n /\ \A i \in 1..n : rows[s][n].hash[i] = Covered(s, i)
Vouched(s) ==
  \A a \in committed[s] :
    DOMAIN a[2] = 1..a[1] /\ \A i \in 1..a[1] : a[2][i] = Covered(s, i)
HashesCover == \A s \in Scopes \ damaged : Covers(s) /\ Vouched(s)

LEMMA EndCovers ==
  ASSUME ChainTyped, NEW s \in Scopes, VerifyChain(s), Covers(s)
  PROVE  /\ heads[s].endHash \in Seq(Payload) /\ Len(heads[s].endHash) = heads[s].end
         /\ \A i \in 1..heads[s].end : heads[s].endHash[i] = Covered(s, i)
<1> DEFINE h == heads[s]
<1>1. /\ h.base \in Nat /\ h.end \in Nat /\ h.base <= h.end /\ h.endHash \in Hash
      /\ DOMAIN rows[s] = (h.base + 1)..h.end
      /\ h.endHash = Previous(h, rows[s], h.end + 1)
  BY ValidShape
<1>2. DOMAIN h.endHash = 1..h.end /\ \A i \in 1..h.end : h.endHash[i] = Covered(s, i)
  <2>1. CASE h.end = h.base
    <3>1. h.endHash = h.baseHash
      BY <1>1, <2>1 DEF Previous
    <3> QED
      BY <1>1, <2>1, <3>1 DEF Covers, Covered
  <2>2. CASE h.end # h.base
    <3> HIDE DEF h
    <3>1. h.end \in DOMAIN rows[s] /\ h.end + 1 # h.base + 1 /\ h.end + 1 - 1 = h.end
      BY <1>1, <2>2
    <3>2. h.endHash = rows[s][h.end].hash
      BY <1>1, <3>1 DEF Previous
    <3> QED
      BY <3>1, <3>2 DEF Covers
  <2> QED
    BY <2>1, <2>2
<1>3. Len(h.endHash) = h.end
  <2>1. Len(h.endHash) \in Nat /\ DOMAIN h.endHash = 1..Len(h.endHash)
    BY <1>1, LenProperties DEF Hash
  <2> HIDE DEF h
  <2> QED
    BY <1>1, <1>2, <2>1
<1> QED
  BY <1>1, <1>2, <1>3 DEF Hash

(* A commit adds its event to those that are covered, and changes no other,   *)
(* whatever it lets go.                                                      *)
LEMMA CommitExtends ==
  ASSUME ChainTyped, NEW w \in Writers, At(w, "write"), VerifyChain(writers[w].scope),
         NEW b \in Nat, CommitsTo(w, writers[w].scope, b),
         NEW s \in Scopes, s = writers[w].scope, Covers(s)
  PROVE  /\ \A i \in 1..heads[s].end : Covered(s, i)' = Covered(s, i)
         /\ \A i \in {heads[s].end + 1} : Covered(s, i)' = NewRow(w).payload
         /\ Covers(s)'
<1> DEFINE h == heads[s]
           k == heads'[s]
           table == Grown(w)
           old == rows[s]
           new == NewRow(w)
           kept == rows'[s]
<1>1. /\ h.base \in Nat /\ h.end \in Nat /\ h.base <= h.end
      /\ DOMAIN old = (h.base + 1)..h.end
  BY ValidShape
<1>2. /\ DOMAIN table = (h.base + 1)..(h.end + 1) /\ table[h.end + 1] = new
      /\ \A n \in (h.base + 1)..h.end : table[n] = old[n]
  BY GrownShape
<1>3. /\ kept = [n \in (b + 1)..(h.end + 1) |-> table[n]]
      /\ k.base = b /\ k.end = h.end + 1 /\ k.baseHash = Previous(h, table, b + 1)
  BY CommitFrame
<1>4. b \in h.base..h.end
  BY DEF CommitsTo
<1>5. /\ new.payload \in Payload
      /\ new.hash = Append(h.endHash, new.payload)
  BY NewRowTyped DEF NewRow, ChainHash, Row
<1>6. /\ h.endHash \in Seq(Payload) /\ Len(h.endHash) = h.end
      /\ \A i \in 1..h.end : h.endHash[i] = Covered(s, i)
  BY EndCovers
<1>7. /\ DOMAIN h.baseHash = 1..h.base
      /\ \A i \in 1..h.base : h.baseHash[i] = Covered(s, i)
      /\ \A i \in (h.base + 1)..h.end : old[i].payload = Covered(s, i)
      /\ \A n \in DOMAIN old :
           DOMAIN old[n].hash = 1..n /\ \A i \in 1..n : old[n].hash[i] = Covered(s, i)
  <2>1. \A i \in 1..h.base : i <= h.base
    BY <1>1
  <2>2. \A i \in (h.base + 1)..h.end : ~(i <= h.base)
    BY <1>1
  <2> QED
    BY <2>1, <2>2 DEF Covers, Covered
<1>8. \A i : Covered(s, i)' = IF i <= k.base THEN k.baseHash[i] ELSE kept[i].payload
  BY DEF Covered
<1>9. Covers(s)' <=>
        /\ DOMAIN k.baseHash = 1..k.base
        /\ \A n \in DOMAIN kept :
             DOMAIN kept[n].hash = 1..n /\ \A i \in 1..n : kept[n].hash[i] = Covered(s, i)'
  BY DEF Covers
<1>10. /\ DOMAIN new.hash = 1..(h.end + 1) /\ new.hash[h.end + 1] = new.payload
       /\ \A i \in 1..h.end : new.hash[i] = Covered(s, i)
  <2> HIDE DEF h, new
  <2>1. /\ new.hash \in Seq(Payload) /\ Len(new.hash) = h.end + 1
        /\ new.hash[h.end + 1] = new.payload
        /\ \A i \in 1..h.end : new.hash[i] = h.endHash[i]
    BY <1>5, <1>6, AppendProperties
  <2>2. DOMAIN new.hash = 1..(h.end + 1)
    BY <2>1, LenProperties
  <2> QED
    BY <1>6, <2>1, <2>2
<1> HIDE DEF h, k, table, old, new, kept
<1>11. /\ DOMAIN kept = (b + 1)..(h.end + 1) /\ kept[h.end + 1] = new
       /\ \A n \in (b + 1)..h.end : n \in DOMAIN old /\ kept[n] = old[n]
  BY <1>1, <1>2, <1>3, <1>4
<1>12. DOMAIN k.baseHash = 1..b /\ \A i \in 1..b : k.baseHash[i] = Covered(s, i)
  <2>1. CASE b = h.base
    BY <1>1, <1>3, <1>7, <2>1 DEF Previous
  <2>2. CASE b # h.base
    <3>1. b \in DOMAIN old /\ b + 1 # h.base + 1 /\ b + 1 - 1 = b
      BY <1>1, <1>4, <2>2
    <3>2. k.baseHash = old[b].hash
      BY <1>1, <1>2, <1>3, <3>1 DEF Previous
    <3> QED
      BY <1>7, <3>1, <3>2
  <2> QED
    BY <2>1, <2>2
<1>13. ASSUME NEW i \in 1..h.end PROVE Covered(s, i)' = Covered(s, i)
  <2>1. CASE i <= b
    <3>1. i \in 1..b
      BY <1>1, <1>13, <2>1
    <3> QED
      BY <1>3, <1>8, <1>12, <2>1, <3>1
  <2>2. CASE ~(i <= b)
    <3>1. i \in (b + 1)..h.end /\ i \in (h.base + 1)..h.end
      BY <1>1, <1>4, <1>13, <2>2
    <3> QED
      BY <1>3, <1>7, <1>8, <1>11, <2>2, <3>1
  <2> QED
    BY <2>1, <2>2
<1>14. ASSUME NEW i \in {h.end + 1} PROVE Covered(s, i)' = new.payload
  <2>1. ~(i <= b)
    BY <1>1, <1>4, <1>14
  <2> QED
    BY <1>3, <1>8, <1>11, <1>14, <2>1
<1>15. ASSUME NEW n \in DOMAIN kept
       PROVE  DOMAIN kept[n].hash = 1..n /\ \A i \in 1..n : kept[n].hash[i] = Covered(s, i)'
  <2>1. CASE n = h.end + 1
    <3>1. \A i \in 1..n : i \in {h.end + 1} \/ i \in 1..h.end
      BY <1>1, <2>1
    <3> QED
      BY <1>10, <1>11, <1>13, <1>14, <2>1, <3>1
  <2>2. CASE n # h.end + 1
    <3>1. n \in (b + 1)..h.end /\ \A i \in 1..n : i \in 1..h.end
      BY <1>1, <1>11, <1>15, <2>2
    <3> QED
      BY <1>7, <1>11, <1>13, <3>1
  <2> QED
    BY <2>1, <2>2
<1> QED
  BY <1>3, <1>9, <1>12, <1>13, <1>14, <1>15 DEF h, new

LEMMA CoversUntouched ==
  ASSUME NEW s, heads'[s] = heads[s], rows'[s] = rows[s], committed'[s] = committed[s]
  PROVE  /\ \A i : Covered(s, i)' = Covered(s, i)
         /\ Covers(s)' <=> Covers(s)
         /\ Vouched(s)' <=> Vouched(s)
<1>1. \A i : Covered(s, i)' = Covered(s, i)
  BY DEF Covered
<1> QED
  BY <1>1 DEF Covers, Vouched

LEMMA CommitCovers ==
  ASSUME AuditInvariant, HashesCover, NEW w \in Writers, AppendCommit(w)
  PROVE  HashesCover'
<1>1. ChainTyped /\ CacheIsValidated /\ HistoryTyped
  BY DEF AuditInvariant
<1> DEFINE z == writers[w].scope
<1>2. /\ z \in Scopes /\ At(w, "write") /\ VerifyChain(z)
      /\ \E b \in Nat : CommitsTo(w, z, b)
  BY <1>1, CommitShape
<1>3. PICK s \in Scopes : s = z
  BY <1>2
<1>4. PICK b \in Nat : CommitsTo(w, z, b)
  BY <1>2
<1> HIDE DEF z
<1>5. /\ s \notin damaged /\ Covers(s) /\ Vouched(s) /\ Recorded(s)
      /\ VerifyChain(s) /\ heads[s].end \in Nat
  <2>1. s \notin damaged
    BY <1>2, <1>3 DEF AuditInvariant
  <2> QED
    BY <1>1, <1>2, <1>3, <2>1, ValidShape DEF AuditInvariant, Intact, HashesCover
<1>6. /\ \A i \in 1..heads[s].end : Covered(s, i)' = Covered(s, i)
      /\ \A i \in {heads[s].end + 1} : Covered(s, i)' = NewRow(w).payload
      /\ Covers(s)'
  BY <1>1, <1>2, <1>3, <1>4, <1>5, CommitExtends DEF z
<1>7. /\ committed' = [committed EXCEPT ![s] =
           committed[s] \cup {<<NextSequence(s), NewRow(w).hash>>}]
      /\ UNCHANGED damaged
  BY <1>3, <1>4 DEF CommitsTo
<1>8. NextSequence(s) = heads[s].end + 1
  BY DEF NextSequence
<1>9. /\ NewRow(w).hash \in Seq(Payload) /\ DOMAIN NewRow(w).hash = 1..(heads[s].end + 1)
      /\ \A i \in 1..heads[s].end : NewRow(w).hash[i] = Covered(s, i)
      /\ NewRow(w).hash[heads[s].end + 1] = NewRow(w).payload
  <2> DEFINE old == heads[s].endHash
             new == NewRow(w).hash
  <2>1. /\ old \in Seq(Payload) /\ Len(old) = heads[s].end
        /\ \A i \in 1..heads[s].end : old[i] = Covered(s, i)
    BY <1>1, <1>5, EndCovers
  <2>2. NewRow(w).payload \in Payload /\ new = Append(old, NewRow(w).payload)
    BY <1>1, <1>2, <1>3, NewRowTyped DEF NewRow, Row, ChainHash, z
  <2> HIDE DEF old, new
  <2>3. /\ new \in Seq(Payload) /\ Len(new) = heads[s].end + 1
        /\ new[heads[s].end + 1] = NewRow(w).payload
        /\ \A i \in 1..heads[s].end : new[i] = old[i]
    BY <2>1, <2>2, AppendProperties
  <2>4. DOMAIN new = 1..(heads[s].end + 1)
    BY <2>3, LenProperties
  <2> QED
    BY <2>1, <2>3, <2>4 DEF new
<1>10. ASSUME NEW a \in committed'[s]
       PROVE  DOMAIN a[2] = 1..a[1] /\ \A i \in 1..a[1] : a[2][i] = Covered(s, i)'
  <2>1. committed'[s] = committed[s] \cup {<<NextSequence(s), NewRow(w).hash>>}
    BY <1>1, <1>7 DEF HistoryTyped
  <2>2. CASE a \in committed[s]
    <3>1. a[1] \in Nat /\ a[1] <= heads[s].end
      BY <1>5, <2>2 DEF Recorded
    <3>2. \A i \in 1..a[1] : i \in 1..heads[s].end
      BY <1>5, <3>1
    <3> QED
      BY <1>5, <1>6, <2>2, <3>2 DEF Vouched
  <2>3. CASE a = <<heads[s].end + 1, NewRow(w).hash>>
    <3>1. a[1] = heads[s].end + 1 /\ a[2] = NewRow(w).hash
      BY <2>3
    <3>2. \A i \in 1..a[1] : i \in {heads[s].end + 1} \/ i \in 1..heads[s].end
      BY <1>5, <3>1
    <3> QED
      BY <1>6, <1>9, <3>1, <3>2
  <2> QED
    BY <1>8, <2>1, <2>2, <2>3
<1>11. Vouched(s)'
  BY <1>10 DEF Vouched
<1>12. ASSUME NEW y \in Scopes \ {s}
       PROVE  heads'[y] = heads[y] /\ rows'[y] = rows[y] /\ committed'[y] = committed[y]
  BY <1>1, <1>2, <1>3, <1>4, CommitFrame DEF z
<1> QED
  BY <1>6, <1>7, <1>11, <1>12, CoversUntouched DEF HashesCover

LEMMA RestoreCovers ==
  ASSUME AuditInvariant, HashesCover, NEW s \in Scopes, NEW n, Restore(s, n)
  PROVE  HashesCover' /\ \A i \in 1..n : Covered(s, i)' = Covered(s, i)
<1> DEFINE h == heads[s]
           k == heads'[s]
           old == rows[s]
           kept == rows'[s]
<1>1. /\ heads \in [Scopes -> HeadRow \cup {NoHead}] /\ rows \in [Scopes -> Table]
      /\ committed \in [Scopes -> SUBSET (Nat \X Hash)]
      /\ Intact(s) /\ h \in HeadRow /\ s \notin damaged
  BY DEF AuditInvariant, ChainTyped, HistoryTyped, Restore
<1>2. h.base \in Nat /\ h.end \in Nat /\ DOMAIN old = (h.base + 1)..h.end
  BY <1>1, ValidShape DEF AuditInvariant, Intact
<1>3. n \in (h.base + 1)..(h.end - 1)
  BY DEF Restore
<1>4. /\ k.base = h.base /\ k.baseHash = h.baseHash
      /\ kept = [m \in (h.base + 1)..n |-> old[m]]
      /\ committed'[s] = {a \in committed[s] : a[1] <= n}
      /\ UNCHANGED damaged
  BY <1>1 DEF Restore, HeadRow
<1>5. \A z \in Scopes \ {s} :
        heads'[z] = heads[z] /\ rows'[z] = rows[z] /\ committed'[z] = committed[z]
  BY <1>1 DEF Restore
<1>6. Covers(s) /\ Vouched(s) /\ Recorded(s)
  BY <1>1 DEF HashesCover, Intact
<1>7. \A i : /\ Covered(s, i)' = IF i <= k.base THEN k.baseHash[i] ELSE kept[i].payload
             /\ Covered(s, i) = IF i <= h.base THEN h.baseHash[i] ELSE old[i].payload
  BY DEF Covered
<1>8. /\ DOMAIN h.baseHash = 1..h.base
      /\ \A m \in DOMAIN old :
           DOMAIN old[m].hash = 1..m /\ \A i \in 1..m : old[m].hash[i] = Covered(s, i)
  BY <1>6 DEF Covers
<1>9. Covers(s)' <=>
        /\ DOMAIN k.baseHash = 1..k.base
        /\ \A m \in DOMAIN kept :
             DOMAIN kept[m].hash = 1..m /\ \A i \in 1..m : kept[m].hash[i] = Covered(s, i)'
  BY DEF Covers
<1> HIDE DEF h, k, old, kept
<1>10. \A m \in DOMAIN kept : m \in DOMAIN old /\ kept[m] = old[m] /\ m <= n
  BY <1>2, <1>3, <1>4
<1>11. ASSUME NEW i \in 1..n PROVE Covered(s, i)' = Covered(s, i)
  <2>1. CASE i <= h.base
    BY <1>4, <1>7, <2>1
  <2>2. CASE ~(i <= h.base)
    <3>1. i \in (h.base + 1)..n
      BY <1>2, <1>3, <1>11, <2>2
    <3> QED
      BY <1>4, <1>7, <2>2, <3>1
  <2> QED
    BY <2>1, <2>2
<1>12. Covers(s)'
  <2>1. \A m \in DOMAIN kept : \A i \in 1..m : i \in 1..n
    BY <1>2, <1>3, <1>4
  <2> QED
    BY <1>4, <1>8, <1>9, <1>10, <1>11, <2>1
<1>13. Vouched(s)'
  <2>1. ASSUME NEW a \in committed'[s]
        PROVE  DOMAIN a[2] = 1..a[1] /\ \A i \in 1..a[1] : a[2][i] = Covered(s, i)'
    <3>1. a \in committed[s] /\ a[1] <= n /\ a[1] \in Nat
      BY <1>4, <1>6, <2>1 DEF Recorded
    <3>2. \A i \in 1..a[1] : i \in 1..n
      BY <1>2, <1>3, <3>1
    <3> QED
      BY <1>6, <1>11, <3>1, <3>2 DEF Vouched
  <2> QED
    BY <2>1 DEF Vouched
<1>14. HashesCover'
  BY <1>4, <1>5, <1>12, <1>13, CoversUntouched DEF HashesCover
<1> QED
  BY <1>11, <1>14

LEMMA HashesStep == AuditInvariant /\ HashesCover /\ [Next]_vars => HashesCover'
<1> SUFFICES ASSUME AuditInvariant, HashesCover, [Next]_vars PROVE HashesCover'
  OBVIOUS
<1>1. CASE UNCHANGED <<heads, rows, committed, damaged>>
  BY <1>1, CoversUntouched DEF HashesCover
<1>2. ASSUME NEW w \in Writers, AppendCommit(w) PROVE HashesCover'
  BY <1>2, CommitCovers
<1>3. ASSUME NEW s \in Scopes, NEW n \in 0..MaxAppends, Restore(s, n) PROVE HashesCover'
  BY <1>3, RestoreCovers
<1>4. ASSUME NEW s \in Scopes, Damage(s) PROVE HashesCover'
  <2>1. damaged' = damaged \cup {s} /\ UNCHANGED committed
    BY <1>4 DEF Damage
  <2>2. \A z \in Scopes \ {s} : heads'[z] = heads[z] /\ rows'[z] = rows[z]
    <3>1. \A z \in Scopes \ {s} : heads'[z] = heads[z]
      BY <1>4 DEF Damage, AuditInvariant, ChainTyped
    <3>2. \A z \in Scopes \ {s} : rows'[z] = rows[z]
      BY <1>4 DEF Damage, AuditInvariant, ChainTyped
    <3> QED
      BY <3>1, <3>2
  <2> QED
    BY <2>1, <2>2, CoversUntouched DEF HashesCover
<1>5. ASSUME NEW w \in Writers, AppendRefuse(w) \/ AppendPublish(w) \/ AppendFails(w)
      PROVE  UNCHANGED <<heads, rows, committed, damaged>>
  BY <1>5 DEF AppendRefuse, AppendPublish, AppendFails
<1>6. ASSUME NEW p \in Stores, Crash(p) PROVE UNCHANGED <<heads, rows, committed, damaged>>
  BY <1>6 DEF Crash
<1>7. ASSUME NEW w \in Writers, NEW s \in Scopes, NEW t \in Times, NEW content \in Contents,
             AppendBegin(w, s, t, content)
      PROVE  UNCHANGED <<heads, rows, committed, damaged>>
  BY <1>7 DEF AppendBegin
<1> QED
  BY <1>1, <1>2, <1>3, <1>4, <1>5, <1>6, <1>7 DEF Next, vars

(***************************************************************************)
(* Whatever commits, is pruned or is taken back, the hash of each row, of    *)
(* the base and of each answer of append() covers the events up to it, all   *)
(* of them and in order, those included that were let go (audit.py append,   *)
(* _prune).                                                                *)
(***************************************************************************)
THEOREM HashesCoverHistory == Spec => [](AuditInvariant /\ HashesCover)
<1>1. Init => HashesCover
  BY DEF Init, HashesCover, Covers, Vouched, NoHead, NoRows, ZeroHash
<1> QED
  BY <1>1, HashesStep, AuditInduction, PTL DEF Spec
-----------------------------------------------------------------------------
(***************************************************************************)
(* A store that remembers validated rows judges every chain as one that     *)
(* hashes every row (audit.py _validate_state, _publish_cache).             *)
(***************************************************************************)
THEOREM RememberingIsSafe == Spec => []CacheAgrees
<1>1. AuditInvariant => CacheAgrees
  BY MemoryAgrees DEF AuditInvariant, CacheAgrees
<1> QED
  BY <1>1, AuditInduction, PTL

(***************************************************************************)
(* One altered column or lost row of a scope's chain is seen by its next    *)
(* verification (audit.py _validate_state).                                 *)
(***************************************************************************)
THEOREM AlterationIsSeen == Spec => []DamageIsSeen
<1>1. AuditInvariant => DamageIsSeen
  BY DEF AuditInvariant, DamageIsSeen, ListRedacted, Refused
<1> QED
  BY <1>1, AuditInduction, PTL

LEMMA ChainSize ==
  ASSUME ChainTyped, NEW s \in Scopes, VerifyChain(s)
  PROVE  /\ Cardinality(DOMAIN rows[s]) = heads[s].end - heads[s].base
         /\ heads[s].end - heads[s].base <= MaxEvents
<1> DEFINE base == heads[s].base
           end == heads[s].end
<1>1. /\ base \in Nat /\ end \in Nat /\ base <= end /\ end - base <= MaxEvents
      /\ DOMAIN rows[s] = (base + 1)..end
  BY ValidShape
<1> HIDE DEF base, end
<1>2. Cardinality((base + 1)..end) = end - base
  <2>1. CASE base = end
    <3>1. (base + 1)..end = {}
      BY <1>1, <2>1
    <3> QED
      BY <1>1, <2>1, <3>1, FS_EmptySet
  <2>2. CASE base # end
    <3>1. base + 1 \in Int /\ end \in Int /\ base + 1 <= end
      BY <1>1, <2>2
    <3>2. Cardinality((base + 1)..end) = end - (base + 1) + 1
      BY <3>1, FS_Interval
    <3> QED
      BY <1>1, <3>2
  <2> QED
    BY <2>1, <2>2
<1> QED
  BY <1>1, <1>2 DEF base, end

(***************************************************************************)
(* A committed append keeps its number and its hash until retention passes  *)
(* it, is listed there, and what it returned stays the hash of the history  *)
(* up to it for good (audit.py append, _prune, list_redacted).              *)
(***************************************************************************)
THEOREM CommittedStays == Spec => []CommittedIsKept
<1>1. ASSUME AuditInvariant, HashesCover, NEW s \in Scopes \ damaged
      PROVE  LET listed == ListRedacted(s, MaxEvents)
             IN  /\ listed.ok
                 /\ \A a \in committed[s] :
                      /\ a[1] <= heads[s].end
                      /\ a[1] > heads[s].base =>
                           listed.events[heads[s].end + 1 - a[1]].hash = a[2]
                      /\ a[2] = SubSeq(heads[s].endHash, 1, a[1])
  <2> DEFINE base == heads[s].base
             end == heads[s].end
             rs == rows[s]
             kept == Cardinality(DOMAIN rs)
             events == [i \in 1..(IF kept < MaxEvents THEN kept ELSE MaxEvents) |->
                          rs[end + 1 - i]]
  <2>1. ChainTyped /\ s \in Scopes /\ VerifyChain(s) /\ Recorded(s)
    BY <1>1 DEF AuditInvariant, Intact
  <2>2. kept = end - base /\ kept <= MaxEvents /\ base \in Nat /\ end \in Nat /\ base <= end
    BY <2>1, ChainSize, ValidShape
  <2>3. \A a \in committed[s] :
          a[1] \in Nat /\ a[1] <= end /\ (a[1] > base => rs[a[1]].hash = a[2])
    BY <2>1 DEF Recorded
  <2>4. ListRedacted(s, MaxEvents) = [ok |-> TRUE, events |-> events]
    BY <2>1 DEF ListRedacted
  <2> HIDE DEF base, end, rs, kept
  <2>5. (IF kept < MaxEvents THEN kept ELSE MaxEvents) = end - base
    BY <2>2, AuditAssumption DEF AuditAssumption
  <2>6. ASSUME NEW a \in committed[s], a[1] > base
        PROVE  events[end + 1 - a[1]].hash = a[2]
    <3>1. PICK i \in Int : i = end + 1 - a[1]
      BY <2>2, <2>3
    <3>2. i \in 1..(end - base) /\ end + 1 - i = a[1]
      BY <2>2, <2>3, <2>6, <3>1
    <3>3. events[i] = rs[a[1]]
      BY <2>5, <3>2
    <3> QED
      BY <2>3, <2>6, <3>1, <3>3
  <2>7. ASSUME NEW a \in committed[s]
        PROVE  a[2] = SubSeq(heads[s].endHash, 1, a[1])
    <3> DEFINE last == heads[s].endHash
               part == SubSeq(last, 1, a[1])
    <3>1. /\ last \in Seq(Payload) /\ Len(last) = end
          /\ \A i \in 1..end : last[i] = Covered(s, i)
      BY <1>1, <2>1, EndCovers DEF HashesCover, end
    <3>2. a[1] \in Nat /\ a[1] <= end
      BY <2>3
    <3>3. /\ a[2] \in Seq(Payload) /\ DOMAIN a[2] = 1..a[1]
          /\ \A i \in 1..a[1] : a[2][i] = Covered(s, i)
      <4>1. a \in Nat \X Seq(Payload)
        BY <1>1, <2>7 DEF AuditInvariant, HistoryTyped, Hash
      <4> QED
        BY <1>1, <2>7, <4>1 DEF HashesCover, Vouched
    <3> HIDE DEF last
    <3>4. \A i \in 1..a[1] : i \in 1..end
      BY <2>2, <3>2
    <3>5. \A i \in 1..a[1] : last[i] \in Payload
      BY <2>2, <3>1, <3>4, ElementOfSeq
    <3>6. /\ part \in Seq(Payload) /\ Len(part) = a[1]
          /\ \A i \in 1..a[1] : part[i] = last[i]
      <4>1. 1 \in Int /\ a[1] \in Int
        BY <3>2
      <4>2. /\ part \in Seq(Payload)
            /\ Len(part) = IF 1 <= a[1] THEN a[1] - 1 + 1 ELSE 0
            /\ \A i \in 1..(a[1] - 1 + 1) : part[i] = last[1 + i - 1]
        BY <3>5, <4>1, SubSeqProperties
      <4> HIDE DEF part
      <4>3. a[1] - 1 + 1 = a[1] /\ (~(1 <= a[1]) => a[1] = 0) /\ \A i \in 1..a[1] : 1 + i - 1 = i
        BY <3>2
      <4> QED
        BY <4>2, <4>3
    <3>7. Len(a[2]) = a[1]
      <4>1. Len(a[2]) \in Nat /\ DOMAIN a[2] = 1..Len(a[2])
        BY <3>3, LenProperties
      <4> QED
        BY <3>2, <3>3, <4>1
    <3>8. \A i \in 1..Len(a[2]) : a[2][i] = part[i]
      BY <3>1, <3>3, <3>4, <3>6, <3>7
    <3> HIDE DEF part
    <3>9. a[2] = part
      BY <3>3, <3>6, <3>7, <3>8, SeqEqual
    <3> QED
      BY <3>9 DEF part, last
  <2> HIDE DEF events
  <2> QED
    BY <2>3, <2>4, <2>6, <2>7 DEF base, end
<1>2. AuditInvariant /\ HashesCover => CommittedIsKept
  BY <1>1 DEF CommittedIsKept
<1> QED
  BY <1>2, HashesCoverHistory, PTL

(***************************************************************************)
(* Retention keeps at most _MAX_EVENTS rows and none that was _MAX_AGE old  *)
(* when the last event occurred, whatever the clock did (audit.py _prune).  *)
(***************************************************************************)
THEOREM RetentionHolds == Spec => []RetentionIsExact
<1>1. ASSUME AuditInvariant, NEW s \in Scopes \ damaged
      PROVE  /\ Cardinality(DOMAIN rows[s]) <= MaxEvents
             /\ heads[s].end \in DOMAIN rows[s] =>
                  \A n \in DOMAIN rows[s] : rows[s][n].at > rows[s][heads[s].end].at - MaxAge
  <2>1. ChainTyped /\ s \in Scopes /\ VerifyChain(s) /\ Retained(s)
    BY <1>1 DEF AuditInvariant, Intact
  <2>2. Cardinality(DOMAIN rows[s]) <= MaxEvents
    BY <2>1, ChainSize
  <2>3. DOMAIN rows[s] = (heads[s].base + 1)..heads[s].end
        /\ heads[s].base \in Nat /\ heads[s].end \in Nat
    BY <2>1, ValidShape
  <2>4. \A n \in DOMAIN rows[s] : n <= heads[s].end
    BY <2>3
  <2> QED
    BY <2>1, <2>2, <2>4 DEF Retained
<1>2. AuditInvariant => RetentionIsExact
  BY <1>1 DEF RetentionIsExact
<1> QED
  BY <1>2, AuditInduction, PTL
-----------------------------------------------------------------------------
(* The limits of the cache: how many entries, and how many rows they hold.   *)
Cells(q) == UNION {{<<i, n>> : n \in DOMAIN q[i].rows} : i \in DOMAIN q}

LEMMA CellsFinite ==
  ASSUME NEW q \in Seq(Validated), \A i \in DOMAIN q : IsFiniteSet(DOMAIN q[i].rows)
  PROVE  IsFiniteSet(Cells(q))
<1> DEFINE Layer(i) == {<<i, n>> : n \in DOMAIN q[i].rows}
           Layers == {Layer(i) : i \in DOMAIN q}
           f == [i \in DOMAIN q |-> Layer(i)]
<1>1. DOMAIN q = 1..Len(q) /\ Len(q) \in Nat
  BY LenProperties
<1>2. ASSUME NEW i \in DOMAIN q PROVE IsFiniteSet(Layer(i))
  <2>1. IsFiniteSet({i} \X DOMAIN q[i].rows)
    BY FS_Singleton, FS_Product
  <2>2. Layer(i) = {i} \X DOMAIN q[i].rows
    OBVIOUS
  <2> QED
    BY <2>1, <2>2
<1>3. IsFiniteSet(DOMAIN q)
  BY <1>1, FS_Interval
<1> HIDE DEF Layer
<1>4. f \in Surjection(DOMAIN q, Layers)
  BY DEF Surjection
<1>5. IsFiniteSet(Layers)
  BY <1>3, <1>4, FS_Surjection
<1>6. IsFiniteSet(UNION Layers)
  BY <1>2, <1>5, FS_UNION
<1> QED
  BY <1>6 DEF Layer, Cells

(* A new entry adds no more than its rows.                                   *)
LEMMA AppendedTotal ==
  ASSUME NEW q \in Seq(Validated), \A i \in DOMAIN q : IsFiniteSet(DOMAIN q[i].rows),
         NEW e \in Validated, IsFiniteSet(DOMAIN e.rows)
  PROVE  /\ Total(q) \in Nat /\ Size(e.rows) \in Nat
         /\ Total(Append(q, e)) <= Total(q) + Size(e.rows)
<1> DEFINE last == Len(q) + 1
           added == {<<last, n>> : n \in DOMAIN e.rows}
           long == Append(q, e)
<1>1. Len(q) \in Nat /\ DOMAIN q = 1..Len(q)
  BY LenProperties
<1>2. long \in Seq(Validated) /\ DOMAIN long = 1..last
      /\ (\A i \in 1..Len(q) : long[i] = q[i]) /\ long[last] = e
  BY AppendProperties, LenProperties
<1>3. Cells(long) = Cells(q) \cup added
  <2> HIDE DEF long
  <2>1. Cells(q) \subseteq Cells(long)
    BY <1>1, <1>2 DEF Cells
  <2>2. added \subseteq Cells(long)
    BY <1>1, <1>2 DEF Cells
  <2>3. ASSUME NEW x \in Cells(long) PROVE x \in Cells(q) \cup added
    <3>1. PICK i \in 1..last : x \in {<<i, n>> : n \in DOMAIN long[i].rows}
      BY <1>2, <2>3 DEF Cells
    <3>2. CASE i = last
      BY <1>2, <3>1, <3>2
    <3>3. CASE i # last
      <4>1. i \in DOMAIN q /\ long[i] = q[i]
        BY <1>1, <1>2, <3>1, <3>3
      <4> QED
        BY <3>1, <4>1 DEF Cells
    <3> QED
      BY <3>2, <3>3
  <2> QED
    BY <2>1, <2>2, <2>3
<1>4. IsFiniteSet(added) /\ Cardinality(added) = Size(e.rows) /\ Size(e.rows) \in Nat
  <2>1. added = {last} \X DOMAIN e.rows
    OBVIOUS
  <2>2. IsFiniteSet({last}) /\ Cardinality({last}) = 1
    BY FS_Singleton
  <2>3. Size(e.rows) \in Nat
    BY FS_CardinalityType DEF Size
  <2>4. IsFiniteSet({last} \X DOMAIN e.rows)
        /\ Cardinality({last} \X DOMAIN e.rows) = 1 * Size(e.rows)
    BY <2>2, FS_Product DEF Size
  <2> HIDE DEF added
  <2>5. IsFiniteSet(added) /\ Cardinality(added) = 1 * Size(e.rows)
    BY <2>1, <2>4
  <2> QED
    BY <2>3, <2>5
<1>5. IsFiniteSet(Cells(q)) /\ Total(q) = Cardinality(Cells(q)) /\ Total(q) \in Nat
      /\ Total(long) = Cardinality(Cells(long))
  BY CellsFinite, FS_CardinalityType DEF Total, Cells
<1> HIDE DEF added
<1>6. Cardinality(Cells(q) \cup added) =
        Cardinality(Cells(q)) + Cardinality(added) - Cardinality(Cells(q) \cap added)
  BY <1>4, <1>5, FS_Union
<1>7. Cardinality(Cells(q) \cap added) \in Nat
  BY <1>5, FS_Intersection, FS_CardinalityType
<1> QED
  BY <1>3, <1>4, <1>5, <1>6, <1>7

LEMMA SuffixLength ==
  \A n \in Nat : \A k \in 1..n : (IF k + 1 <= n THEN n - (k + 1) + 1 ELSE 0) = n - k
OBVIOUS

LEMMA Joined ==
  \A a, b \in Seq(Validated) : \A m, n :
    Len(a) = m /\ Len(b) = n =>
      /\ a \o b \in Seq(Validated) /\ Len(a \o b) = m + n
      /\ \A i \in 1..(m + n) : (a \o b)[i] = IF i <= m THEN a[i] ELSE b[i - m]
<1>1. ASSUME NEW a \in Seq(Validated), NEW b \in Seq(Validated)
      PROVE  /\ a \o b \in Seq(Validated) /\ Len(a \o b) = Len(a) + Len(b)
             /\ \A i \in 1..(Len(a) + Len(b)) :
                  (a \o b)[i] = IF i <= Len(a) THEN a[i] ELSE b[i - Len(a)]
  BY ConcatProperties
<1> QED
  BY <1>1

(* What is kept of the entries when one of a scope goes.                     *)
LEMMA WithoutScopeKeeps ==
  ASSUME NEW q \in Seq(Validated), NEW s,
         \A i, j \in DOMAIN q : q[i].scope = q[j].scope => i = j
  PROVE  LET rest == WithoutScope(q, s)
         IN  /\ \A i \in DOMAIN rest : rest[i].scope # s
             /\ \A i \in DOMAIN rest : \E j \in DOMAIN q : rest[i] = q[j]
             /\ \A i, j \in DOMAIN rest : rest[i].scope = rest[j].scope => i = j
<1>1. Len(q) \in Nat /\ DOMAIN q = 1..Len(q)
  BY LenProperties
<1>2. CASE \A i \in DOMAIN q : q[i].scope # s
  BY <1>2 DEF WithoutScope
<1>3. CASE ~\A i \in DOMAIN q : q[i].scope # s
  <2> DEFINE old == CHOOSE i \in DOMAIN q : q[i].scope = s
             front == SubSeq(q, 1, old - 1)
             back == SubSeq(q, old + 1, Len(q))
             rest == front \o back
  <2>1. old \in 1..Len(q) /\ q[old].scope = s
    BY <1>1, <1>3
  <2>2. WithoutScope(q, s) = rest
    BY <1>3 DEF WithoutScope
  <2> HIDE DEF old
  <2>3. \A i \in 1..Len(q) : q[i] \in Validated
    BY <1>1, ElementOfSeq
  <2>4. /\ front \in Seq(Validated) /\ Len(front) = old - 1
        /\ \A i \in 1..(old - 1) : front[i] = q[i]
    BY <1>1, <2>1, <2>3, SubSeqProperties
  <2>5. /\ back \in Seq(Validated) /\ Len(back) = Len(q) - old
        /\ \A i \in 1..(Len(q) - old) : back[i] = q[old + i]
    <3>1. \A i \in (old + 1)..Len(q) : q[i] \in Validated
      BY <1>1, <2>1, <2>3
    <3>2. /\ back \in Seq(Validated)
          /\ Len(back) = IF old + 1 <= Len(q) THEN Len(q) - (old + 1) + 1 ELSE 0
          /\ \A i \in 1..(Len(q) - (old + 1) + 1) : back[i] = q[(old + 1) + i - 1]
      BY <1>1, <2>1, <3>1, SubSeqProperties, SMTT(30)
    <3> HIDE DEF back
    <3>3. (IF old + 1 <= Len(q) THEN Len(q) - (old + 1) + 1 ELSE 0) = Len(q) - old
      BY <1>1, <2>1, SuffixLength
    <3>4. ASSUME NEW i \in 1..(Len(q) - old) PROVE back[i] = q[old + i]
      <4>1. i \in 1..(Len(q) - (old + 1) + 1) /\ (old + 1) + i - 1 = old + i
        BY <1>1, <2>1
      <4> QED
        BY <3>2, <4>1
    <3> QED
      BY <3>2, <3>3, <3>4
  <2> HIDE DEF front, back
  <2> HIDE DEF rest
  <2>6. /\ rest \in Seq(Validated) /\ Len(rest) = (old - 1) + (Len(q) - old)
        /\ \A i \in 1..((old - 1) + (Len(q) - old)) :
             rest[i] = IF i <= old - 1 THEN front[i] ELSE back[i - (old - 1)]
    BY <2>4, <2>5, Joined DEF rest
  <2>7. DOMAIN rest = 1..(Len(q) - 1)
    BY <1>1, <2>1, <2>6, LenProperties
  <2>8. \A i \in 1..(Len(q) - 1) : rest[i] = IF i < old THEN q[i] ELSE q[i + 1]
    <3>1. ASSUME NEW i \in 1..(Len(q) - 1)
          PROVE  rest[i] = IF i < old THEN q[i] ELSE q[i + 1]
      <4>1. /\ Len(q) \in Nat /\ old \in Nat /\ i \in Nat
            /\ i \in 1..((old - 1) + (Len(q) - old))
        BY <1>1, <2>1
      <4>2. rest[i] = IF i <= old - 1 THEN front[i] ELSE back[i - (old - 1)]
        BY <2>6, <4>1
      <4>3. CASE i < old
        <5>1. i \in 1..(old - 1) /\ i <= old - 1
          BY <4>1, <4>3
        <5> QED
          BY <2>4, <4>2, <4>3, <5>1
      <4>4. CASE ~(i < old)
        <5>1. PICK j \in 1..(Len(q) - old) : j = i - (old - 1) /\ old + j = i + 1
          BY <1>1, <2>1, <4>1, <4>4
        <5>2. ~(i <= old - 1)
          BY <4>1, <4>4
        <5> QED
          BY <2>5, <4>2, <4>4, <5>1, <5>2
      <4> QED
        BY <4>3, <4>4
    <3> QED
      BY <3>1
  <2>9. \A i \in 1..Len(q) : i # old => q[i].scope # s
    BY <1>1, <2>1
  <2>10. ASSUME NEW i \in DOMAIN rest
         PROVE  \E j \in DOMAIN q : /\ rest[i] = q[j] /\ j # old
                                    /\ j = IF i < old THEN i ELSE i + 1
    BY <1>1, <2>1, <2>7, <2>8
  <2>11. \A i, j \in DOMAIN rest : rest[i].scope = rest[j].scope => i = j
    <3>1. ASSUME NEW i \in DOMAIN rest, NEW j \in DOMAIN rest, rest[i].scope = rest[j].scope
          PROVE  i = j
      <4>1. PICK k \in DOMAIN q : rest[i] = q[k] /\ k = IF i < old THEN i ELSE i + 1
        BY <2>10
      <4>2. PICK l \in DOMAIN q : rest[j] = q[l] /\ l = IF j < old THEN j ELSE j + 1
        BY <2>10
      <4>3. k = l
        BY <3>1, <4>1, <4>2
      <4> QED
        BY <1>1, <2>1, <2>7, <4>1, <4>2, <4>3
    <3> QED
      BY <3>1
  <2>12. \A i \in DOMAIN rest : rest[i].scope # s /\ \E j \in DOMAIN q : rest[i] = q[j]
    BY <1>1, <2>9, <2>10
  <2> QED
    BY <2>2, <2>11, <2>12
<1> QED
  BY <1>2, <1>3
(* Both limits, one entry for a scope, none of them empty or endless.        *)
Distinct(q) == \A i, j \in DOMAIN q : q[i].scope = q[j].scope => i = j
Filled(q) == \A i \in DOMAIN q : q[i].rows # NoRows /\ IsFiniteSet(DOMAIN q[i].rows)
CacheHolds(q) ==
  /\ Len(q) <= CacheScopes /\ Total(q) <= CacheRows
  /\ Distinct(q) /\ Filled(q)

MemoryFits ==
  /\ \A p \in Stores : CacheHolds(cache[p])
  /\ \A w \in Writers : writers[w].pc = "publish" => IsFiniteSet(DOMAIN writers[w].rows)
  /\ faults \in Nat

LEMMA EmptyTotal == Total(<<>>) = 0
<1>1. DOMAIN <<>> = {}
  OBVIOUS
<1>2. Cells(<<>>) = {}
  BY <1>1 DEF Cells
<1> QED
  BY <1>2, FS_EmptySet DEF Total, Cells

LEMMA EmptyHolds == CacheHolds(<<>>)
<1>1. DOMAIN <<>> = {} /\ Len(<<>>) = 0
  OBVIOUS
<1> QED
  BY <1>1, EmptyTotal, AuditAssumption DEF CacheHolds, Distinct, Filled, AuditAssumption

(* _publish_cache(): what is evicted makes room for what is added.           *)
LEMMA PublishedHolds ==
  ASSUME NEW q \in Seq(Validated), Distinct(q), Filled(q),
         NEW s \in Scopes, \A i \in DOMAIN q : q[i].scope # s,
         NEW rs \in Table, Checked(s, rs), IsFiniteSet(DOMAIN rs),
         NEW k \in 1..(Len(q) + 1), Evicts(q, rs, k)
  PROVE  CacheHolds(Published(SubSeq(q, k, Len(q)), s, rs))
<1> DEFINE e == [scope |-> s, rows |-> rs]
<1>1. Len(q) \in Nat /\ DOMAIN q = 1..Len(q)
  BY LenProperties
<1>2. PICK tail : tail = SubSeq(q, k, Len(q))
  OBVIOUS
<1>3. /\ tail \in Seq(Validated) /\ Len(tail) = Len(q) - k + 1
      /\ \A i \in 1..Len(tail) : tail[i] = q[k + i - 1]
  <2>1. \A i \in k..Len(q) : q[i] \in Validated
    BY <1>1, ElementOfSeq
  <2>2. /\ tail \in Seq(Validated)
        /\ Len(tail) = IF k <= Len(q) THEN Len(q) - k + 1 ELSE 0
        /\ \A i \in 1..(Len(q) - k + 1) : tail[i] = q[k + i - 1]
    BY <1>1, <1>2, <2>1, SubSeqProperties
  <2>3. (IF k <= Len(q) THEN Len(q) - k + 1 ELSE 0) = Len(q) - k + 1
    BY <1>1
  <2> QED
    BY <2>2, <2>3
<1>4. DOMAIN tail = 1..Len(tail) /\ Len(tail) \in Nat
  BY <1>3, LenProperties
<1>5. \A i \in 1..Len(tail) : k + i - 1 \in DOMAIN q
  BY <1>1, <1>3, <1>4
<1>6. Distinct(tail)
  <2>1. ASSUME NEW i \in 1..Len(tail), NEW j \in 1..Len(tail), tail[i].scope = tail[j].scope
        PROVE  i = j
    <3>1. PICK x \in DOMAIN q : x = k + i - 1 /\ tail[i] = q[x]
      BY <1>3, <1>5
    <3>2. PICK y \in DOMAIN q : y = k + j - 1 /\ tail[j] = q[y]
      BY <1>3, <1>5
    <3>3. x = y
      BY <2>1, <3>1, <3>2 DEF Distinct
    <3> QED
      BY <1>1, <3>1, <3>2, <3>3
  <2> QED
    BY <1>4, <2>1 DEF Distinct
<1>7. Filled(tail) /\ \A i \in DOMAIN tail : tail[i].scope # s
  BY <1>3, <1>4, <1>5 DEF Filled
<1>8. e \in Validated
  BY DEF Validated, Entry
<1>9. Size(rs) \in Nat /\ CacheRows \in Nat /\ CacheScopes \in Nat \ {0}
  BY FS_CardinalityType, AuditAssumption DEF Size, AuditAssumption
<1>10. /\ Total(tail) \in Nat /\ Total(Append(tail, e)) <= Total(tail) + Size(rs)
       /\ Total(Append(tail, e)) \in Nat
  <2>1. \A i \in DOMAIN tail : IsFiniteSet(DOMAIN tail[i].rows)
    BY <1>7 DEF Filled
  <2>2. e.rows = rs
    OBVIOUS
  <2> HIDE DEF e
  <2>3. Total(tail) \in Nat /\ Total(Append(tail, e)) <= Total(tail) + Size(rs)
    BY <1>3, <1>8, <2>1, <2>2, AppendedTotal
  <2>4. Append(tail, e) \in Seq(Validated)
    BY <1>3, <1>8, AppendProperties
  <2>5. \A i \in DOMAIN Append(tail, e) : IsFiniteSet(DOMAIN Append(tail, e)[i].rows)
    BY <1>3, <1>4, <1>8, <2>1, <2>2, <2>4, AppendProperties, LenProperties
  <2>6. Total(Append(tail, e)) \in Nat
    BY <2>4, <2>5, CellsFinite, FS_CardinalityType DEF Total, Cells
  <2> QED
    BY <2>3, <2>6
<1>11. /\ Len(tail) < CacheScopes
       /\ Total(tail) + (IF Stored(rs) THEN Size(rs) ELSE 0) <= CacheRows
  <2>1. CASE k = Len(q) + 1
    <3>1. tail = <<>>
      BY <1>1, <1>2, <2>1, SubSeqEmpty
    <3>2. Total(tail) = 0 /\ Len(tail) = 0
      BY <3>1, EmptyTotal
    <3>3. Stored(rs) => Size(rs) <= CacheRows
      BY DEF Stored
    <3> QED
      BY <1>9, <3>2, <3>3
  <2>2. CASE k # Len(q) + 1
    <3>1. /\ Total(SubSeq(q, k, Len(q))) + (IF Stored(rs) THEN Size(rs) ELSE 0) <= CacheRows
          /\ Len(q) - k + 1 < CacheScopes
      BY <2>2 DEF Evicts, Fits
    <3> QED
      BY <1>2, <1>3, <3>1
  <2> QED
    BY <2>1, <2>2
<1>12. CASE ~Stored(rs)
  <2>1. Published(SubSeq(q, k, Len(q)), s, rs) = tail
    BY <1>2, <1>12 DEF Published
  <2>2. Len(tail) <= CacheScopes /\ Total(tail) <= CacheRows
    BY <1>4, <1>9, <1>10, <1>11, <1>12
  <2> QED
    BY <1>6, <1>7, <2>1, <2>2 DEF CacheHolds
<1>13. CASE Stored(rs)
  <2>1. PICK long : long = Append(tail, e)
    OBVIOUS
  <2>2. Published(SubSeq(q, k, Len(q)), s, rs) = long
    BY <1>2, <1>13, <2>1 DEF Published
  <2> HIDE DEF e
  <2>3. /\ long \in Seq(Validated) /\ DOMAIN long = 1..(Len(tail) + 1)
        /\ Len(long) = Len(tail) + 1
        /\ \A i \in 1..Len(tail) : long[i] = tail[i]
        /\ long[Len(tail) + 1] = e
    <3>1. tail \in Seq(Validated) /\ e \in Validated
      BY <1>3, <1>8
    <3>2. /\ long \in Seq(Validated) /\ Len(long) = Len(tail) + 1
          /\ \A i \in 1..Len(tail) : long[i] = tail[i]
          /\ long[Len(tail) + 1] = e
      BY <2>1, <3>1, AppendProperties
    <3>3. DOMAIN long = 1..Len(long)
      BY <3>2, LenProperties
    <3> QED
      BY <3>2, <3>3
  <2>4. Len(long) <= CacheScopes /\ Total(long) <= CacheRows
    <3>1. Total(tail) + Size(rs) <= CacheRows /\ Len(tail) < CacheScopes
      BY <1>11, <1>13
    <3> QED
      BY <1>4, <1>9, <1>10, <2>1, <2>3, <3>1
  <2>5. e.scope = s /\ e.rows = rs /\ rs # NoRows
    BY <1>13 DEF e, Stored
  <2>6. \A i \in DOMAIN long : i \in DOMAIN tail \/ i = Len(tail) + 1
    BY <1>4, <2>3
  <2>7. Distinct(long)
    BY <1>4, <1>6, <1>7, <2>3, <2>5, <2>6 DEF Distinct
  <2>8. Filled(long)
    BY <1>4, <1>7, <2>3, <2>5, <2>6 DEF Filled
  <2> QED
    BY <2>2, <2>4, <2>7, <2>8 DEF CacheHolds
<1> QED
  BY <1>12, <1>13
LEMMA MemoryInit == Init => MemoryFits
BY EmptyHolds, AuditAssumption DEF Init, MemoryFits, Idle, AuditAssumption

(* A store forgets, or what its writers hold goes with it.                   *)
LEMMA MemoryUntouched ==
  ASSUME AuditInvariant, MemoryFits, cache' = cache \/ \E p \in Stores : Forget(p),
         \A w \in Writers : writers'[w].pc = "publish" => writers'[w] = writers[w],
         faults' = faults \/ Fault
  PROVE  MemoryFits'
<1>1. ASSUME NEW p \in Stores PROVE CacheHolds(cache'[p])
  <2>1. cache'[p] = cache[p] \/ cache'[p] = <<>>
    BY DEF Forget, AuditInvariant, CacheIsValidated
  <2> QED
    BY <2>1, EmptyHolds DEF MemoryFits
<1>2. faults' \in Nat
  BY DEF MemoryFits, Fault
<1> QED
  BY <1>1, <1>2 DEF MemoryFits

LEMMA MemoryStep == AuditInvariant /\ MemoryFits /\ [Next]_vars => MemoryFits'
<1> SUFFICES ASSUME AuditInvariant, MemoryFits, [Next]_vars PROVE MemoryFits'
  OBVIOUS
<1>1. /\ writers \in [Writers -> WriterState] /\ cache \in [Stores -> Seq(Validated)]
      /\ \A w \in Writers : StoreOf[w] \in Stores
  BY AuditAssumption DEF AuditAssumption, AuditInvariant, ChainTyped, CacheIsValidated
<1>2. ASSUME NEW w \in Writers, NEW s \in Scopes, NEW t \in Times, NEW content \in Contents,
             AppendBegin(w, s, t, content)
      PROVE  MemoryFits'
  <2>1. PICK new : /\ writers' = [writers EXCEPT ![w] = new] /\ new.pc = "write"
                   /\ UNCHANGED <<cache, faults>>
    BY <1>2 DEF AppendBegin
  <2>2. \A v \in Writers : writers'[v].pc = "publish" => writers'[v] = writers[v]
    BY <1>1, <2>1
  <2> QED
    BY <2>1, <2>2, MemoryUntouched
<1>3. ASSUME NEW w \in Writers, AppendRefuse(w) \/ AppendFails(w) PROVE MemoryFits'
  <2>1. /\ writers' = [writers EXCEPT ![w] = Idle] /\ Forget(StoreOf[w])
        /\ faults' = faults \/ Fault
    BY <1>3 DEF AppendRefuse, AppendFails, Return
  <2>2. \A v \in Writers : writers'[v].pc = "publish" => writers'[v] = writers[v]
    BY <1>1, <2>1 DEF Idle
  <2> QED
    BY <1>1, <2>1, <2>2, MemoryUntouched
<1>4. ASSUME NEW p \in Stores, Crash(p) PROVE MemoryFits'
  <2>1. /\ writers' = [v \in Writers |-> IF StoreOf[v] = p THEN Idle ELSE writers[v]]
        /\ Forget(p) /\ Fault
    BY <1>4 DEF Crash
  <2>2. \A v \in Writers : writers'[v].pc = "publish" => writers'[v] = writers[v]
    BY <2>1 DEF Idle
  <2> QED
    BY <2>1, <2>2, MemoryUntouched
<1>5. ASSUME NEW s \in Scopes, Damage(s) \/ \E n \in 0..MaxAppends : Restore(s, n)
      PROVE  MemoryFits'
  <2>1. UNCHANGED <<cache, writers>> /\ Fault
    BY <1>5 DEF Damage, Restore
  <2>2. /\ cache' = cache
        /\ faults' = faults \/ Fault
        /\ \A v \in Writers : writers'[v].pc = "publish" => writers'[v] = writers[v]
    BY <2>1, Zenon
  <2> QED
    BY <2>2, MemoryUntouched, ZenonT(60)
<1>6. CASE UNCHANGED vars
  <2>1. UNCHANGED <<cache, writers, faults>>
    BY <1>6 DEF vars
  <2> QED
    BY <2>1, MemoryUntouched
<1>7. ASSUME NEW w \in Writers, AppendCommit(w) PROVE MemoryFits'
  <2>1. PICK s \in Scopes : s = writers[w].scope /\ VerifyChain(s)
    BY <1>7, CommitShape DEF AuditInvariant
  <2>2. /\ writers' = [writers EXCEPT ![w] = [pc |-> "publish", scope |-> s, rows |-> rows[s]]]
        /\ UNCHANGED <<cache, faults>>
    BY <1>7, <2>1 DEF AppendCommit
  <2>3. IsFiniteSet(DOMAIN rows[s])
    <3>1. /\ heads[s].base \in Nat /\ heads[s].end \in Nat
          /\ DOMAIN rows[s] = (heads[s].base + 1)..heads[s].end
      BY <2>1, ValidShape DEF AuditInvariant
    <3>2. heads[s].base + 1 \in Int /\ heads[s].end \in Int
      BY <3>1
    <3> QED
      BY <3>1, <3>2, FS_Interval
  <2>4. ASSUME NEW v \in Writers, writers'[v].pc = "publish"
        PROVE  IsFiniteSet(DOMAIN writers'[v].rows)
    BY <1>1, <2>2, <2>3, <2>4 DEF MemoryFits
  <2> QED
    BY <2>2, <2>4 DEF MemoryFits
<1>8. ASSUME NEW w \in Writers, AppendPublish(w) PROVE MemoryFits'
  <2>1. PICK p, s, rs : p = StoreOf[w] /\ s = writers[w].scope /\ rs = writers[w].rows
    OBVIOUS
  <2>2. PICK rest : rest = WithoutScope(cache[p], s)
    OBVIOUS
  <2>3. p \in Stores /\ At(w, "publish")
    BY <1>1, <1>8, <2>1 DEF AppendPublish
  <2>4. writers[w] \in [pc: {"publish"}, scope: Scopes, rows: Table]
    BY <1>1, <2>3 DEF At, WriterState, Idle
  <2>5. s \in Scopes /\ rs \in Table /\ Checked(s, rs) /\ IsFiniteSet(DOMAIN rs)
    BY <2>1, <2>3, <2>4 DEF AuditInvariant, CacheIsValidated, At, MemoryFits
  <2>6. PICK k \in 1..(Len(rest) + 1) :
          /\ Evicts(rest, rs, k)
          /\ cache' = [cache EXCEPT ![p] = Published(SubSeq(rest, k, Len(rest)), s, rs)]
    BY <1>8, <2>1, <2>2 DEF AppendPublish
  <2>7. cache[p] \in Seq(Validated) /\ Distinct(cache[p]) /\ Filled(cache[p])
    BY <1>1, <2>3 DEF MemoryFits, CacheHolds
  <2>8. /\ rest \in Seq(Validated) /\ Distinct(rest)
        /\ \A i \in DOMAIN rest : rest[i].scope # s
        /\ \A i \in DOMAIN rest : \E j \in DOMAIN cache[p] : rest[i] = cache[p][j]
    BY <2>2, <2>7, ForgottenTyped, WithoutScopeKeeps DEF Distinct
  <2>9. Filled(rest)
    BY <2>7, <2>8 DEF Filled
  <2>10. CacheHolds(Published(SubSeq(rest, k, Len(rest)), s, rs))
    BY <2>5, <2>6, <2>8, <2>9, PublishedHolds
  <2>11. \A z \in Stores : CacheHolds(cache'[z])
    BY <1>1, <2>6, <2>10 DEF MemoryFits
  <2>12. writers' = [writers EXCEPT ![w] = Idle] /\ faults' = faults
    BY <1>8 DEF AppendPublish, Return
  <2>13. \A v \in Writers : writers'[v].pc = "publish" => writers'[v] = writers[v]
    BY <1>1, <2>12 DEF Idle
  <2> QED
    BY <2>11, <2>12, <2>13 DEF MemoryFits
<1> QED
  BY <1>2, <1>3, <1>4, <1>5, <1>6, <1>7, <1>8 DEF Next

(***************************************************************************)
(* What a store remembers keeps to both limits, under one entry for a scope, *)
(* and every head, row and writer keeps its form (audit.py _publish_cache). *)
(***************************************************************************)
THEOREM CacheIsBounded == Spec => []AuditTypeOK
<1>1. ASSUME AuditInvariant, MemoryFits PROVE AuditTypeOK
  <2>1. ASSUME NEW f \in Table PROVE RowsOK(f)
    BY TableRows DEF RowsOK, Row
  <2>2. ASSUME NEW s \in Scopes
        PROVE  /\ heads[s] = NoHead \/ ( /\ heads[s].base \in Nat /\ heads[s].end \in Nat
                                         /\ heads[s].count \in Nat)
               /\ RowsOK(rows[s])
               /\ \A a \in committed[s] : a[1] \in Nat
    <3>1. heads[s] \in HeadRow \cup {NoHead} /\ rows[s] \in Table
      BY <1>1 DEF AuditInvariant, ChainTyped
    <3>2. committed[s] \subseteq Nat \X Hash
      BY <1>1 DEF AuditInvariant, HistoryTyped
    <3> QED
      BY <2>1, <3>1, <3>2 DEF HeadRow
  <2>3. ASSUME NEW p \in Stores
        PROVE  /\ Len(cache[p]) <= CacheScopes /\ Total(cache[p]) <= CacheRows
               /\ \A i, j \in DOMAIN cache[p] : cache[p][i].scope = cache[p][j].scope => i = j
               /\ \A i \in DOMAIN cache[p] : cache[p][i].rows # NoRows /\ RowsOK(cache[p][i].rows)
    <3>1. CacheHolds(cache[p]) /\ cache[p] \in Seq(Validated)
      BY <1>1 DEF MemoryFits, AuditInvariant, CacheIsValidated
    <3>2. ASSUME NEW i \in DOMAIN cache[p] PROVE cache[p][i].rows \in Table
      <4>1. cache[p][i] \in Validated
        BY <3>1, LenProperties, ElementOfSeq
      <4> QED
        BY <4>1 DEF Validated, Entry
    <3> QED
      BY <2>1, <3>1, <3>2 DEF CacheHolds, Distinct, Filled
  <2>4. \A w \in Writers : writers[w].pc \in {"idle", "write", "publish"}
    BY <1>1 DEF AuditInvariant, ChainTyped, WriterState, Idle
  <2>5. damaged \subseteq Scopes /\ faults \in Nat
    BY <1>1 DEF AuditInvariant, ChainTyped, MemoryFits
  <2> QED
    BY <2>2, <2>3, <2>4, <2>5 DEF AuditTypeOK
<1>2. Spec => []MemoryFits
  BY MemoryInit, MemoryStep, AuditInduction, PTL DEF Spec
<1> QED
  BY <1>1, <1>2, AuditInduction, PTL
(***************************************************************************)
(* Both limits together: those of the memory and those of the retention     *)
(* (audit.py _publish_cache, _prune).                                       *)
(***************************************************************************)
THEOREM LimitsOfAudit == Spec => []AuditLimits
<1>1. AuditTypeOK /\ RetentionIsExact => AuditLimits
  BY DEF AuditLimits
<1> QED
  BY <1>1, CacheIsBounded, RetentionHolds, PTL
-----------------------------------------------------------------------------
(* The refinement: what an undamaged chain tells is a log of EventLog.        *)
Told == [at: Times, content: Contents \cup {Garbage}]
Chronicle(s) ==
  [i \in 1..heads[s].end |-> [at |-> Covered(s, i).at, content |-> Covered(s, i).content]]

LEMMA ChronicleTyped ==
  ASSUME ChainTyped, NEW s \in Scopes, VerifyChain(s), Covers(s)
  PROVE  /\ Chronicle(s) \in Seq(Told) /\ Len(Chronicle(s)) = heads[s].end
         /\ LogOf(s) = [ok |-> TRUE, gone |-> heads[s].base, events |-> Chronicle(s)]
<1> DEFINE h == heads[s]
<1>1. /\ h.base \in Nat /\ h.end \in Nat /\ h.baseHash \in Hash
      /\ DOMAIN rows[s] = (h.base + 1)..h.end
      /\ rows[s] \in [DOMAIN rows[s] -> Row]
  BY ValidShape
<1>2. ASSUME NEW i \in 1..h.end PROVE Covered(s, i) \in Payload
  <2>1. CASE i <= h.base
    <3>1. i \in 1..Len(h.baseHash)
      <4>1. DOMAIN h.baseHash = 1..h.base /\ DOMAIN h.baseHash = 1..Len(h.baseHash)
        BY <1>1, LenProperties DEF Covers, Hash
      <4>2. i \in 1..h.base
        BY <1>1, <1>2, <2>1
      <4> QED
        BY <4>1, <4>2
    <3> QED
      BY <1>1, <2>1, <3>1, ElementOfSeq DEF Covered, Hash
  <2>2. CASE ~(i <= h.base)
    <3>1. i \in DOMAIN rows[s]
      BY <1>1, <1>2, <2>2
    <3> QED
      BY <1>1, <2>2, <3>1 DEF Covered, Row
  <2> QED
    BY <2>1, <2>2
<1>3. \A i \in 1..h.end :
        [at |-> Covered(s, i).at, content |-> Covered(s, i).content] \in Told
  BY <1>2 DEF Payload, Told
<1>4. Chronicle(s) \in Seq(Told) /\ Len(Chronicle(s)) = h.end
  BY <1>1, <1>3 DEF Chronicle
<1> QED
  BY <1>4 DEF LogOf, Chronicle

LEMMA LogUntouched ==
  ASSUME NEW s, heads'[s] = heads[s], rows'[s] = rows[s]
  PROVE  LogOf(s)' = LogOf(s)
BY VerifyUntouched DEF LogOf, Covered

(* The retention of the store is that of the log.                             *)
LEMMA DoomedIsTooOld ==
  ASSUME ChainTyped, NEW w \in Writers, At(w, "write"), VerifyChain(writers[w].scope),
         NEW s \in Scopes, s = writers[w].scope, Covers(s),
         NEW e, e = [at |-> writers[w].at, content |-> writers[w].content], e \in Told,
         NEW n \in (heads[s].base + 1)..(heads[s].end + 1)
  PROVE  Doomed(w, Grown(w), heads[s].base, n)
           <=> EL!TooOld(Append(Chronicle(s), e), e, n)
<1> DEFINE h == heads[s]
           table == Grown(w)
           long == Append(Chronicle(s), e)
<1>1. /\ h.base \in Nat /\ h.end \in Nat /\ h.base <= h.end
      /\ \A i \in DOMAIN rows[s] : rows[s][i].at = rows[s][i].payload.at
      /\ DOMAIN rows[s] = (h.base + 1)..h.end
  BY ValidShape DEF Genuine
<1>2. /\ DOMAIN table = (h.base + 1)..(h.end + 1) /\ table[h.end + 1] = NewRow(w)
      /\ \A i \in (h.base + 1)..h.end : table[i] = rows[s][i]
  BY GrownShape
<1>3. Chronicle(s) \in Seq(Told) /\ Len(Chronicle(s)) = h.end
  BY ChronicleTyped
<1>4. /\ Len(long) = h.end + 1 /\ long[h.end + 1] = e
      /\ \A i \in 1..h.end : long[i] = Chronicle(s)[i]
  BY <1>3, AppendProperties
<1>5. h.base + Cardinality(DOMAIN table) = h.end + 1
  <2> HIDE DEF h, table
  <2>1. PICK lo \in Int : lo = h.base + 1
    BY <1>1
  <2>2. PICK hi \in Int : hi = h.end + 1
    BY <1>1
  <2>3. Cardinality(lo..hi) = IF lo > hi THEN 0 ELSE hi - lo + 1
    BY FS_Interval
  <2> QED
    BY <1>1, <1>2, <2>1, <2>2, <2>3
<1>6. long[n].at = table[n].at
  <2>1. CASE n = h.end + 1
    <3>1. NewRow(w).at = writers[w].at
      BY DEF NewRow
    <3> HIDE DEF h, table, long
    <3> QED
      BY <1>2, <1>4, <2>1, <3>1
  <2>2. CASE n # h.end + 1
    <3>1. n \in (h.base + 1)..h.end /\ n \in 1..h.end /\ ~(n <= h.base)
      BY <1>1, <2>2
    <3>2. Chronicle(s)[n].at = rows[s][n].payload.at
      BY <3>1 DEF Chronicle, Covered
    <3> HIDE DEF h, table, long
    <3> QED
      BY <1>1, <1>2, <1>4, <3>1, <3>2
  <2> QED
    BY <2>1, <2>2
<1>7. e.at = writers[w].at
  OBVIOUS
<1> HIDE DEF h, table, long
<1>8. Doomed(w, table, h.base, n) <=> EL!TooOld(long, e, n)
  BY <1>4, <1>5, <1>6, <1>7 DEF Doomed, EL!TooOld
<1> QED
  BY <1>8 DEF h, table, long
LEMMA CommitIsExtend ==
  ASSUME AuditInvariant, HashesCover, AuditInvariant', NEW w \in Writers, AppendCommit(w)
  PROVE  \E s \in Scopes : \E e \in EL!Event : EL!Extend(s, e)
<1>1. ChainTyped /\ CacheIsValidated
  BY DEF AuditInvariant
<1> DEFINE z == writers[w].scope
<1>2. /\ z \in Scopes /\ At(w, "write") /\ VerifyChain(z)
      /\ \E b \in Nat : CommitsTo(w, z, b)
  BY <1>1, CommitShape
<1>3. PICK s \in Scopes : s = z
  BY <1>2
<1>4. PICK b \in Nat : CommitsTo(w, z, b)
  BY <1>2
<1>5. PICK e : e = [at |-> writers[w].at, content |-> writers[w].content]
  OBVIOUS
<1>6. e \in EL!Event /\ e \in Told
  BY <1>1, <1>2, <1>5, NewRowTyped DEF EL!Event, Told
<1> HIDE DEF z
<1>7. /\ s \notin damaged /\ Covers(s) /\ VerifyChain(s)
      /\ heads[s].base \in Nat /\ heads[s].end \in Nat
  <2>1. s \notin damaged
    BY <1>2, <1>3 DEF AuditInvariant
  <2> QED
    BY <1>1, <1>2, <1>3, <2>1, ValidShape DEF HashesCover
<1> DEFINE base == heads[s].base
           end == heads[s].end
           long == Append(Chronicle(s), e)
<1>8. /\ Chronicle(s) \in Seq(Told) /\ Len(Chronicle(s)) = end
      /\ LogOf(s) = [ok |-> TRUE, gone |-> base, events |-> Chronicle(s)]
  BY <1>1, <1>7, ChronicleTyped
<1>9. /\ long \in [1..(end + 1) -> Told] /\ Len(long) = end + 1
      /\ long[end + 1] = e /\ \A i \in 1..end : long[i] = Chronicle(s)[i]
  <2> HIDE DEF end
  <2>1. /\ long \in Seq(Told) /\ Len(long) = end + 1
        /\ long[end + 1] = e /\ \A i \in 1..end : long[i] = Chronicle(s)[i]
    BY <1>6, <1>8, AppendProperties
  <2> QED
    BY <2>1, LenProperties
<1>10. /\ b \in base..end
       /\ PrunesTo(w, Grown(w), base, b)
  BY <1>3, <1>4 DEF CommitsTo
<1>11. EL!LetGo(long, e, base, b)
  <2>1. DOMAIN Grown(w) = (base + 1)..(end + 1)
    BY <1>1, <1>2, <1>3, GrownShape DEF z
  <2>2. ASSUME NEW n \in (base + 1)..(end + 1)
        PROVE  Doomed(w, Grown(w), base, n) <=> EL!TooOld(long, e, n)
    BY <1>1, <1>2, <1>3, <1>5, <1>6, <1>7, DoomedIsTooOld DEF z
  <2> HIDE DEF base, end, long
  <2> QED
    BY <1>9, <1>10, <2>1, <2>2 DEF PrunesTo, EL!LetGo
<1>12. VerifyChain(s)'
  BY <1>1, <1>2, <1>3, <1>4, <1>7, CommitVerifies DEF z
<1>13. /\ heads'[s].base = b /\ heads'[s].end = end + 1
       /\ \A y \in Scopes \ {s} : heads'[y] = heads[y] /\ rows'[y] = rows[y]
  BY <1>1, <1>2, <1>3, <1>4, CommitFrame DEF z
<1>14. LogOf(s)' = [ok |-> TRUE, gone |-> b, events |-> long]
  <2> DEFINE told == [i \in 1..(end + 1) |->
                        [at |-> Covered(s, i)'.at, content |-> Covered(s, i)'.content]]
  <2>1. LogOf(s)' = [ok |-> TRUE, gone |-> heads'[s].base, events |->
          [i \in 1..heads'[s].end |->
             [at |-> Covered(s, i)'.at, content |-> Covered(s, i)'.content]]]
    BY <1>12 DEF LogOf
  <2>2. LogOf(s)' = [ok |-> TRUE, gone |-> b, events |-> told]
    BY <1>13, <2>1
  <2>3. /\ \A i \in 1..end : Covered(s, i)' = Covered(s, i)
        /\ \A i \in {end + 1} : Covered(s, i)' = NewRow(w).payload
    BY <1>1, <1>2, <1>3, <1>4, <1>7, CommitExtends DEF z
  <2>4. ASSUME NEW i \in 1..(end + 1)
        PROVE  [at |-> Covered(s, i)'.at, content |-> Covered(s, i)'.content] = long[i]
    <3>1. CASE i \in 1..end
      <4>1. Chronicle(s)[i] = [at |-> Covered(s, i).at, content |-> Covered(s, i).content]
        BY <3>1 DEF Chronicle
      <4> QED
        BY <1>9, <2>3, <3>1, <4>1
    <3>2. CASE i \in {end + 1}
      <4>1. NewRow(w).payload.at = e.at /\ NewRow(w).payload.content = e.content
        BY <1>5 DEF NewRow
      <4>2. e = [at |-> e.at, content |-> e.content]
        BY <1>5
      <4> HIDE DEF end, long
      <4> QED
        BY <1>9, <2>3, <3>2, <4>1, <4>2
    <3>3. i \in 1..end \/ i \in {end + 1}
      BY <1>7, <2>4
    <3> QED
      BY <3>1, <3>2, <3>3
  <2> HIDE DEF long
  <2>5. told = long
    BY <1>9, <2>4
  <2> QED
    BY <2>2, <2>5
<1>15. \A y \in Scopes \ {s} : LogOf(y)' = LogOf(y)
  BY <1>13, LogUntouched
<1>16. EL!Extend(s, e)
  <2> DEFINE log == [y \in Scopes |-> LogOf(y)]
             new == [ok |-> TRUE, gone |-> b, events |-> long]
  <2>1. log' = [log EXCEPT ![s] = new]
    BY <1>14, <1>15
  <2>2. log[s] = [ok |-> TRUE, gone |-> base, events |-> Chronicle(s)]
    BY <1>8
  <2>3. EL!Extend(s, e) <=>
          /\ log[s].ok
          /\ \E g \in log[s].gone..Len(log[s].events) :
               /\ EL!LetGo(Append(log[s].events, e), e, log[s].gone, g)
               /\ log' = [log EXCEPT ![s] =
                    [ok |-> TRUE, gone |-> g, events |-> Append(log[s].events, e)]]
    BY DEF EL!Extend
  <2> HIDE DEF base, end, log
  <2>4. log[s].ok /\ log[s].gone = base /\ log[s].events = Chronicle(s)
    BY <2>2
  <2> QED
    BY <1>8, <1>10, <1>11, <2>1, <2>3, <2>4 DEF long, new
<1> QED
  BY <1>6, <1>16

LEMMA RestoreIsTakeBack ==
  ASSUME AuditInvariant, HashesCover, AuditInvariant',
         NEW s \in Scopes, NEW n, Restore(s, n)
  PROVE  EL!TakeBack(s)
<1>1. /\ ChainTyped /\ VerifyChain(s) /\ Covers(s)
      /\ heads[s].base \in Nat /\ heads[s].end \in Nat
  BY ValidShape DEF AuditInvariant, Intact, HashesCover, Restore
<1> DEFINE base == heads[s].base
           end == heads[s].end
           part == SubSeq(Chronicle(s), 1, n)
<1>2. n \in (base + 1)..(end - 1)
  BY DEF Restore
<1>3. /\ Chronicle(s) \in Seq(Told) /\ Len(Chronicle(s)) = end
      /\ LogOf(s) = [ok |-> TRUE, gone |-> base, events |-> Chronicle(s)]
  BY <1>1, ChronicleTyped
<1>4. VerifyChain(s)'
  BY DEF AuditInvariant, Intact, Restore
<1>5. /\ heads'[s].base = base /\ heads'[s].end = n
      /\ \A y \in Scopes \ {s} : heads'[y] = heads[y] /\ rows'[y] = rows[y]
  BY DEF Restore, AuditInvariant, ChainTyped, HeadRow
<1>6. \A i \in 1..n : Covered(s, i)' = Covered(s, i)
  BY RestoreCovers
<1>7. LogOf(s)' = [ok |-> TRUE, gone |-> base, events |-> part]
  <2> DEFINE told == [i \in 1..n |->
                        [at |-> Covered(s, i)'.at, content |-> Covered(s, i)'.content]]
  <2>1. LogOf(s)' = [ok |-> TRUE, gone |-> heads'[s].base, events |->
          [i \in 1..heads'[s].end |->
             [at |-> Covered(s, i)'.at, content |-> Covered(s, i)'.content]]]
    BY <1>4 DEF LogOf
  <2>2. LogOf(s)' = [ok |-> TRUE, gone |-> base, events |-> told]
    BY <1>5, <2>1
  <2>3. \A i \in 1..n : i \in 1..end
    BY <1>1, <1>2
  <2>4. \A i \in 1..n : told[i] = Chronicle(s)[i] /\ Chronicle(s)[i] \in Told
    <3>1. \A i \in 1..n : told[i] = Chronicle(s)[i]
      BY <1>6, <2>3 DEF Chronicle
    <3> HIDE DEF told, end
    <3> QED
      BY <1>3, <2>3, <3>1, ElementOfSeq
  <2>5. n \in Nat
    BY <1>1, <1>2
  <2>6. told \in Seq(Told) /\ Len(told) = n
    BY <2>4, <2>5
  <2> HIDE DEF told
  <2>7. /\ part \in Seq(Told) /\ Len(part) = n
        /\ \A i \in 1..n : part[i] = Chronicle(s)[i]
    <3>1. 1 \in Int /\ n \in Int
      BY <2>5
    <3>2. /\ part \in Seq(Told)
          /\ Len(part) = IF 1 <= n THEN n - 1 + 1 ELSE 0
          /\ \A i \in 1..(n - 1 + 1) : part[i] = Chronicle(s)[1 + i - 1]
      BY <2>4, <3>1, SubSeqProperties
    <3> HIDE DEF part
    <3>3. n - 1 + 1 = n /\ (~(1 <= n) => n = 0) /\ \A i \in 1..n : 1 + i - 1 = i
      BY <2>5
    <3> QED
      BY <3>2, <3>3
  <2> HIDE DEF part
  <2>8. told = part
    BY <2>4, <2>6, <2>7, SeqEqual
  <2> QED
    BY <2>2, <2>8
<1>8. \A y \in Scopes \ {s} : LogOf(y)' = LogOf(y)
  BY <1>5, LogUntouched
<1> HIDE DEF base, end, part
<1>9. EL!TakeBack(s)
  <2> DEFINE log == [y \in Scopes |-> LogOf(y)]
             new == [ok |-> TRUE, gone |-> base, events |-> part]
  <2>1. log[s] = [ok |-> TRUE, gone |-> base, events |-> Chronicle(s)]
    BY <1>3
  <2>2. log' = [log EXCEPT ![s] = new]
    BY <1>7, <1>8
  <2>3. EL!TakeBack(s) <=>
          /\ log[s].ok
          /\ \E i \in (log[s].gone + 1)..(Len(log[s].events) - 1) :
               log' = [log EXCEPT ![s] = [ok |-> TRUE, gone |-> log[s].gone,
                                          events |-> SubSeq(log[s].events, 1, i)]]
    BY DEF EL!TakeBack
  <2> HIDE DEF log
  <2>4. log[s].ok /\ log[s].gone = base /\ log[s].events = Chronicle(s)
    BY <2>1
  <2> QED
    BY <1>2, <1>3, <2>2, <2>3, <2>4 DEF part, new
<1> QED
  BY <1>9

LEMMA DamageIsLose ==
  ASSUME AuditInvariant, HashesCover, AuditInvariant', NEW s \in Scopes, Damage(s)
  PROVE  EL!Lose(s)
<1>1. /\ ChainTyped /\ VerifyChain(s) /\ Covers(s) /\ heads[s].base < heads[s].end
      /\ heads[s].base \in Nat /\ heads[s].end \in Nat
  BY ValidShape DEF AuditInvariant, Intact, HashesCover, Damage
<1>2. /\ Len(Chronicle(s)) = heads[s].end
      /\ LogOf(s) = [ok |-> TRUE, gone |-> heads[s].base, events |-> Chronicle(s)]
  BY <1>1, ChronicleTyped
<1>3. LogOf(s).ok /\ LogOf(s).events # <<>>
  <2>1. Len(<<>>) = 0
    OBVIOUS
  <2> QED
    BY <1>1, <1>2, <2>1
<1>4. LogOf(s)' = [ok |-> FALSE]
  <2>1. s \in damaged'
    BY DEF Damage
  <2>2. ~VerifyChain(s)'
    BY <2>1 DEF AuditInvariant
  <2> QED
    BY <2>2 DEF LogOf
<1>5. \A y \in Scopes \ {s} : heads'[y] = heads[y] /\ rows'[y] = rows[y]
  <2>1. \A y \in Scopes \ {s} : heads'[y] = heads[y]
    BY DEF Damage, AuditInvariant, ChainTyped
  <2>2. \A y \in Scopes \ {s} : rows'[y] = rows[y]
    BY DEF Damage, AuditInvariant, ChainTyped
  <2> QED
    BY <2>1, <2>2
<1>6. \A y \in Scopes \ {s} : LogOf(y)' = LogOf(y)
  BY <1>5, LogUntouched
<1>7. [y \in Scopes |-> LogOf(y)'] =
        [[y \in Scopes |-> LogOf(y)] EXCEPT ![s] = [ok |-> FALSE]]
  BY <1>4, <1>6
<1> QED
  BY <1>3, <1>7 DEF EL!Lose, EL!Lost

LEMMA LogBegins == Init => EL!LogInit
<1> SUFFICES ASSUME Init PROVE EL!LogInit
  OBVIOUS
<1>1. ASSUME NEW s \in Scopes PROVE LogOf(s) = EL!Empty
  <2>1. heads[s] = NoHead /\ rows[s] = NoRows
    BY <1>1 DEF Init
  <2>2. ChainTyped /\ VerifyChain(s)
    BY <1>1, <2>1, AuditInit DEF AuditInvariant, VerifyChain, Valid
  <2>3. Covers(s)
    BY <2>1 DEF Covers, NoHead, NoRows, ZeroHash
  <2>4. heads[s].base = 0 /\ heads[s].end = 0
    BY <2>1 DEF NoHead
  <2>5. /\ Chronicle(s) \in Seq(Told) /\ Len(Chronicle(s)) = 0
        /\ LogOf(s) = [ok |-> TRUE, gone |-> 0, events |-> Chronicle(s)]
    BY <2>2, <2>3, <2>4, ChronicleTyped
  <2>6. Chronicle(s) = <<>>
    BY <2>5, EmptySeq
  <2> QED
    BY <2>5, <2>6 DEF EL!Empty
<1> QED
  BY <1>1 DEF EL!LogInit

(***************************************************************************)
(* The store implements a log per scope that changes by whole events at its  *)
(* end, is retained exactly, and is lost for good once it was altered: every *)
(* other step, of any process, cache or failed transaction, leaves every log *)
(* as it is (audit.py append, _prune, verify_chain, list_redacted).          *)
(***************************************************************************)
THEOREM AuditImplementsEventLog == Spec => ImplementsEventLog
<1> DEFINE Sound == AuditInvariant /\ HashesCover
           log == [s \in Scopes |-> LogOf(s)]
<1>1. Sound /\ Sound' /\ [Next]_vars => [EL!LogNext]_log
  <2> SUFFICES ASSUME Sound, Sound', [Next]_vars PROVE EL!LogNext \/ UNCHANGED log
    OBVIOUS
  <2>1. CASE UNCHANGED <<heads, rows>>
    <3>1. \A s : LogOf(s)' = LogOf(s)
      BY <2>1, LogUntouched
    <3> QED
      BY <3>1
  <2>2. ASSUME NEW w \in Writers, AppendCommit(w) PROVE EL!LogNext
    BY <2>2, CommitIsExtend DEF EL!LogNext
  <2>3. ASSUME NEW s \in Scopes, NEW n \in 0..MaxAppends, Restore(s, n) PROVE EL!LogNext
    BY <2>3, RestoreIsTakeBack DEF EL!LogNext
  <2>4. ASSUME NEW s \in Scopes, Damage(s) PROVE EL!LogNext
    BY <2>4, DamageIsLose DEF EL!LogNext
  <2>5. ASSUME NEW w \in Writers, AppendRefuse(w) \/ AppendPublish(w) \/ AppendFails(w)
        PROVE  UNCHANGED <<heads, rows>>
    BY <2>5 DEF AppendRefuse, AppendPublish, AppendFails
  <2>6. ASSUME NEW p \in Stores, Crash(p) PROVE UNCHANGED <<heads, rows>>
    BY <2>6 DEF Crash
  <2>7. ASSUME NEW w \in Writers, NEW s \in Scopes, NEW t \in Times, NEW content \in Contents,
               AppendBegin(w, s, t, content)
        PROVE  UNCHANGED <<heads, rows>>
    BY <2>7 DEF AppendBegin
  <2> QED
    BY <2>1, <2>2, <2>3, <2>4, <2>5, <2>6, <2>7 DEF Next, vars
<1> QED
  BY <1>1, LogBegins, HashesCoverHistory, PTL DEF Spec, ImplementsEventLog, EL!LogSpec
=============================================================================
