----------------------- MODULE ConversationStoreProofs -----------------------
(***************************************************************************)
(* The conversation store keeps its types and its indexes, and implements  *)
(* the map of conversations it promises, for any clients, threads, chats,  *)
(* cutoffs and retries, beside the maintenance command.                    *)
(***************************************************************************)
EXTENDS ConversationStore, FiniteSetTheorems, SequenceTheorems, TLAPS

-----------------------------------------------------------------------------
(* Rows of the fuzzy index. *)

\* Without keeps exactly the other keys, each as often as before: the positions
\* that stay and their ranks are in bijection.
LEMMA RowWithout ==
  ASSUME NEW S, NEW row \in Seq(S), NEW gone
  PROVE  /\ Without(row, gone) \in Seq(S)
         /\ ToSet(Without(row, gone)) = ToSet(row) \ gone
         /\ IsInjective(row) => IsInjective(Without(row, gone))
<1> DEFINE rest == {i \in DOMAIN row : row[i] \notin gone}
           upto(i) == {h \in rest : h <= i}
           n == Cardinality(rest)
           rank == [i \in rest |-> Cardinality(upto(i))]
           place == [j \in 1 .. n |-> CHOOSE i \in rest : rank[i] = j]
<1>1. IsFiniteSet(rest) /\ n \in Nat /\ rest \subseteq 1 .. Len(row) /\ rest \subseteq Nat
  <2>1. DOMAIN row = 1 .. Len(row) /\ Len(row) \in Nat
    BY LenProperties
  <2>2. IsFiniteSet(1 .. Len(row))
    BY <2>1, FS_Interval
  <2> QED
    BY <2>1, <2>2, FS_Subset, FS_CardinalityType
<1>2. ASSUME NEW i \in rest
      PROVE  IsFiniteSet(upto(i)) /\ rank[i] \in 1 .. n
  <2>1. IsFiniteSet(upto(i)) /\ Cardinality(upto(i)) <= n
    BY <1>1, FS_Subset
  <2>2. Cardinality(upto(i)) \in Nat
    BY <2>1, FS_CardinalityType
  <2>3. Cardinality(upto(i)) # 0
    BY <1>1, <2>1, FS_EmptySet
  <2> QED
    BY <2>1, <2>2, <2>3, <1>1
<1>3. ASSUME NEW i \in rest, NEW j \in rest, i < j
      PROVE  rank[i] < rank[j]
  <2>1. upto(i) \subseteq upto(j) /\ j \in upto(j) /\ j \notin upto(i)
    BY <1>1, <1>3
  <2>2. Cardinality(upto(i)) <= Cardinality(upto(j))
        /\ Cardinality(upto(i)) # Cardinality(upto(j))
    BY <1>2, <2>1, FS_Subset
  <2>3. Cardinality(upto(i)) \in Nat /\ Cardinality(upto(j)) \in Nat
    BY <1>2, FS_CardinalityType
  <2> QED
    BY <2>2, <2>3
<1> HIDE DEF rest, upto, n, rank
<1>4. \A i, j \in rest : rank[i] = rank[j] => i = j
  <2> SUFFICES ASSUME NEW i \in rest, NEW j \in rest, rank[i] = rank[j] PROVE i = j
    OBVIOUS
  <2>1. i \in Nat /\ j \in Nat /\ rank[i] \in Nat /\ rank[j] \in Nat
    BY <1>1, <1>2
  <2>2. ~ (i < j) /\ ~ (j < i)
    BY <2>1, <1>3
  <2> QED
    BY <2>1, <2>2
<1>5. rank \in Injection(rest, 1 .. n)
  <2>1. rank \in [rest -> 1 .. n]
    BY <1>2 DEF rank, rest
  <2> QED
    BY <2>1, <1>4 DEF Injection, IsInjective
<1>6. rank \in Surjection(rest, 1 .. n)
  <2>1. IsFiniteSet(1 .. n) /\ Cardinality(1 .. n) = n
    BY <1>1, FS_Interval
  <2> QED
    BY <1>1, <1>5, <2>1, FS_Injection DEF n
<1>7. \A j \in 1 .. n : place[j] \in rest /\ rank[place[j]] = j
  BY <1>6 DEF Surjection
<1>8. \A i \in rest : \E j \in 1 .. n : place[j] = i
  BY <1>2, <1>4, <1>7
<1>9. Without(row, gone) = [j \in 1 .. n |-> row[place[j]]]
  BY DEF Without, rest, upto, n, rank
<1> HIDE DEF place
<1>10. /\ Len(Without(row, gone)) = n /\ DOMAIN Without(row, gone) = 1 .. n
       /\ Without(row, gone) \in Seq(S)
  <2>1. \A j \in 1 .. n : row[place[j]] \in S
    BY <1>1, <1>7, ElementOfSeq
  <2>2. Without(row, gone) \in [1 .. n -> S]
    BY <1>9, <2>1
  <2> QED
    BY <2>2, <1>1, SeqDef
<1>11. ToSet(Without(row, gone)) = ToSet(row) \ gone
  <2>1. ASSUME NEW k \in ToSet(Without(row, gone)) PROVE k \in ToSet(row) \ gone
    BY <1>7, <1>9, <1>10 DEF ToSet, rest
  <2>2. ASSUME NEW k \in ToSet(row) \ gone PROVE k \in ToSet(Without(row, gone))
    <3>1. PICK i \in rest : row[i] = k
      BY DEF ToSet, rest
    <3>2. PICK j \in 1 .. n : place[j] = i
      BY <1>8
    <3> QED
      BY <3>1, <3>2, <1>9, <1>10 DEF ToSet
  <2> QED
    BY <2>1, <2>2
<1>12. ASSUME IsInjective(row) PROVE IsInjective(Without(row, gone))
  <2> SUFFICES ASSUME NEW i \in 1 .. n, NEW j \in 1 .. n, row[place[i]] = row[place[j]]
               PROVE  i = j
    BY <1>9, <1>10 DEF IsInjective
  <2>1. place[i] = place[j]
    BY <1>7, <1>12 DEF IsInjective, rest
  <2> QED
    BY <2>1, <1>7
<1> QED
  BY <1>10, <1>11, <1>12

\* List adds the key to what the row lists, once.
LEMMA RowListed ==
  ASSUME NEW S, NEW row \in Seq(S), NEW k \in S
  PROVE  /\ List(row, k) \in Seq(S)
         /\ ToSet(List(row, k)) = ToSet(row) \cup {k}
         /\ IsInjective(row) => IsInjective(List(row, k))
<1>0. DOMAIN row = 1 .. Len(row) /\ Len(row) \in Nat
  BY LenProperties
<1>1. CASE Contains(row, k)
  BY <1>0, <1>1 DEF List, Contains, ToSet
<1>2. CASE ~ Contains(row, k)
  <2> DEFINE new == Append(row, k)
  <2>1. /\ new \in Seq(S) /\ Len(new) = Len(row) + 1
        /\ \A i \in 1 .. Len(row) : new[i] = row[i]
        /\ new[Len(row) + 1] = k
    BY AppendProperties
  <2>2. DOMAIN new = 1 .. Len(row) + 1
    BY <2>1, LenProperties
  <2>3. \A i \in 1 .. Len(row) : row[i] # k
    BY <1>2 DEF Contains
  <2>4. List(row, k) = new
    BY <1>2 DEF List
  <2> HIDE DEF new
  <2>5. ToSet(new) = ToSet(row) \cup {k}
    <3>1. ToSet(new) = {new[i] : i \in 1 .. Len(row) + 1}
      BY <2>2 DEF ToSet
    <3>2. ToSet(row) = {row[i] : i \in 1 .. Len(row)}
      BY <1>0 DEF ToSet
    <3>3. \A i \in 1 .. Len(row) + 1 : i \in 1 .. Len(row) \/ i = Len(row) + 1
      BY <1>0
    <3>4. \A i \in 1 .. Len(row) : i \in 1 .. Len(row) + 1
      BY <1>0
    <3>5. Len(row) + 1 \in 1 .. Len(row) + 1
      BY <1>0
    <3> QED
      BY <3>1, <3>2, <3>3, <3>4, <3>5, <2>1
  <2>6. IsInjective(row) => IsInjective(new)
    BY <2>1, <2>2, <2>3, <1>0 DEF IsInjective
  <2> QED
    BY <2>1, <2>4, <2>5, <2>6
<1> QED
  BY <1>1, <1>2

\* A row that lists no key twice is as long as what it lists.
LEMMA RowCounted ==
  ASSUME NEW S, NEW row \in Seq(S), IsInjective(row)
  PROVE  Len(row) = Cardinality(ToSet(row))
<1>1. DOMAIN row = 1 .. Len(row) /\ Len(row) \in Nat /\ row \in [1 .. Len(row) -> S]
  BY LenProperties
<1>2. row \in [1 .. Len(row) -> ToSet(row)]
  BY <1>1 DEF ToSet
<1>3. row \in Bijection(1 .. Len(row), ToSet(row))
  BY <1>1, <1>2 DEF Bijection, Injection, Surjection, IsInjective, ToSet
<1> QED
  BY <1>1, <1>3, FS_CountingElements DEF ExistsBijection

-----------------------------------------------------------------------------
(* The inductive invariant.                                                *)

\* What the maintenance command carries from its read to its write.
RotationTyped ==
  rotation = Nothing \/ rotation \in [expired : SUBSET (Keys \cup LegacyKeys), chats : SUBSET Chats]

\* A row lists exactly the current records of its hash, no key twice.
RowsAgree ==
  \A row \in Rows :
    /\ ToSet(fuzzy[row]) = {k \in Current : RowOf(k) = row}
    /\ IsInjective(fuzzy[row])

StoreInv == TypeOK /\ RotationTyped /\ exact = Current /\ RowsAgree

LEMMA RowsOfKeys == \A k \in Keys : RowOf(k) \in Rows
  BY DEF Keys, Rows, RowOf

LEMMA FreshRecord ==
  ASSUME NEW ch \in Chats, NEW scope \in Scopes \cup {Nothing}, NEW auto \in BOOLEAN
  PROVE  [chat |-> ch, scope |-> scope, auto |-> auto, age |-> 0] \in Record
  BY StoreAssumption DEF Record

LEMMA StoreInit == Init => StoreInv
<1> SUFFICES ASSUME Init PROVE StoreInv
  OBVIOUS
<1>1. PICK old \in {{}, LegacyKeys}, ch \in Chats :
        /\ records = [k \in Keys \cup LegacyKeys |->
             IF k \in old THEN [chat |-> ch, scope |-> Nothing, auto |-> FALSE, age |-> 0]
                          ELSE Nothing]
        /\ staleRows = old
  BY DEF Init
<1>2. [chat |-> ch, scope |-> Nothing, auto |-> FALSE, age |-> 0] \in Record
  BY FreshRecord
<1>3. records \in [Keys \cup LegacyKeys -> Record \cup {Nothing}] /\ staleRows \subseteq LegacyKeys
  BY <1>1, <1>2
<1>4. Current = {}
  BY <1>1, StoreAssumption DEF Current
<1>5. /\ exact = {} /\ fuzzy = [row \in Rows |-> <<>>] /\ pruned = FALSE /\ pending = {}
      /\ attempts = [c \in Chats |-> 0] /\ rotation = Nothing
  BY DEF Init
<1>6. ToSet(<<>>) = {} /\ IsInjective(<<>>) /\ <<>> \in Seq(Keys)
  BY EmptySeq DEF ToSet, IsInjective
<1>7. 0 \in 0 .. MaxRetries - 1
  BY StoreAssumption
<1>8. TypeOK
  BY <1>3, <1>5, <1>6, <1>7 DEF TypeOK
<1>9. RowsAgree
  BY <1>4, <1>5, <1>6 DEF RowsAgree
<1> QED
  BY <1>4, <1>5, <1>8, <1>9 DEF StoreInv, RotationTyped

-----------------------------------------------------------------------------
(* Removing and storing records. *)

\* The part of the invariant that is about records and indexes, and the rest.
IndexInv ==
  /\ records \in [Keys \cup LegacyKeys -> Record \cup {Nothing}]
  /\ exact \subseteq Keys /\ fuzzy \in [Rows -> Seq(Keys)]
  /\ exact = Current /\ RowsAgree

QueueInv ==
  /\ staleRows \subseteq LegacyKeys /\ pruned \in BOOLEAN
  /\ pending \subseteq Chats /\ attempts \in [Chats -> 0 .. MaxRetries - 1]
  /\ \A ch \in Chats \ pending : attempts[ch] = 0
  /\ RotationTyped

LEMMA InParts == StoreInv <=> IndexInv /\ QueueInv
  BY DEF StoreInv, IndexInv, QueueInv, TypeOK

LEMMA IndexStays ==
  ASSUME IndexInv, UNCHANGED <<records, exact, fuzzy>>
  PROVE  IndexInv' /\ Current' = Current
  BY DEF IndexInv, RowsAgree, Current

LEMMA QueueStays ==
  ASSUME QueueInv, UNCHANGED <<staleRows, pruned, pending, attempts, rotation>>
  PROVE  QueueInv'
  BY DEF QueueInv, RotationTyped

LEMMA Removed ==
  ASSUME IndexInv, NEW gone, RemoveRecords(gone)
  PROVE  IndexInv' /\ Current' = Current \ gone
<1> USE DEF IndexInv
<1>1. /\ records' = [k \in Keys \cup LegacyKeys |-> IF k \in gone THEN Nothing ELSE records[k]]
      /\ exact' = exact \ gone
      /\ fuzzy' = [row \in Rows |-> Without(fuzzy[row], gone)]
  BY DEF RemoveRecords
<1>2. records' \in [Keys \cup LegacyKeys -> Record \cup {Nothing}]
  BY <1>1
<1>3. Current' = Current \ gone
  BY <1>1 DEF Current
<1>4. ASSUME NEW row \in Rows
      PROVE  /\ fuzzy'[row] \in Seq(Keys)
             /\ ToSet(fuzzy'[row]) = ToSet(fuzzy[row]) \ gone
             /\ IsInjective(fuzzy'[row])
  <2>1. fuzzy[row] \in Seq(Keys) /\ IsInjective(fuzzy[row]) /\ fuzzy'[row] = Without(fuzzy[row], gone)
    BY <1>1 DEF RowsAgree
  <2> QED
    BY <2>1, RowWithout
<1>5. fuzzy' \in [Rows -> Seq(Keys)]
  BY <1>1, <1>4
<1>6. RowsAgree'
  <2> SUFFICES ASSUME NEW row \in Rows
               PROVE  ToSet(fuzzy'[row]) = {k \in Current' : RowOf(k) = row} /\ IsInjective(fuzzy'[row])
    BY DEF RowsAgree, RowOf
  <2>1. ToSet(fuzzy[row]) = {k \in Current : RowOf(k) = row}
    BY DEF RowsAgree
  <2> QED
    BY <1>3, <1>4, <2>1
<1> QED
  BY <1>1, <1>2, <1>3, <1>5, <1>6

LEMMA Kept ==
  ASSUME IndexInv, NEW k \in Keys, NEW ch \in Chats, NEW tag \in (Scopes \cup {Nothing}) \X BOOLEAN,
         Store(k, ch, tag)
  PROVE  IndexInv' /\ Current' = Current \cup {k}
<1> USE DEF IndexInv
<1> DEFINE new == [chat |-> ch, scope |-> tag[1], auto |-> tag[2], age |-> 0]
<1>1. new \in Record
  BY FreshRecord
<1> HIDE DEF new
<1>2. /\ records' = [records EXCEPT ![k] = new]
      /\ exact' = exact \cup {k}
      /\ fuzzy' = [fuzzy EXCEPT ![RowOf(k)] = List(@, k)]
  BY DEF Store, new
<1>3. records' \in [Keys \cup LegacyKeys -> Record \cup {Nothing}]
  BY <1>1, <1>2
<1>4. Current' = Current \cup {k}
  BY <1>1, <1>2, StoreAssumption DEF Current
<1>5. /\ List(fuzzy[RowOf(k)], k) \in Seq(Keys)
      /\ ToSet(List(fuzzy[RowOf(k)], k)) = ToSet(fuzzy[RowOf(k)]) \cup {k}
      /\ IsInjective(List(fuzzy[RowOf(k)], k))
  <2>1. fuzzy[RowOf(k)] \in Seq(Keys) /\ IsInjective(fuzzy[RowOf(k)])
    BY RowsOfKeys DEF RowsAgree
  <2> QED
    BY <2>1, RowListed
<1>6. fuzzy' \in [Rows -> Seq(Keys)]
  BY <1>2, <1>5, RowsOfKeys
<1>7. ASSUME NEW row \in Rows
      PROVE  ToSet(fuzzy'[row]) = {h \in Current' : RowOf(h) = row} /\ IsInjective(fuzzy'[row])
  <2>1. ToSet(fuzzy[row]) = {h \in Current : RowOf(h) = row} /\ IsInjective(fuzzy[row])
    BY DEF RowsAgree
  <2>2. CASE row = RowOf(k)
    <3>1. fuzzy'[row] = List(fuzzy[RowOf(k)], k)
      BY <1>2, <2>2
    <3> QED
      BY <3>1, <2>1, <2>2, <1>4, <1>5
  <2>3. CASE row # RowOf(k)
    <3>1. fuzzy'[row] = fuzzy[row]
      BY <1>2, <2>3
    <3> QED
      BY <3>1, <2>1, <2>3, <1>4
  <2> QED
    BY <2>2, <2>3
<1>8. RowsAgree'
  BY <1>7 DEF RowsAgree, RowOf
<1> QED
  BY <1>2, <1>3, <1>4, <1>6, <1>8

LEMMA Older ==
  ASSUME IndexInv, Tick
  PROVE  IndexInv' /\ Current' = Current
<1> USE DEF IndexInv
<1>1. records' = [k \in Keys \cup LegacyKeys |->
                    IF records[k] # Nothing /\ records[k].age < MaxAge
                      THEN [records[k] EXCEPT !.age = @ + 1] ELSE records[k]]
      /\ UNCHANGED <<exact, fuzzy>>
  BY DEF Tick
<1>2. ASSUME NEW record \in Record, record.age < MaxAge
      PROVE  [record EXCEPT !.age = @ + 1] \in Record
  <2>1. record.age \in 0 .. MaxAge /\ record.age + 1 \in 0 .. MaxAge
    BY <1>2, StoreAssumption DEF Record
  <2> QED
    BY <2>1 DEF Record
<1>3. \A k \in Keys \cup LegacyKeys :
        /\ records'[k] \in Record \cup {Nothing}
        /\ records'[k] = Nothing <=> records[k] = Nothing
  BY <1>1, <1>2, StoreAssumption
<1>4. records' \in [Keys \cup LegacyKeys -> Record \cup {Nothing}]
  BY <1>1, <1>3
<1>5. Current' = Current
  BY <1>3 DEF Current
<1> QED
  BY <1>1, <1>4, <1>5 DEF RowsAgree

-----------------------------------------------------------------------------
(* Every step keeps the invariant. *)

LEMMA ExpiredTyped ==
  ASSUME IndexInv, NEW ttl, NEW retention
  PROVE  /\ Expired(ttl, retention) \subseteq Keys \cup LegacyKeys
         /\ ToDelete(Expired(ttl, retention)) \subseteq Chats
<1>1. Expired(ttl, retention) \subseteq Stored
  BY DEF Expired
<1>2. \A k \in Stored : k \in Keys \cup LegacyKeys /\ records[k] \in Record
  BY DEF IndexInv, Stored
<1>3. \A k \in Stored : records[k].chat \in Chats
  BY <1>2 DEF Record
<1> QED
  BY <1>1, <1>2, <1>3 DEF ToDelete

LEMMA Purged ==
  ASSUME QueueInv, NEW gone, NEW chats \in SUBSET Chats, Purge(gone, chats),
         rotation' \in {rotation, Nothing}
  PROVE  QueueInv'
<1>1. /\ pending' = pending \cup chats /\ UNCHANGED <<staleRows, pruned>>
      /\ attempts' = [ch \in Chats |-> IF ch \in chats THEN 0 ELSE attempts[ch]]
  BY DEF Purge
<1>2. 0 \in 0 .. MaxRetries - 1
  BY StoreAssumption
<1>3. attempts' \in [Chats -> 0 .. MaxRetries - 1]
  BY <1>1, <1>2 DEF QueueInv
<1>4. \A ch \in Chats \ pending' : attempts'[ch] = 0
  BY <1>1 DEF QueueInv
<1>5. RotationTyped'
  BY DEF QueueInv, RotationTyped
<1> QED
  BY <1>1, <1>3, <1>4, <1>5 DEF QueueInv

LEMMA Unmarked ==
  ASSUME QueueInv, NEW ch \in Chats, Unmark(ch)
  PROVE  QueueInv'
<1>1. pending' = pending \ {ch} /\ attempts' = [attempts EXCEPT ![ch] = 0]
      /\ UNCHANGED <<staleRows, pruned, rotation>>
  BY DEF Unmark
<1>2. 0 \in 0 .. MaxRetries - 1
  BY StoreAssumption
<1>3. attempts' \in [Chats -> 0 .. MaxRetries - 1]
  BY <1>1, <1>2 DEF QueueInv
<1>4. \A c \in Chats \ pending' : attempts'[c] = 0
  BY <1>1 DEF QueueInv
<1> QED
  BY <1>1, <1>3, <1>4 DEF QueueInv, RotationTyped

LEMMA FailureCounted ==
  ASSUME QueueInv, NEW ch \in Chats, RecordFailure(ch)
  PROVE  QueueInv' /\ UNCHANGED <<records, exact, fuzzy, found>>
<1>1. CASE LastAttempt(ch)
  BY <1>1, Unmarked DEF RecordFailure, Unmark
<1>2. CASE ~ LastAttempt(ch)
  <2>1. /\ attempts' = [attempts EXCEPT ![ch] = @ + 1] /\ ch \in pending
        /\ UNCHANGED <<records, exact, fuzzy, staleRows, pruned, pending, found, rotation>>
    BY <1>2 DEF RecordFailure
  <2>2. attempts[ch] \in 0 .. MaxRetries - 1
    BY DEF QueueInv
  <2>3. attempts[ch] + 1 \in 0 .. MaxRetries - 1
    BY <1>2, <2>2, StoreAssumption DEF LastAttempt
  <2>4. attempts' \in [Chats -> 0 .. MaxRetries - 1]
    BY <2>1, <2>3 DEF QueueInv
  <2>5. \A c \in Chats \ pending' : attempts'[c] = 0
    BY <2>1 DEF QueueInv
  <2> QED
    BY <2>1, <2>4, <2>5 DEF QueueInv, RotationTyped
<1> QED
  BY <1>1, <1>2

\* The steps that only look, count or mark: the records and the answer stay.
Aside ==
  \/ \E ch \in Chats : RemovePending(ch) \/ RecordFailure(ch)
  \/ PruneStaleIndexes
  \/ \E cutoff \in 1 .. MaxAge : RotationReads(cutoff)
  \/ UNCHANGED storeVars

LEMMA AsideStays ==
  ASSUME StoreInv, Aside
  PROVE  StoreInv' /\ UNCHANGED <<Current, found>>
<1>0. IndexInv /\ QueueInv
  BY InParts
<1>1. ASSUME UNCHANGED <<records, exact, fuzzy, found>>, QueueInv'
      PROVE  StoreInv' /\ UNCHANGED <<Current, found>>
  BY <1>0, <1>1, IndexStays, InParts DEF StoreInv, IndexInv, QueueInv, TypeOK
<1>2. ASSUME NEW ch \in Chats, RemovePending(ch)
      PROVE  StoreInv' /\ UNCHANGED <<Current, found>>
  BY <1>0, <1>1, <1>2, Unmarked DEF RemovePending, Unmark
<1>3. ASSUME NEW ch \in Chats, RecordFailure(ch)
      PROVE  StoreInv' /\ UNCHANGED <<Current, found>>
  BY <1>0, <1>1, <1>3, FailureCounted
<1>4. CASE PruneStaleIndexes
  <2>1. QueueInv'
    BY <1>0, <1>4 DEF PruneStaleIndexes, QueueInv, RotationTyped
  <2> QED
    BY <1>1, <1>4, <2>1 DEF PruneStaleIndexes
<1>5. ASSUME NEW cutoff \in 1 .. MaxAge, RotationReads(cutoff)
      PROVE  StoreInv' /\ UNCHANGED <<Current, found>>
  <2>1. /\ rotation' = [expired |-> Expired(cutoff, cutoff), chats |-> ToDelete(Expired(cutoff, cutoff))]
        /\ UNCHANGED <<records, exact, fuzzy, staleRows, pruned, pending, attempts, found>>
    BY <1>5 DEF RotationReads
  <2>2. RotationTyped'
    BY <1>0, <2>1, ExpiredTyped DEF RotationTyped
  <2>3. QueueInv'
    BY <1>0, <2>1, <2>2 DEF QueueInv
  <2> QED
    BY <1>1, <2>1, <2>3
<1>6. CASE UNCHANGED storeVars
  BY <1>0, <1>1, <1>6, QueueStays DEF storeVars
<1> QED
  BY <1>2, <1>3, <1>4, <1>5, <1>6 DEF Aside

\* The steps that take records away.
Removes(gone) ==
  \/ \E k : Evict(k) /\ gone = {k}
  \/ CleanupExpired /\ gone = Expired(Ttl, Retention)
  \/ RotationWrites /\ gone = rotation.expired
  \/ Clear /\ gone = Stored

LEMMA RemovesKeeps ==
  ASSUME StoreInv, NEW gone, Removes(gone)
  PROVE  StoreInv' /\ Current' = Current \ gone /\ UNCHANGED found
<1>0. IndexInv /\ QueueInv
  BY InParts
<1>1. ASSUME RemoveRecords(gone), QueueInv', UNCHANGED found
      PROVE  StoreInv' /\ Current' = Current \ gone /\ UNCHANGED found
  BY <1>0, <1>1, Removed DEF StoreInv, IndexInv, QueueInv, TypeOK
<1>2. ASSUME NEW k, Evict(k), gone = {k}
      PROVE  StoreInv' /\ Current' = Current \ gone /\ UNCHANGED found
  BY <1>0, <1>1, <1>2, QueueStays DEF Evict
<1>3. CASE CleanupExpired /\ gone = Expired(Ttl, Retention)
  <2>1. Purge(gone, ToDelete(gone)) /\ UNCHANGED rotation
    BY <1>3 DEF CleanupExpired
  <2>2. QueueInv'
    BY <1>0, <1>3, <2>1, Purged, ExpiredTyped
  <2> QED
    BY <1>1, <2>1, <2>2 DEF Purge
<1>4. CASE RotationWrites /\ gone = rotation.expired
  <2>1. Purge(gone, rotation.chats) /\ rotation # Nothing /\ rotation' = Nothing
    BY <1>4 DEF RotationWrites
  <2>2. rotation.chats \in SUBSET Chats
    BY <1>0, <2>1 DEF QueueInv, RotationTyped
  <2>3. QueueInv'
    BY <1>0, <2>1, <2>2, Purged
  <2> QED
    BY <1>1, <2>1, <2>3 DEF Purge
<1>5. CASE Clear /\ gone = Stored
  <2>1. /\ RemoveRecords(gone) /\ staleRows' = {} /\ pruned' = FALSE /\ pending' = {}
        /\ attempts' = [ch \in Chats |-> 0] /\ UNCHANGED <<found, rotation>>
    BY <1>5 DEF Clear
  <2>2. 0 \in 0 .. MaxRetries - 1
    BY StoreAssumption
  <2>3. QueueInv'
    BY <1>0, <2>1, <2>2 DEF QueueInv, RotationTyped
  <2> QED
    BY <1>1, <2>1, <2>3
<1> QED
  BY <1>2, <1>3, <1>4, <1>5 DEF Removes

LEMMA StoreKeeps ==
  ASSUME StoreInv, NEW k \in Keys, NEW ch \in Chats,
         NEW tag \in (Scopes \cup {Nothing}) \X BOOLEAN, Store(k, ch, tag)
  PROVE  StoreInv' /\ Current' = Current \cup {k} /\ UNCHANGED found
<1>0. IndexInv /\ QueueInv
  BY InParts
<1>1. QueueInv'
  BY <1>0, QueueStays DEF Store
<1> QED
  BY <1>0, <1>1, Kept DEF Store, StoreInv, IndexInv, QueueInv, TypeOK

LEMMA TickKeeps ==
  ASSUME StoreInv, Tick
  PROVE  StoreInv' /\ UNCHANGED <<Current, found>>
<1>0. IndexInv /\ QueueInv
  BY InParts
<1>1. QueueInv'
  BY <1>0, QueueStays DEF Tick
<1> QED
  BY <1>0, <1>1, Older DEF Tick, StoreInv, IndexInv, QueueInv, TypeOK

LEMMA FindKeeps ==
  ASSUME StoreInv, NEW t, Find(t)
  PROVE  StoreInv' /\ UNCHANGED Current /\ found' = Lookup(t)
<1>0. IndexInv /\ QueueInv
  BY InParts
<1>1. QueueInv'
  BY <1>0, QueueStays DEF Find
<1> QED
  BY <1>0, <1>1, IndexStays DEF Find, StoreInv, IndexInv, QueueInv, TypeOK

\* What a step of the server, of time or of the maintenance command is.
LEMMA StepIs ==
  ASSUME [Next \/ RotationNext]_storeVars
  PROVE  \/ \E k \in Keys, ch \in Chats, tag \in Tags : Store(k, ch, tag)
         \/ \E t \in Threads : Find(t)
         \/ \E gone : Removes(gone)
         \/ Tick
         \/ Aside
  BY DEF Next, ServerNext, RotationNext, Removes, Aside

LEMMA StepKeeps == StoreInv /\ [Next \/ RotationNext]_storeVars => StoreInv'
<1> SUFFICES ASSUME StoreInv, [Next \/ RotationNext]_storeVars PROVE StoreInv'
  OBVIOUS
<1>1. \A tag \in Tags : tag \in (Scopes \cup {Nothing}) \X BOOLEAN
  BY StoreAssumption
<1> QED
  BY <1>1, StepIs, StoreKeeps, FindKeeps, RemovesKeeps, TickKeeps, AsideStays

\* The store's types, its indexes and its records stay in step whatever is stored,
\* stored again, evicted, expired, rotated or cleared (LMDBConversationStore).
THEOREM StoreInvariant == RotatedSpec => []StoreInv
<1> QED
  BY StoreInit, StepKeeps, PTL DEF RotatedSpec

\* Every variable of the store keeps its type and the attempts at one deletion stay
\* below max_retries; a chat without a marker has none counted.
THEOREM StoreTypes == RotatedSpec => []TypeOK
<1>1. StoreInv => TypeOK
  BY DEF StoreInv
<1> QED
  BY <1>1, StoreInvariant, PTL

\* _update_index and _remove_from_index keep both indexes equal to the current
\* records: nothing stored is unreachable, no entry dangles, none is doubled.
THEOREM IndexesStayInStep == RotatedSpec => []IndexesAgree
<1>1. StoreInv => IndexesAgree
  <2> SUFFICES ASSUME StoreInv PROVE IndexesAgree
    OBVIOUS
  <2>1. ASSUME NEW row \in Rows
        PROVE  Len(fuzzy[row]) = Cardinality(ToSet(fuzzy[row]))
    BY RowCounted DEF StoreInv, TypeOK, RowsAgree
  <2> QED
    BY <2>1 DEF StoreInv, RowsAgree, IndexesAgree
<1> QED
  BY <1>1, StoreInvariant, PTL

-----------------------------------------------------------------------------
(* The store implements the map of conversations. *)

LEMMA Least ==
  ASSUME NEW S \in SUBSET Nat, S # {}
  PROVE  \E i \in S : \A j \in S : i <= j
<1> DEFINE less == {pair \in Nat \X Nat : pair[1] < pair[2]}
<1>1. OpToRel(<, Nat) = less
  BY Zenon DEF OpToRel
<1>2. IsWellFoundedOn(less, Nat)
  BY <1>1, NatLessThanWellFounded
<1> HIDE DEF less
<1>3. PICK i \in S : \A j \in S : ~ (<<j, i>> \in less)
  BY <1>2, WFMin
<1>4. ASSUME NEW j \in S PROVE i <= j
  <2>1. i \in Nat /\ j \in Nat /\ <<j, i>> \in Nat \X Nat
    OBVIOUS
  <2>2. ~ (<<j, i>>[1] < <<j, i>>[2])
    BY <1>3, <2>1 DEF less
  <2> QED
    BY <2>1, <2>2
<1> QED
  BY <1>4

LEMMA Greatest ==
  ASSUME NEW n \in Nat, NEW S \in SUBSET (1 .. n), S # {}
  PROVE  \E i \in S : \A j \in S : j <= i
<1> DEFINE back == {n - i : i \in S}
<1>1. back \in SUBSET Nat /\ back # {}
  <2>1. \A i \in S : n - i \in Nat
    OBVIOUS
  <2> QED
    BY <2>1
<1>2. PICK b \in back : \A a \in back : b <= a
  BY <1>1, Least
<1>3. PICK i \in S : b = n - i
  BY <1>2
<1>4. \A j \in S : n - i <= n - j
  BY <1>2, <1>3
<1> QED
  BY <1>4

LEMMA OrderIndexed ==
  /\ DOMAIN Order = 1 .. Len(Order) /\ Len(Order) \in Nat
  /\ \A i \in 1 .. Len(Order) : Order[i] \in ClientIds
<1>1. Order \in Seq(ClientIds)
  BY StoreAssumption
<1> QED
  BY <1>1, LenProperties, ElementOfSeq

\* One client's exact answer: its record of the thread, when it has one.
LEMMA ExactAnswers ==
  ASSUME NEW c \in ClientIds, NEW t \in Threads
  PROVE  /\ ExactHit(c, t) # Nothing => ExactHit(c, t) \in Promise!Same(c, t)
         /\ ExactHit(c, t) = Nothing => Promise!Same(c, t) = {}
<1>1. <<c, t>> \in Keys /\ <<c, t>> # Nothing
  BY StoreAssumption DEF Keys
<1> QED
  BY <1>1 DEF ExactHit, Promise!Same, Current

\* One client's fuzzy answer: some record that reads alike, when it has one.
LEMMA FuzzyAnswers ==
  ASSUME StoreInv, NEW c \in ClientIds, NEW t \in Threads
  PROVE  /\ FuzzyHit(c, t) # Nothing => FuzzyHit(c, t) \in Promise!Alike(c, t)
         /\ FuzzyHit(c, t) = Nothing => Promise!Alike(c, t) = {}
<1> DEFINE row == fuzzy[<<c, FuzzyOf[t]>>]
           hits == {i \in DOMAIN row : row[i] \in Current}
           last == CHOOSE i \in hits : \A j \in hits : j <= i
<1>1. <<c, FuzzyOf[t]>> \in Rows
  BY DEF Rows
<1>2. row \in Seq(Keys) /\ ToSet(row) = {k \in Current : RowOf(k) = <<c, FuzzyOf[t]>>}
  BY <1>1 DEF StoreInv, TypeOK, RowsAgree
<1>3. \A k : k \in Current /\ RowOf(k) = <<c, FuzzyOf[t]>> <=> k \in Promise!Alike(c, t)
  BY DEF RowOf, Promise!Alike
<1>4. DOMAIN row = 1 .. Len(row) /\ Len(row) \in Nat
  BY <1>2, LenProperties
<1>5. FuzzyHit(c, t) = IF hits = {} THEN Nothing ELSE row[last]
  BY DEF FuzzyHit
<1> HIDE DEF row
<1>6. \A k \in Current : k # Nothing
  BY StoreAssumption DEF Current
<1>7. CASE hits = {}
  <2>1. FuzzyHit(c, t) = Nothing
    BY <1>5, <1>7
  <2>2. Promise!Alike(c, t) = {}
    BY <1>2, <1>3, <1>7 DEF ToSet
  <2> QED
    BY <2>1, <2>2
<1>8. CASE hits # {}
  <2>1. \E i \in hits : \A j \in hits : j <= i
    BY <1>4, <1>8, Greatest
  <2>2. last \in hits
    BY <2>1
  <2>3. row[last] \in Current /\ row[last] \in ToSet(row)
    BY <2>2 DEF ToSet
  <2>4. FuzzyHit(c, t) = row[last]
    BY <1>5, <1>8
  <2> QED
    BY <1>2, <1>3, <1>6, <2>3, <2>4
<1> QED
  BY <1>7, <1>8

\* A lookup answers what the abstract map may answer.
LEMMA LookupAnswers ==
  ASSUME StoreInv, NEW t \in Threads
  PROVE  Lookup(t) \in Promise!Answers(t)
<1> DEFINE exacts == {i \in DOMAIN Order : ExactHit(Order[i], t) # Nothing}
           fuzzies == {i \in DOMAIN Order : FuzzyHit(Order[i], t) # Nothing}
           e == CHOOSE i \in exacts : \A j \in exacts : i <= j
           f == CHOOSE i \in fuzzies : \A j \in fuzzies : i <= j
           same == UNION {Promise!Same(Order[i], t) :
                     i \in {j \in 1 .. Len(Order) :
                              \A h \in 1 .. j - 1 : Promise!Same(Order[h], t) = {}}}
           alike == UNION {Promise!Alike(Order[i], t) :
                      i \in {j \in 1 .. Len(Order) :
                               \A h \in 1 .. j - 1 : Promise!Alike(Order[h], t) = {}}}
<1>1. Lookup(t) = IF (IF exacts = {} THEN Nothing ELSE ExactHit(Order[e], t)) # Nothing
                    THEN IF exacts = {} THEN Nothing ELSE ExactHit(Order[e], t)
                    ELSE IF fuzzies = {} THEN Nothing ELSE FuzzyHit(Order[f], t)
  BY DEF Lookup, FirstHit
<1>2. Promise!Answers(t) = IF same # {} THEN same ELSE IF alike # {} THEN alike ELSE {Nothing}
  BY DEF Promise!Answers, Promise!FirstOf
<1>3. exacts \in SUBSET Nat /\ fuzzies \in SUBSET Nat
  BY OrderIndexed
<1>4. CASE exacts # {}
  <2>1. e \in exacts /\ \A j \in exacts : e <= j
    BY <1>3, <1>4, Least
  <2>2. ExactHit(Order[e], t) \in Promise!Same(Order[e], t)
    BY <2>1, OrderIndexed, ExactAnswers
  <2>3. \A h \in 1 .. e - 1 : Promise!Same(Order[h], t) = {}
    BY <2>1, OrderIndexed, ExactAnswers
  <2>4. ExactHit(Order[e], t) \in same
    BY <2>1, <2>2, <2>3, OrderIndexed
  <2> QED
    BY <1>1, <1>2, <1>4, <2>1, <2>4
<1>5. CASE exacts = {} /\ fuzzies # {}
  <2>1. f \in fuzzies /\ \A j \in fuzzies : f <= j
    BY <1>3, <1>5, Least
  <2>2. FuzzyHit(Order[f], t) \in Promise!Alike(Order[f], t)
    BY <2>1, OrderIndexed, FuzzyAnswers
  <2>3. \A h \in 1 .. f - 1 : Promise!Alike(Order[h], t) = {}
    BY <2>1, OrderIndexed, FuzzyAnswers
  <2>4. FuzzyHit(Order[f], t) \in alike
    BY <2>1, <2>2, <2>3, OrderIndexed
  <2>5. same = {}
    BY <1>5, OrderIndexed, ExactAnswers
  <2> QED
    BY <1>1, <1>2, <1>5, <2>1, <2>4, <2>5
<1>6. CASE exacts = {} /\ fuzzies = {}
  <2>1. same = {} /\ alike = {}
    BY <1>6, OrderIndexed, ExactAnswers, FuzzyAnswers
  <2> QED
    BY <1>1, <1>2, <1>6, <2>1
<1> QED
  BY <1>4, <1>5, <1>6

LEMMA StepImplements ==
  StoreInv /\ [Next \/ RotationNext]_storeVars => [Promise!Next]_(Promise!mapVars)
<1> SUFFICES ASSUME StoreInv, [Next \/ RotationNext]_storeVars
             PROVE  Promise!Next \/ UNCHANGED <<Current, found>>
  BY DEF Promise!mapVars
<1>1. Promise!Holders = ClientIds
  BY OrderIndexed DEF Promise!Holders, ClientIds, ToSet
<1>2. ASSUME NEW k \in Keys, NEW ch \in Chats, NEW tag \in Tags, Store(k, ch, tag)
      PROVE  Promise!Next
  <2>1. tag \in (Scopes \cup {Nothing}) \X BOOLEAN
    BY StoreAssumption
  <2>2. Promise!Keep(k)
    BY <1>2, <2>1, StoreKeeps DEF Promise!Keep
  <2>3. k \in Promise!Holders \X Threads
    BY <1>1 DEF Keys
  <2> QED
    BY <2>2, <2>3 DEF Promise!Next
<1>3. ASSUME NEW t \in Threads, Find(t)
      PROVE  Promise!Next
  BY <1>3, FindKeeps, LookupAnswers DEF Promise!Next, Promise!Ask
<1>4. ASSUME NEW gone, Removes(gone)
      PROVE  Promise!Next
  <2>1. Promise!Drop(Current \cap gone)
    BY <1>4, RemovesKeeps DEF Promise!Drop
  <2> QED
    BY <2>1 DEF Promise!Next
<1> QED
  BY <1>2, <1>3, <1>4, StepIs, TickKeeps, AsideStays

LEMMA InitImplements == Init => Promise!Init
<1> SUFFICES ASSUME Init PROVE Promise!Init
  OBVIOUS
<1>1. Current = {}
  BY StoreInit DEF StoreInv, Init
<1> QED
  BY <1>1 DEF Init, Promise!Init

\* LMDBConversationStore answers like a plain map of conversations: a lookup
\* returns the record itself where a client has it, else one that reads alike, and
\* nothing only when there is neither.
THEOREM StoreIsTheMap == RotatedSpec => PromiseKept
<1> QED
  BY InitImplements, StepImplements, StoreInvariant, PTL DEF RotatedSpec, PromiseKept, Promise!Spec
=============================================================================
