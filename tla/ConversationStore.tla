-------------------------- MODULE ConversationStore --------------------------
(***************************************************************************)
(* The LMDB conversation store: records keyed by an exact hash of client,  *)
(* model and messages, an exact and a fuzzy lookup index, the queue of     *)
(* chats to delete from Google, the retention pass and the maintenance     *)
(* command that rotates the same database from a process of its own.       *)
(*                                                                         *)
(* The server runs every operation on its event loop and none awaits, so   *)
(* each is one action; a transaction commits or aborts as a whole.  The    *)
(* maintenance command reads in one transaction and writes in another.     *)
(* A failed transaction changes nothing and is a stuttering step.          *)
(***************************************************************************)
EXTENDS Integers, Sequences, FiniteSets, SequencesExt

CONSTANTS
  Order,       \* ids of the configured clients, in order
  Threads,     \* message lists with their model
  FuzzyOf,     \* the fuzzy hash of each thread
  LegacyKeys,  \* keys written under a superseded INDEX_VERSION
  Chats,       \* chats at Google
  Owner,       \* the client each chat belongs to
  Ttl,         \* auto_delete_ttl, in ticks
  Retention,   \* retention_days, in ticks; 0 keeps conversations forever
  MaxAge,      \* ages are counted up to here
  MaxRetries,  \* attempts at one remote deletion
  Scopes,      \* ephemeral windows a chat may belong to
  Tags,        \* <<chat_scope, stored in auto_delete mode>> of the records stored
  Nothing

ClientIds == ToSet(Order)
Keys      == ClientIds \X Threads
Rows      == ClientIds \X {FuzzyOf[t] : t \in Threads}

Record == [chat : Chats, scope : Scopes \cup {Nothing}, auto : BOOLEAN,
           age : 0 .. MaxAge]

ASSUME StoreAssumption ==
  /\ Order \in Seq(ClientIds)
  /\ \A ch \in Chats : Owner[ch] \in ClientIds
  /\ LegacyKeys \cap Keys = {}
  /\ Tags \subseteq (Scopes \cup {Nothing}) \X BOOLEAN
  /\ Ttl \in 1 .. MaxAge /\ Retention \in 0 .. MaxAge
  /\ MaxAge \in Nat /\ MaxRetries \in Nat \ {0}
  /\ Nothing \notin Record /\ Nothing \notin Keys /\ Nothing \notin Scopes

VARIABLES
  records,   \* the record under each key, or Nothing
  exact,     \* keys the exact index lists, each in the row of its own hash
  fuzzy,     \* the fuzzy index: the keys each row lists, oldest first
  staleRows, \* index rows of the superseded version
  pruned,    \* the marker that the sweep ran for this version
  pending,   \* chats with a pending_del: marker
  attempts,  \* failed attempts the marker counts
  found,     \* key of the conversation the last lookup returned
  rotation   \* what the maintenance command read, until it has written

storeVars == <<records, exact, fuzzy, staleRows, pruned, pending, attempts,
               found, rotation>>

Stored == {k \in Keys \cup LegacyKeys : records[k] # Nothing}
Current == {k \in Keys : records[k] # Nothing}
RowOf(k) == <<k[1], FuzzyOf[k[2]]>>

-----------------------------------------------------------------------------
(* Storing and looking up. *)

\* Slip: the row is written with the new key alone.
ListReplaces(row, k) == <<k>>

\* _update_index: append the key unless the row lists it.
List(row, k) == IF Contains(row, k) THEN row ELSE Append(row, k)

Store(k, chat, tag) ==
  /\ records' = [records EXCEPT ![k] =
       [chat |-> chat, scope |-> tag[1], auto |-> tag[2], age |-> 0]]
  /\ exact' = exact \cup {k}
  /\ fuzzy' = [fuzzy EXCEPT ![RowOf(k)] = List(@, k)]
  /\ UNCHANGED <<staleRows, pruned, pending, attempts, found, rotation>>

\* The newest entry of the fuzzy row whose record is there; rows are read backwards.
FuzzyHit(c, t) ==
  LET row  == fuzzy[<<c, FuzzyOf[t]>>]
      hits == {i \in DOMAIN row : row[i] \in Current}
  IN IF hits = {} THEN Nothing ELSE row[CHOOSE i \in hits : \A j \in hits : j <= i]

\* The exact pass ends with a direct get of the hash, so its index decides nothing.
ExactHit(c, t) == IF records[<<c, t>>] # Nothing THEN <<c, t>> ELSE Nothing

FirstHit(Hit(_)) ==
  LET hits == {i \in DOMAIN Order : Hit(Order[i]) # Nothing}
  IN IF hits = {} THEN Nothing
                  ELSE Hit(Order[CHOOSE i \in hits : \A j \in hits : i <= j])

Lookup(t) ==
  LET same == FirstHit(LAMBDA c : ExactHit(c, t))
  IN IF same # Nothing THEN same ELSE FirstHit(LAMBDA c : FuzzyHit(c, t))

Find(t) ==
  /\ found' = Lookup(t)
  /\ UNCHANGED <<records, exact, fuzzy, staleRows, pruned, pending, attempts,
                 rotation>>

-----------------------------------------------------------------------------
(* Deleting. *)

\* A row of the index without these keys, the others in their order.
Without(row, gone) ==
  LET rest == {i \in DOMAIN row : row[i] \notin gone}
      rank == [i \in rest |-> Cardinality({h \in rest : h <= i})]
  IN [j \in 1 .. Cardinality(rest) |-> row[CHOOSE i \in rest : rank[i] = j]]

\* Slip: the records go, their fuzzy entries stay.
RemoveExactOnly(gone) ==
  /\ records' = [k \in DOMAIN records |-> IF k \in gone THEN Nothing ELSE records[k]]
  /\ exact' = exact \ gone
  /\ UNCHANGED fuzzy

\* The records under these keys and their entries in both indexes.  A legacy key
\* is listed in no row of the current version.
RemoveRecords(gone) ==
  /\ records' = [k \in DOMAIN records |-> IF k \in gone THEN Nothing ELSE records[k]]
  /\ exact' = exact \ gone
  /\ fuzzy' = [row \in DOMAIN fuzzy |-> Without(fuzzy[row], gone)]

\* Google rejected the chat of the stored conversation.
Evict(k) ==
  /\ k \in Stored
  /\ RemoveRecords({k})
  /\ UNCHANGED <<staleRows, pruned, pending, attempts, found, rotation>>

-----------------------------------------------------------------------------
(* Retention. *)

Cutoff(record, ttl, retention) == IF record.auto THEN ttl ELSE retention

\* The keys whose record was last updated before the cutoff for its kind.
Expired(ttl, retention) ==
  {k \in Stored : LET cutoff == Cutoff(records[k], ttl, retention)
                  IN cutoff # 0 /\ records[k].age >= cutoff}

\* Slip: a chat is staged although a newer turn of it is still kept.
ToDeleteAll(expired) ==
  {records[k].chat : k \in {x \in expired : records[x].auto /\ records[x].scope = Nothing}}

\* The account's auto_delete chats of these records that no other record holds.
ToDelete(expired) ==
  {records[k].chat : k \in {x \in expired : records[x].auto /\ records[x].scope = Nothing}}
    \ {records[k].chat : k \in Stored \ expired}

\* The write transaction: delete what is still there, put every marker anew.
Purge(expired, chats) ==
  /\ RemoveRecords(expired)
  /\ pending' = pending \cup chats
  /\ attempts' = [ch \in Chats |-> IF ch \in chats THEN 0 ELSE attempts[ch]]
  /\ UNCHANGED <<staleRows, pruned, found>>

\* One pass of the retention task; without expired records it writes nothing.
CleanupExpired ==
  LET expired == Expired(Ttl, Retention)
  IN /\ expired # {}
     /\ Purge(expired, ToDelete(expired))
     /\ UNCHANGED rotation

\* rotate_lmdb keep: cleanup_before, from another process.
RotationReads(cutoff) ==
  /\ rotation = Nothing
  /\ LET expired == Expired(cutoff, cutoff)
     IN /\ expired # {}
        /\ rotation' = [expired |-> expired, chats |-> ToDelete(expired)]
  /\ UNCHANGED <<records, exact, fuzzy, staleRows, pruned, pending, attempts, found>>

RotationWrites ==
  /\ rotation # Nothing
  /\ Purge(rotation.expired, rotation.chats)
  /\ rotation' = Nothing

\* rotate_lmdb all: every entry goes, the markers too.
Clear ==
  /\ rotation = Nothing
  /\ RemoveRecords(Stored)
  /\ staleRows' = {} /\ pruned' = FALSE
  /\ pending' = {} /\ attempts' = [ch \in Chats |-> 0]
  /\ UNCHANGED <<found, rotation>>

-----------------------------------------------------------------------------
(* The queue of remote deletions. *)

\* The deletion was acknowledged, or given up.
Unmark(ch) ==
  /\ pending' = pending \ {ch}
  /\ attempts' = [attempts EXCEPT ![ch] = 0]
  /\ UNCHANGED <<records, exact, fuzzy, staleRows, pruned, found, rotation>>

RemovePending(ch) == ch \in pending /\ Unmark(ch)

\* Slip: the last attempt is only recognised when it is over.
LastAttemptLate(ch) == attempts[ch] + 1 > MaxRetries

\* One more failure is the last this deletion may have.
LastAttempt(ch) == attempts[ch] + 1 >= MaxRetries

RecordFailure(ch) ==
  /\ ch \in pending
  /\ IF LastAttempt(ch)
       THEN Unmark(ch)
       ELSE /\ attempts' = [attempts EXCEPT ![ch] = @ + 1]
            /\ UNCHANGED <<records, exact, fuzzy, staleRows, pruned, pending,
                           found, rotation>>

-----------------------------------------------------------------------------
(* Start-up and time. *)

PruneStaleIndexes ==
  /\ ~pruned
  /\ staleRows' = {}
  /\ pruned' = TRUE
  /\ UNCHANGED <<records, exact, fuzzy, pending, attempts, found, rotation>>

\* Every record grows older.
Tick ==
  /\ \E k \in Stored : records[k].age < MaxAge
  /\ records' =
       [k \in DOMAIN records |->
          IF records[k] # Nothing /\ records[k].age < MaxAge
            THEN [records[k] EXCEPT !.age = @ + 1]
            ELSE records[k]]
  /\ UNCHANGED <<exact, fuzzy, staleRows, pruned, pending, attempts, found, rotation>>

-----------------------------------------------------------------------------
\* A fresh database, or one an older version left behind.
Init ==
  /\ \E old \in {{}, LegacyKeys}, ch \in Chats :
       /\ records = [k \in Keys \cup LegacyKeys |->
            IF k \in old THEN [chat |-> ch, scope |-> Nothing, auto |-> FALSE, age |-> 0] ELSE Nothing]
       /\ staleRows = old
  /\ exact = {} /\ fuzzy = [row \in Rows |-> <<>>]
  /\ pruned = FALSE
  /\ pending = {} /\ attempts = [ch \in Chats |-> 0]
  /\ found = Nothing
  /\ rotation = Nothing

ServerNext ==
  \/ \E k \in Keys, ch \in Chats, tag \in Tags : Owner[ch] = k[1] /\ Store(k, ch, tag)
  \/ \E t \in Threads : Find(t)
  \/ \E k \in Keys : Evict(k)
  \/ CleanupExpired
  \/ \E ch \in Chats : RemovePending(ch) \/ RecordFailure(ch)
  \/ PruneStaleIndexes

RotationNext == (\E cutoff \in 1 .. MaxAge : RotationReads(cutoff)) \/ RotationWrites \/ Clear

Next == ServerNext \/ Tick

Spec == Init /\ [][Next]_storeVars

\* The server with the maintenance command beside it.
RotatedSpec == Init /\ [][Next \/ RotationNext]_storeVars

-----------------------------------------------------------------------------
(* Properties. *)

TypeOK ==
  /\ records \in [Keys \cup LegacyKeys -> Record \cup {Nothing}]
  /\ exact \subseteq Keys
  /\ fuzzy \in [Rows -> Seq(Keys)]
  /\ staleRows \subseteq LegacyKeys /\ pruned \in BOOLEAN
  /\ pending \subseteq Chats
  /\ attempts \in [Chats -> 0 .. MaxRetries - 1]
  /\ \A ch \in Chats \ pending : attempts[ch] = 0

\* Both indexes list exactly the current records, each once and in its own row:
\* nothing stored is unreachable and no entry dangles, whatever was stored,
\* stored again, evicted, expired or rotated.
IndexesAgree ==
  /\ exact = Current
  /\ \A row \in Rows :
       /\ ToSet(fuzzy[row]) = {k \in Current : RowOf(k) = row}
       /\ Len(fuzzy[row]) = Cardinality(ToSet(fuzzy[row]))

\* A chat is queued for deletion from Google only when no record of it is left:
\* an older turn that expires does not take down a chat a newer turn keeps alive.
StagedIsUnreferenced ==
  [][\A ch \in pending' \ pending : \A k \in Stored' : records'[k].chat # ch]_storeVars

Promise == INSTANCE ConversationMap WITH kept <- Current

\* The store answers as the plain map of conversations it promises to be.
PromiseKept == Promise!Spec
=============================================================================
