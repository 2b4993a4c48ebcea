---------------------------- MODULE ProductCache ----------------------------
(***************************************************************************)
(* Reads of products through Redis: ListProducts and GetProduct of         *)
(* internal/service/product.go over internal/cache/product.go, and what a  *)
(* handler that wrote a product does to the cache after its COMMIT.        *)
(*                                                                         *)
(* One product is modelled: details have a key each, and a list shows its  *)
(* products independently.  A version stands for the content of the row.   *)
(* Every call of Redis may fail, and the service goes on as if the entry   *)
(* were missing, or set, or deleted.                                       *)
(***************************************************************************)
EXTENDS Integers, FiniteSets

CONSTANTS
  Reader,      \* GetProduct and ListProducts requests that run at a time
  Writer,      \* requests between their COMMIT and their answer
  ListKey,     \* keys of lists that show the product: one per normalized query
  NoEntry,
  NoVersion,
  ListTTL,     \* productListCacheTTL, in units of time
  DetailTTL,   \* productDetailCacheTTL
  MaxFill,     \* the longest time from the query of a reader to its SET
  MaxVersion   \* bound: how often the product is written

ASSUME CacheAssumption ==
  /\ ListTTL \in Nat /\ DetailTTL \in Nat /\ MaxFill \in Nat /\ MaxVersion \in Nat
  /\ ListTTL <= DetailTTL
  /\ "detail" \notin ListKey

VARIABLES
  version,     \* the committed version of the row; 0: not created yet
  gone,        \* versions with a deleted_at
  age,         \* age[v]: the time since version v was replaced
  entry,       \* entry[k]: what Redis holds under key k
  reader,      \* reader[r]: a request that missed
  writer,      \* writer[w]: the keys a committed request has still to delete
  answer,      \* the answer of a reader in this step
  missed       \* a write was not followed by all its invalidations

cacheVars == <<version, gone, age, entry, reader, writer, answer, missed>>

\* The keys that show the product.
Key == ListKey \cup {"detail"}

TTL(k) == IF k = "detail" THEN DetailTTL ELSE ListTTL
MaxAge == DetailTTL + MaxFill + 1

Version == 0..MaxVersion
NoRead == [pc |-> "idle", key |-> "detail", version |-> NoVersion, time |-> 0]
NoWrite == [pc |-> "idle", todo |-> {}, keys |-> {}]
NobodyReads == [key |-> "detail", version |-> NoVersion]

\* What Redis holds under a key; a request that missed; a committed request.
CacheEntry == [version : Version, left : 0..DetailTTL, crossed : BOOLEAN]
ReaderState ==
  [pc : {"idle", "read", "fill"}, key : Key, version : Version \cup {NoVersion},
   time : 0..MaxFill]
WriterState ==
  [pc : {"idle", "scan", "lists", "detail"}, todo : SUBSET ListKey, keys : SUBSET Key]

ASSUME NoEntryAssumption == NoEntry \notin CacheEntry

CacheTypeOK ==
  /\ version \in Version
  /\ gone \in SUBSET Version
  /\ age \in [Version -> 0..MaxAge]
  /\ entry \in [Key -> CacheEntry \cup {NoEntry}]
  /\ reader \in [Reader -> ReaderState]
  /\ writer \in [Writer -> WriterState]
  /\ answer \in [key : Key, version : Version \cup {NoVersion}]
  /\ missed \in BOOLEAN

CacheInit ==
  /\ version = 0
  /\ gone = {0}
  /\ age = [v \in Version |-> 0]
  /\ entry = [k \in Key |-> NoEntry]
  /\ reader = [r \in Reader |-> NoRead]
  /\ writer = [w \in Writer |-> NoWrite]
  /\ answer = NobodyReads
  /\ missed = FALSE

-----------------------------------------------------------------------------
(***************************************************************************)
(* Readers.                                                                *)
(***************************************************************************)

Answers(k, v) == answer' = [key |-> k, version |-> v]

\* A hit: the entry as it was set.  Faulty: a hit prolongs the entry.
EntryProlonged(k) == [entry EXCEPT ![k].left = TTL(k)]
EntryAfterHit(k) == entry

Hit(k) ==
  /\ entry[k] # NoEntry
  /\ entry' = EntryAfterHit(k)
  /\ Answers(k, entry[k].version)
  /\ UNCHANGED <<version, gone, age, reader, writer, missed>>

\* A miss, or Redis fails.
Miss(r, k) ==
  /\ reader[r].pc = "idle"
  /\ reader' = [reader EXCEPT ![r] = [NoRead EXCEPT !.pc = "read", !.key = k]]
  /\ answer' = NobodyReads
  /\ UNCHANGED <<version, gone, age, entry, writer, missed>>

\* ListProducts and GetProductByID: a deleted or missing product has no detail
\* to set; a list without it is set like any other.
Sets(k) == k = "detail" => version \notin gone

ReadRow(r) ==
  /\ reader[r].pc = "read"
  /\ LET k == reader[r].key
     IN  IF Sets(k)
         THEN /\ reader' = [reader EXCEPT ![r].pc = "fill", ![r].version = version]
              /\ answer' = NobodyReads
         ELSE /\ reader' = [reader EXCEPT ![r] = NoRead]
              /\ Answers(k, version)
  /\ UNCHANGED <<version, gone, age, entry, writer, missed>>

\* SET with a TTL, whatever happened since the query; then the answer.
Fill(r) ==
  /\ reader[r].pc = "fill"
  /\ LET k == reader[r].key
         v == reader[r].version
     IN  /\ \/ entry' = [entry EXCEPT ![k] =
                  [version |-> v, left |-> TTL(k), crossed |-> v # version]]
            \/ UNCHANGED entry   \* Redis fails
         /\ Answers(k, v)
  /\ reader' = [reader EXCEPT ![r] = NoRead]
  /\ UNCHANGED <<version, gone, age, writer, missed>>

-----------------------------------------------------------------------------
(***************************************************************************)
(* Writers.                                                                *)
(***************************************************************************)

Commits(deletes) ==
  /\ version < MaxVersion
  /\ version' = version + 1
  /\ gone' = IF deletes THEN gone \cup {version + 1} ELSE gone
  /\ answer' = NobodyReads
  /\ UNCHANGED <<age, entry, reader>>

\* The keys that a handler deletes after its COMMIT.  Faulty: only the lists.
KeysListsOnly == ListKey
KeysAfterCreate == ListKey
KeysAfterWrite == Key

\* CreateProduct; UpdateProduct, UpdateProductStatus and RestoreProduct;
\* DeleteProduct.
CommitProduct(w) ==
  /\ writer[w].pc = "idle"
  /\ \E deletes \in BOOLEAN :
       /\ version = 0 => ~deletes
       /\ deletes => version \notin gone
       /\ Commits(deletes)
  /\ writer' = [writer EXCEPT ![w] =
       [pc |-> "scan", todo |-> {},
        keys |-> IF version = 0 THEN KeysAfterCreate ELSE KeysAfterWrite]]
  /\ UNCHANGED missed

\* A checkout, a cancellation or a completion writes stock or total_sold: the
\* order service knows nothing of the cache.
CommitOrder ==
  /\ version # 0
  /\ version < MaxVersion
  /\ version' = version + 1
  /\ gone' = IF version \in gone THEN gone \cup {version + 1} ELSE gone
  /\ missed' = TRUE
  /\ answer' = NobodyReads
  /\ UNCHANGED <<age, entry, reader, writer>>

\* InvalidateProductLists: SCAN finds the lists that are there ...
ScanLists(w) ==
  /\ writer[w].pc = "scan"
  /\ writer' = [writer EXCEPT ![w].pc = "lists",
                              ![w].todo = {k \in ListKey : entry[k] # NoEntry}]
  /\ answer' = NobodyReads
  /\ UNCHANGED <<version, gone, age, entry, reader, missed>>

\* ... and DEL deletes what it found.
DeleteLists(w) ==
  /\ writer[w].pc = "lists"
  /\ entry' = [k \in Key |-> IF k \in writer[w].todo THEN NoEntry ELSE entry[k]]
  /\ writer' = [writer EXCEPT ![w] =
       IF "detail" \in writer[w].keys
       THEN [pc |-> "detail", todo |-> {}, keys |-> {"detail"}]
       ELSE NoWrite]
  /\ answer' = NobodyReads
  /\ UNCHANGED <<version, gone, age, reader, missed>>

\* InvalidateProductDetail.
DeleteDetail(w) ==
  /\ writer[w].pc = "detail"
  /\ entry' = [entry EXCEPT !["detail"] = NoEntry]
  /\ writer' = [writer EXCEPT ![w] = NoWrite]
  /\ answer' = NobodyReads
  /\ UNCHANGED <<version, gone, age, reader, missed>>

\* Redis fails: the service goes on to the detail, or ends.
InvalidationFails(w) ==
  /\ writer[w].pc # "idle"
  /\ writer' = [writer EXCEPT ![w] =
       IF writer[w].pc # "detail" /\ "detail" \in writer[w].keys
       THEN [pc |-> "detail", todo |-> {}, keys |-> {"detail"}]
       ELSE NoWrite]
  /\ missed' = TRUE
  /\ answer' = NobodyReads
  /\ UNCHANGED <<version, gone, age, entry, reader>>

\* The server dies after the COMMIT.
WriterDies(w) ==
  /\ writer[w].pc # "idle"
  /\ writer' = [writer EXCEPT ![w] = NoWrite]
  /\ missed' = TRUE
  /\ answer' = NobodyReads
  /\ UNCHANGED <<version, gone, age, entry, reader>>

-----------------------------------------------------------------------------
\* A unit of time passes: entries whose TTL is over are gone.  No reader takes
\* longer than MaxFill for its SET.
OneOlder(n) == IF n < MaxAge THEN n + 1 ELSE n

CacheTime ==
  /\ \A r \in Reader : reader[r].pc = "fill" => reader[r].time < MaxFill
  /\ age' = [v \in Version |-> IF v < version THEN OneOlder(age[v]) ELSE 0]
  /\ entry' = [k \in Key |->
       IF entry[k] = NoEntry \/ entry[k].left = 0
       THEN NoEntry
       ELSE [entry[k] EXCEPT !.left = @ - 1]]
  /\ reader' = [r \in Reader |->
       IF reader[r].pc = "fill" THEN [reader[r] EXCEPT !.time = @ + 1] ELSE reader[r]]
  /\ answer' = NobodyReads
  /\ UNCHANGED <<version, gone, writer, missed>>

\* Redis evicts an entry, or a write to another product deletes a list.
Evict(k) ==
  /\ entry[k] # NoEntry
  /\ entry' = [entry EXCEPT ![k] = NoEntry]
  /\ answer' = NobodyReads
  /\ UNCHANGED <<version, gone, age, reader, writer, missed>>

CacheNext ==
  \/ \E k \in Key : Hit(k) \/ Evict(k)
  \/ \E r \in Reader : (\E k \in Key : Miss(r, k)) \/ ReadRow(r) \/ Fill(r)
  \/ \E w \in Writer :
       \/ CommitProduct(w)
       \/ ScanLists(w)
       \/ DeleteLists(w)
       \/ DeleteDetail(w)
       \/ InvalidationFails(w)
       \/ WriterDies(w)
  \/ CommitOrder
  \/ CacheTime

CacheSpec == CacheInit /\ [][CacheNext]_cacheVars

-----------------------------------------------------------------------------
(***************************************************************************)
(* Properties.                                                             *)
(***************************************************************************)

\* What customers read is at most a TTL and a fill out of date, even if every
\* invalidation fails and fills cross writes: price and stock in a list for
\* five minutes, in a detail for ten.
AnswerOf(keys) == IF answer.key \in keys THEN answer.version ELSE NoVersion

Lists == INSTANCE RecentReads WITH
  Staleness <- ListTTL + MaxFill, NoAnswer <- NoVersion, answer <- AnswerOf(ListKey)
Details == INSTANCE RecentReads WITH
  Staleness <- DetailTTL + MaxFill, NoAnswer <- NoVersion, answer <- AnswerOf({"detail"})

ReadsAreRecent == Lists!RecentSpec /\ Details!RecentSpec

\* While Redis answers and only product handlers write, an entry older than
\* the row is about to be deleted, or a fill that crossed the write set it
\* after the deletion.  A product that did not exist has no entry to delete.
Pending(k) ==
  \E w \in Writer :
    \/ writer[w].pc = "scan" /\ k \in writer[w].keys
    \/ writer[w].pc = "lists" /\ (k \in writer[w].todo \/ k \in writer[w].keys \ ListKey)
    \/ writer[w].pc = "detail" /\ k = "detail"

StaleOnlyIfCrossed ==
  \A k \in Key :
    entry[k] # NoEntry /\ entry[k].version # version
      => Pending(k) \/ entry[k].crossed \/ missed
=============================================================================
