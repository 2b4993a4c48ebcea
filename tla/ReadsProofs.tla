---------------------------- MODULE ReadsProofs ----------------------------
(***************************************************************************)
(* What holds of the two caches, ProductCache and SigningKeys, for every   *)
(* number of readers, writers, keys and versions and for every time to     *)
(* live: both implement RecentReads; an entry of a product is older than   *)
(* its row only for one of three reasons; and a token whose key was        *)
(* published throughout is refused for one reason only.                    *)
(***************************************************************************)
EXTENDS ProductCache, SigningKeys, TLAPS

-----------------------------------------------------------------------------
(***************************************************************************)
(* The product cache: the inductive invariant.                             *)
(***************************************************************************)

\* Only replaced versions age.
CurrentIsNew == \A v \in version..MaxVersion : age[v] = 0

\* A reader that fills has read a version, no longer ago than it takes.
FillsAreRecent ==
  \A r \in Reader :
    reader[r].pc = "fill" =>
      /\ reader[r].version \in 0..version
      /\ age[reader[r].version] <= reader[r].time
      /\ reader[r].key = "detail" => reader[r].version # 0

\* An entry that was out of date when it was set, or is now, goes in time.
EntriesAreRecent ==
  \A k \in Key :
    entry[k] # NoEntry =>
      /\ entry[k].version \in 0..version
      /\ age[entry[k].version] + entry[k].left <= TTL(k) + MaxFill
      /\ k = "detail" => entry[k].version # 0

CacheInv ==
  /\ CacheTypeOK
  /\ 0 \in gone
  /\ CurrentIsNew
  /\ FillsAreRecent
  /\ EntriesAreRecent
  /\ StaleOnlyIfCrossed

\* The times to live, as numbers.
LEMMA CacheNumbers ==
  /\ ListTTL \in Nat /\ DetailTTL \in Nat /\ MaxFill \in Nat /\ MaxVersion \in Nat
  /\ \A k \in Key : TTL(k) \in 0..DetailTTL
  /\ "detail" \in Key /\ ListKey \subseteq Key /\ "detail" \notin ListKey
BY CacheAssumption DEF TTL, Key

LEMMA NoReadIsTyped == NoRead \in ReaderState /\ NoRead.pc = "idle"
BY CacheNumbers DEF NoRead, ReaderState

LEMMA NobodyIsTyped == NobodyReads \in [key : Key, version : Version \cup {NoVersion}]
BY CacheNumbers DEF NobodyReads

LEMMA CacheInvInit == CacheInit => CacheInv
<1> SUFFICES ASSUME CacheInit
             PROVE  CacheInv
  OBVIOUS
<1>1. CacheTypeOK
  <2>1. 0 \in Version /\ 0 \in 0..MaxAge /\ 0 \in 0..MaxFill
    BY CacheNumbers DEF Version, MaxAge
  <2>2. NoWrite \in WriterState
    BY DEF NoWrite, WriterState
  <2> QED
    BY <2>1, <2>2, NoReadIsTyped, NobodyIsTyped DEF CacheInit, CacheTypeOK
<1>2. CurrentIsNew
  BY CacheNumbers DEF CacheInit, CurrentIsNew, Version
<1>3. FillsAreRecent /\ EntriesAreRecent /\ StaleOnlyIfCrossed
  BY DEF CacheInit, FillsAreRecent, EntriesAreRecent, StaleOnlyIfCrossed, NoRead
<1> QED
  BY <1>1, <1>2, <1>3 DEF CacheInv, CacheInit

-----------------------------------------------------------------------------
(***************************************************************************)
(* The steps of readers.                                                   *)
(***************************************************************************)

\* Steps that neither write the row nor change an entry, a writer or missed.
LEMMA ReaderSteps ==
  ASSUME CacheInv, UNCHANGED <<version, gone, age, entry, writer, missed>>
  PROVE  /\ 0 \in gone' /\ CurrentIsNew' /\ EntriesAreRecent' /\ StaleOnlyIfCrossed'
         /\ answer' \in [key : Key, version : Version \cup {NoVersion}]
              /\ reader' \in [Reader -> ReaderState] => CacheTypeOK'
BY DEF CacheInv, CacheTypeOK, CurrentIsNew, EntriesAreRecent, StaleOnlyIfCrossed, Pending

LEMMA HitInv ==
  ASSUME CacheInv, NEW k \in Key, Hit(k)
  PROVE  CacheInv'
<1>1. /\ entry[k] # NoEntry /\ answer' = [key |-> k, version |-> entry[k].version]
      /\ UNCHANGED <<version, gone, age, entry, reader, writer, missed>>
  BY DEF Hit, EntryAfterHit, Answers
<1>2. entry[k].version \in Version
  BY <1>1 DEF CacheInv, CacheTypeOK, CacheEntry
<1>3. CacheTypeOK'
  BY <1>1, <1>2, ReaderSteps DEF CacheInv, CacheTypeOK
<1>4. FillsAreRecent'
  BY <1>1 DEF CacheInv, FillsAreRecent
<1> QED
  BY <1>1, <1>3, <1>4, ReaderSteps DEF CacheInv

\* One reader becomes n.
LEMMA ReaderBecomes ==
  ASSUME CacheInv, NEW r \in Reader, NEW n \in ReaderState,
         n.pc = "fill" =>
           /\ n.version \in 0..version
           /\ age[n.version] <= n.time
           /\ n.key = "detail" => n.version # 0,
         reader' = [reader EXCEPT ![r] = n], UNCHANGED <<version, age>>
  PROVE  FillsAreRecent' /\ reader' \in [Reader -> ReaderState]
<1>1. reader \in [Reader -> ReaderState]
  BY DEF CacheInv, CacheTypeOK
<1>2. \A q \in Reader : reader'[q] = IF q = r THEN n ELSE reader[q]
  BY <1>1
<1> QED
  BY <1>1, <1>2 DEF CacheInv, FillsAreRecent

LEMMA MissInv ==
  ASSUME CacheInv, NEW r \in Reader, NEW k \in Key, Miss(r, k)
  PROVE  CacheInv'
<1> DEFINE n == [NoRead EXCEPT !.pc = "read", !.key = k]
<1>1. n \in ReaderState /\ n.pc = "read"
  BY NoReadIsTyped DEF ReaderState
<1>2. /\ reader' = [reader EXCEPT ![r] = n] /\ answer' = NobodyReads
      /\ UNCHANGED <<version, gone, age, entry, writer, missed>>
  BY DEF Miss
<1> HIDE DEF n
<1>3. FillsAreRecent' /\ reader' \in [Reader -> ReaderState]
  BY <1>1, <1>2, ReaderBecomes
<1> QED
  BY <1>2, <1>3, ReaderSteps, NobodyIsTyped DEF CacheInv

LEMMA ReadRowInv ==
  ASSUME CacheInv, NEW r \in Reader, ReadRow(r)
  PROVE  CacheInv'
<1> DEFINE n == [reader[r] EXCEPT !.pc = "fill", !.version = version]
<1>1. /\ reader[r] \in ReaderState /\ version \in Version
      /\ UNCHANGED <<version, gone, age, entry, writer, missed>>
  BY DEF ReadRow, CacheInv, CacheTypeOK
<1>2. n \in ReaderState /\ n.version = version /\ n.key = reader[r].key
  BY <1>1 DEF ReaderState
<1>3. CASE Sets(reader[r].key)
  <2>1. reader' = [reader EXCEPT ![r] = n] /\ answer' = NobodyReads
    BY <1>3 DEF ReadRow
  <2> HIDE DEF n
  <2>2. version \in 0..version /\ age[version] <= n.time
    <3>1. version \in 0..version /\ age[version] = 0
      BY <1>1, CacheNumbers DEF CacheInv, CurrentIsNew, Version
    <3>2. n.time \in 0..MaxFill
      BY <1>2 DEF ReaderState
    <3> QED
      BY <3>1, <3>2, CacheNumbers
  <2>3. n.key = "detail" => version # 0
    BY <1>2, <1>3 DEF Sets, CacheInv
  <2>4. FillsAreRecent' /\ reader' \in [Reader -> ReaderState]
    BY <1>1, <1>2, <2>1, <2>2, <2>3, ReaderBecomes
  <2> QED
    BY <1>1, <2>1, <2>4, ReaderSteps, NobodyIsTyped DEF CacheInv
<1>4. CASE ~Sets(reader[r].key)
  <2>1. /\ reader' = [reader EXCEPT ![r] = NoRead]
        /\ answer' = [key |-> reader[r].key, version |-> version]
    BY <1>4 DEF ReadRow, Answers
  <2>2. FillsAreRecent' /\ reader' \in [Reader -> ReaderState]
    BY <1>1, <2>1, NoReadIsTyped, ReaderBecomes
  <2>3. answer' \in [key : Key, version : Version \cup {NoVersion}]
    BY <1>1, <2>1 DEF ReaderState
  <2> QED
    BY <1>1, <2>2, <2>3, ReaderSteps DEF CacheInv
<1> QED
  BY <1>3, <1>4

\* The entry a reader sets lives no longer than a TTL after its fill, and is
\* marked if the row was written in between.
LEMMA FillInv ==
  ASSUME CacheInv, NEW r \in Reader, Fill(r)
  PROVE  CacheInv'
<1> DEFINE k == reader[r].key
           v == reader[r].version
           e == [version |-> v, left |-> TTL(k), crossed |-> v # version]
<1>1. /\ reader[r].pc = "fill" /\ answer' = [key |-> k, version |-> v]
      /\ reader' = [reader EXCEPT ![r] = NoRead]
      /\ UNCHANGED <<version, gone, age, writer, missed>>
      /\ entry' = [entry EXCEPT ![k] = e] \/ UNCHANGED entry
  BY DEF Fill, Answers
<1>2. FillsAreRecent' /\ reader' \in [Reader -> ReaderState]
  BY <1>1, NoReadIsTyped, ReaderBecomes
<1>3. k \in Key /\ v \in 0..version /\ version \in 0..MaxVersion /\ reader[r].time \in 0..MaxFill
  BY <1>1 DEF CacheInv, CacheTypeOK, ReaderState, FillsAreRecent, Version
<1>4. v \in Version
  BY <1>3, CacheNumbers DEF Version
<1>5. answer' \in [key : Key, version : Version \cup {NoVersion}]
  BY <1>1, <1>3, <1>4
<1>6. CASE UNCHANGED entry
  BY <1>1, <1>2, <1>5, <1>6, ReaderSteps DEF CacheInv
<1>7. CASE entry' = [entry EXCEPT ![k] = e]
  <2>1. e \in CacheEntry
    BY <1>3, <1>4, CacheNumbers DEF CacheEntry
  <2>2. e.version = v /\ e.left = TTL(k) /\ (e.version # version => e.crossed)
    OBVIOUS
  <2>3. age[v] + TTL(k) <= TTL(k) + MaxFill
    <3>1. age[v] \in Nat
      BY <1>4, CacheNumbers DEF CacheInv, CacheTypeOK, MaxAge
    <3>2. age[v] <= reader[r].time
      BY <1>1 DEF CacheInv, FillsAreRecent
    <3>3. TTL(k) \in Nat
      BY <1>3, CacheNumbers
    <3> QED
      BY <1>3, <3>1, <3>2, <3>3, CacheNumbers
  <2>4. k = "detail" => v # 0
    BY <1>1 DEF CacheInv, FillsAreRecent
  <2>5. \A j \in Key : entry'[j] = IF j = k THEN e ELSE entry[j]
    BY <1>3, <1>7 DEF CacheInv, CacheTypeOK
  <2> HIDE DEF e, k, v
  <2>6. CacheTypeOK'
    BY <1>1, <1>2, <1>3, <1>5, <1>7, <2>1 DEF CacheInv, CacheTypeOK
  <2>7. EntriesAreRecent'
    BY <1>1, <1>3, <2>2, <2>3, <2>4, <2>5 DEF CacheInv, EntriesAreRecent
  <2>8. StaleOnlyIfCrossed'
    BY <1>1, <2>2, <2>5 DEF CacheInv, StaleOnlyIfCrossed, Pending
  <2>9. CurrentIsNew' /\ 0 \in gone'
    BY <1>1 DEF CacheInv, CurrentIsNew
  <2> QED
    BY <1>2, <2>6, <2>7, <2>8, <2>9 DEF CacheInv
<1> QED
  BY <1>1, <1>6, <1>7

-----------------------------------------------------------------------------
(***************************************************************************)
(* The steps of writers, and evictions.                                    *)
(***************************************************************************)

\* A step that only takes entries away, each of which was pending no longer
\* than its writer.
LEMMA EntriesGo ==
  ASSUME CacheInv,
         entry' \in [Key -> CacheEntry \cup {NoEntry}],
         \A k \in Key : entry'[k] # NoEntry => entry'[k] = entry[k],
         writer' \in [Writer -> WriterState],
         missed' \in BOOLEAN, missed => missed',
         \A k \in Key : entry'[k] # NoEntry /\ Pending(k) => Pending(k)' \/ missed',
         answer' = NobodyReads, UNCHANGED <<version, gone, age, reader>>
  PROVE  CacheInv'
<1>1. CacheTypeOK'
  BY NobodyIsTyped DEF CacheInv, CacheTypeOK
<1>2. 0 \in gone' /\ CurrentIsNew' /\ FillsAreRecent'
  BY DEF CacheInv, CurrentIsNew, FillsAreRecent
<1>3. EntriesAreRecent'
  BY DEF CacheInv, EntriesAreRecent
<1>4. StaleOnlyIfCrossed'
  BY DEF CacheInv, StaleOnlyIfCrossed
<1> QED
  BY <1>1, <1>2, <1>3, <1>4 DEF CacheInv

LEMMA EvictInv ==
  ASSUME CacheInv, NEW k \in Key, Evict(k)
  PROVE  CacheInv'
<1>1. /\ entry' = [entry EXCEPT ![k] = NoEntry] /\ answer' = NobodyReads
      /\ UNCHANGED <<version, gone, age, reader, writer, missed>>
  BY DEF Evict
<1>2. /\ entry \in [Key -> CacheEntry \cup {NoEntry}]
      /\ writer \in [Writer -> WriterState] /\ missed \in BOOLEAN
  BY DEF CacheInv, CacheTypeOK
<1>3. \A j \in Key : entry'[j] # NoEntry => entry'[j] = entry[j]
  BY <1>1, <1>2
<1>4. \A j \in Key : Pending(j)' <=> Pending(j)
  BY <1>1 DEF Pending
<1> QED
  BY <1>1, <1>2, <1>3, <1>4, EntriesGo

LEMMA NoWriteIsTyped == NoWrite \in WriterState
BY DEF NoWrite, WriterState

\* One writer goes on to n, which keeps what it had to delete.
LEMMA WriterGoes ==
  ASSUME CacheInv, NEW w \in Writer, NEW n \in WriterState,
         writer' = [writer EXCEPT ![w] = n], NEW k \in Key,
         writer[w].pc = "scan" /\ k \in writer[w].keys =>
           \/ n.pc = "lists" /\ (k \in n.todo \/ k \in n.keys \ ListKey)
           \/ n.pc = "detail" /\ k = "detail",
         writer[w].pc = "lists" /\ (k \in writer[w].todo \/ k \in writer[w].keys \ ListKey) =>
           n.pc = "detail" /\ k = "detail",
         ~(writer[w].pc = "detail" /\ k = "detail"),
         Pending(k)
  PROVE  Pending(k)'
<1>1. \A u \in Writer : writer'[u] = IF u = w THEN n ELSE writer[u]
  BY DEF CacheInv, CacheTypeOK
<1>2. PICK u \in Writer :
        \/ writer[u].pc = "scan" /\ k \in writer[u].keys
        \/ writer[u].pc = "lists" /\ (k \in writer[u].todo \/ k \in writer[u].keys \ ListKey)
        \/ writer[u].pc = "detail" /\ k = "detail"
  BY DEF Pending
<1> QED
  BY <1>1, <1>2 DEF Pending

LEMMA ScanListsInv ==
  ASSUME CacheInv, NEW w \in Writer, ScanLists(w)
  PROVE  CacheInv'
<1> DEFINE n == [writer[w] EXCEPT !.pc = "lists", !.todo = {k \in ListKey : entry[k] # NoEntry}]
<1>1. /\ writer[w].pc = "scan" /\ writer' = [writer EXCEPT ![w] = n] /\ answer' = NobodyReads
      /\ UNCHANGED <<version, gone, age, entry, reader, missed>>
  BY DEF ScanLists
<1>2. /\ entry \in [Key -> CacheEntry \cup {NoEntry}] /\ missed \in BOOLEAN
      /\ writer \in [Writer -> WriterState]
  BY DEF CacheInv, CacheTypeOK
<1>3. /\ n \in WriterState /\ n.pc = "lists" /\ n.keys = writer[w].keys
      /\ n.todo = {k \in ListKey : entry[k] # NoEntry}
  BY <1>2 DEF WriterState
<1> HIDE DEF n
<1>4. \A k \in Key : entry'[k] # NoEntry /\ Pending(k) => Pending(k)'
  BY <1>1, <1>3, WriterGoes
<1> QED
  BY <1>1, <1>2, <1>3, <1>4, EntriesGo

LEMMA DeleteListsInv ==
  ASSUME CacheInv, NEW w \in Writer, DeleteLists(w)
  PROVE  CacheInv'
<1> DEFINE n == IF "detail" \in writer[w].keys
                THEN [pc |-> "detail", todo |-> {}, keys |-> {"detail"}]
                ELSE NoWrite
<1>1. /\ writer[w].pc = "lists" /\ writer' = [writer EXCEPT ![w] = n] /\ answer' = NobodyReads
      /\ entry' = [k \in Key |-> IF k \in writer[w].todo THEN NoEntry ELSE entry[k]]
      /\ UNCHANGED <<version, gone, age, reader, missed>>
  BY DEF DeleteLists
<1>2. /\ entry \in [Key -> CacheEntry \cup {NoEntry}] /\ missed \in BOOLEAN
      /\ writer \in [Writer -> WriterState]
  BY DEF CacheInv, CacheTypeOK
<1>3. n \in WriterState /\ ("detail" \in writer[w].keys => n.pc = "detail")
  BY CacheNumbers, NoWriteIsTyped DEF WriterState
<1> HIDE DEF n
<1>4. \A k \in Key : entry'[k] # NoEntry /\ Pending(k) => Pending(k)'
  <2> SUFFICES ASSUME NEW k \in Key, entry'[k] # NoEntry, Pending(k)
               PROVE  Pending(k)'
    OBVIOUS
  <2>1. k \notin writer[w].todo
    BY <1>1
  <2>2. k \in writer[w].keys \ ListKey => k = "detail"
    BY DEF Key
  <2> QED
    BY <1>1, <1>3, <2>1, <2>2, WriterGoes
<1>5. /\ entry' \in [Key -> CacheEntry \cup {NoEntry}]
      /\ \A k \in Key : entry'[k] # NoEntry => entry'[k] = entry[k]
  BY <1>1, <1>2
<1> QED
  BY <1>1, <1>2, <1>3, <1>4, <1>5, EntriesGo

LEMMA DeleteDetailInv ==
  ASSUME CacheInv, NEW w \in Writer, DeleteDetail(w)
  PROVE  CacheInv'
<1>1. /\ writer[w].pc = "detail" /\ writer' = [writer EXCEPT ![w] = NoWrite]
      /\ answer' = NobodyReads /\ entry' = [entry EXCEPT !["detail"] = NoEntry]
      /\ UNCHANGED <<version, gone, age, reader, missed>>
  BY DEF DeleteDetail
<1>2. /\ entry \in [Key -> CacheEntry \cup {NoEntry}] /\ missed \in BOOLEAN
      /\ writer \in [Writer -> WriterState]
  BY DEF CacheInv, CacheTypeOK
<1>3. /\ entry' \in [Key -> CacheEntry \cup {NoEntry}]
      /\ \A k \in Key : entry'[k] # NoEntry => entry'[k] = entry[k] /\ k # "detail"
  BY <1>1, <1>2, CacheNumbers
<1>4. \A k \in Key : entry'[k] # NoEntry /\ Pending(k) => Pending(k)'
  BY <1>1, <1>3, NoWriteIsTyped, WriterGoes
<1> QED
  BY <1>1, <1>2, <1>3, <1>4, NoWriteIsTyped, EntriesGo

LEMMA InvalidationLost ==
  ASSUME CacheInv, NEW w \in Writer, InvalidationFails(w) \/ WriterDies(w)
  PROVE  CacheInv'
<1>1. /\ missed' = TRUE /\ answer' = NobodyReads
      /\ UNCHANGED <<version, gone, age, entry, reader>>
  BY DEF InvalidationFails, WriterDies
<1>2. entry \in [Key -> CacheEntry \cup {NoEntry}] /\ writer \in [Writer -> WriterState]
  BY DEF CacheInv, CacheTypeOK
<1>3. [pc |-> "detail", todo |-> {}, keys |-> {"detail"}] \in WriterState
  BY CacheNumbers DEF WriterState
<1>4. writer' \in [Writer -> WriterState]
  BY <1>2, <1>3, NoWriteIsTyped DEF InvalidationFails, WriterDies
<1> QED
  BY <1>1, <1>2, <1>4, EntriesGo

\* A COMMIT leaves ages, entries and readers as they are: what was read before
\* begins to age.
LEMMA RowCommits ==
  ASSUME CacheInv, version < MaxVersion, version' = version + 1,
         gone' \in SUBSET Version, 0 \in gone', UNCHANGED <<age, entry, reader>>,
         writer' \in [Writer -> WriterState], missed' \in BOOLEAN, answer' = NobodyReads
  PROVE  /\ CacheTypeOK' /\ CurrentIsNew' /\ FillsAreRecent' /\ EntriesAreRecent'
         /\ version \in Nat
<1>1. version \in 0..MaxVersion
  BY DEF CacheInv, CacheTypeOK, Version
<1>2. version' \in Version
  BY <1>1, CacheNumbers DEF Version
<1>3. CacheTypeOK'
  BY <1>2, NobodyIsTyped DEF CacheInv, CacheTypeOK
<1>4. \A n \in 0..version : n \in 0..version'
  BY <1>1, CacheNumbers
<1>5. CurrentIsNew'
  <2>1. \A v \in version'..MaxVersion : v \in version..MaxVersion
    BY <1>1, CacheNumbers
  <2> QED
    BY <2>1 DEF CacheInv, CurrentIsNew
<1>6. FillsAreRecent'
  BY <1>4 DEF CacheInv, FillsAreRecent
<1>7. EntriesAreRecent'
  BY <1>4 DEF CacheInv, EntriesAreRecent
<1> QED
  BY <1>1, <1>3, <1>5, <1>6, <1>7

LEMMA CommitOrderInv ==
  ASSUME CacheInv, CommitOrder
  PROVE  CacheInv'
<1>1. /\ version < MaxVersion /\ version' = version + 1 /\ missed' = TRUE
      /\ gone' = (IF version \in gone THEN gone \cup {version + 1} ELSE gone)
      /\ answer' = NobodyReads /\ UNCHANGED <<age, entry, reader, writer>>
  BY DEF CommitOrder
<1>2. gone \in SUBSET Version /\ 0 \in gone /\ writer \in [Writer -> WriterState]
  BY DEF CacheInv, CacheTypeOK
<1>3. version + 1 \in Version
  BY <1>1, CacheNumbers DEF CacheInv, CacheTypeOK, Version
<1>4. gone' \in SUBSET Version /\ 0 \in gone'
  BY <1>1, <1>2, <1>3
<1>5. StaleOnlyIfCrossed'
  BY <1>1 DEF StaleOnlyIfCrossed
<1> QED
  BY <1>1, <1>2, <1>4, <1>5, RowCommits DEF CacheInv

\* The writer is about to delete every entry that its COMMIT outdates.
LEMMA CommitProductInv ==
  ASSUME CacheInv, NEW w \in Writer, CommitProduct(w)
  PROVE  CacheInv'
<1> DEFINE keys == IF version = 0 THEN ListKey ELSE Key
           n == [pc |-> "scan", todo |-> {}, keys |-> keys]
<1>1. PICK deletes \in BOOLEAN : Commits(deletes)
  BY DEF CommitProduct
<1>2. /\ version < MaxVersion /\ version' = version + 1 /\ missed' = missed
      /\ gone' = (IF deletes THEN gone \cup {version + 1} ELSE gone)
      /\ answer' = NobodyReads /\ UNCHANGED <<age, entry, reader>>
  BY <1>1 DEF Commits, CommitProduct
<1>3. writer[w].pc = "idle" /\ writer' = [writer EXCEPT ![w] = n]
  BY DEF CommitProduct, KeysAfterCreate, KeysAfterWrite
<1>4. /\ gone \in SUBSET Version /\ 0 \in gone /\ writer \in [Writer -> WriterState]
      /\ missed \in BOOLEAN
  BY DEF CacheInv, CacheTypeOK
<1>5. version + 1 \in Version
  BY <1>2, CacheNumbers DEF CacheInv, CacheTypeOK, Version
<1>6. gone' \in SUBSET Version /\ 0 \in gone'
  BY <1>2, <1>4, <1>5
<1>7. n \in WriterState
  BY CacheNumbers DEF WriterState
<1>8. /\ CacheTypeOK' /\ CurrentIsNew' /\ FillsAreRecent' /\ EntriesAreRecent'
      /\ version \in Nat
  BY <1>2, <1>3, <1>4, <1>6, <1>7, RowCommits
<1>9. StaleOnlyIfCrossed'
  <2> SUFFICES ASSUME NEW k \in Key, entry[k] # NoEntry
               PROVE  Pending(k)' \/ entry[k].crossed \/ missed
    BY <1>2 DEF StaleOnlyIfCrossed
  <2>1. \A u \in Writer : writer'[u] = IF u = w THEN n ELSE writer[u]
    BY <1>3, <1>4
  <2>2. Pending(k) => Pending(k)'
    BY <1>3, <2>1 DEF Pending
  <2>3. CASE k \in keys
    BY <2>1, <2>3 DEF Pending
  <2>4. CASE k \notin keys
    <3>1. k = "detail" /\ version = 0
      BY <2>4 DEF Key
    <3>2. entry[k].version \in 0..version /\ entry[k].version # 0
      BY <3>1 DEF CacheInv, EntriesAreRecent
    <3> QED
      BY <3>1, <3>2
  <2> QED
    BY <2>3, <2>4
<1> QED
  BY <1>6, <1>8, <1>9 DEF CacheInv

-----------------------------------------------------------------------------
(***************************************************************************)
(* Time, and the invariant.                                                *)
(***************************************************************************)

\* What an age becomes.
LEMMA OlderByOne ==
  ASSUME CacheInv, CacheTime, NEW v \in 0..version
  PROVE  /\ age[v] \in 0..MaxAge /\ age'[v] \in 0..MaxAge
         /\ age'[v] <= age[v] + 1
         /\ v = version => age'[v] = 0
<1>1. version \in Nat /\ v \in Version /\ v \in Nat /\ MaxAge \in Nat
  BY CacheNumbers DEF CacheInv, CacheTypeOK, Version, MaxAge
<1>2. age[v] \in 0..MaxAge
  BY <1>1 DEF CacheInv, CacheTypeOK
<1>3. age'[v] = IF v < version THEN OneOlder(age[v]) ELSE 0
  BY <1>1 DEF CacheTime
<1> QED
  BY <1>1, <1>2, <1>3 DEF OneOlder

LEMMA CacheTimeInv ==
  ASSUME CacheInv, CacheTime
  PROVE  CacheInv'
<1>1. /\ \A r \in Reader : reader[r].pc = "fill" => reader[r].time < MaxFill
      /\ age' = [v \in Version |-> IF v < version THEN OneOlder(age[v]) ELSE 0]
      /\ entry' = [k \in Key |-> IF entry[k] = NoEntry \/ entry[k].left = 0
                                THEN NoEntry ELSE [entry[k] EXCEPT !.left = @ - 1]]
      /\ reader' = [r \in Reader |-> IF reader[r].pc = "fill"
                                    THEN [reader[r] EXCEPT !.time = @ + 1] ELSE reader[r]]
      /\ answer' = NobodyReads /\ UNCHANGED <<version, gone, writer, missed>>
  BY DEF CacheTime
<1>2. /\ version \in 0..MaxVersion /\ MaxAge \in Nat
      /\ entry \in [Key -> CacheEntry \cup {NoEntry}] /\ reader \in [Reader -> ReaderState]
  BY CacheNumbers DEF CacheInv, CacheTypeOK, Version, MaxAge
<1>3. \A k \in Key : entry'[k] # NoEntry =>
        /\ entry[k] \in CacheEntry /\ entry'[k] \in CacheEntry
        /\ entry'[k].version = entry[k].version /\ entry'[k].crossed = entry[k].crossed
        /\ entry'[k].left = entry[k].left - 1 /\ entry[k].left \in Nat
  <2> SUFFICES ASSUME NEW k \in Key, entry'[k] # NoEntry
               PROVE  /\ entry[k] \in CacheEntry /\ entry'[k] \in CacheEntry
                      /\ entry'[k].version = entry[k].version
                      /\ entry'[k].crossed = entry[k].crossed
                      /\ entry'[k].left = entry[k].left - 1 /\ entry[k].left \in Nat
    OBVIOUS
  <2>1. /\ entry[k] \in CacheEntry /\ entry[k].left # 0
        /\ entry'[k] = [entry[k] EXCEPT !.left = @ - 1]
    BY <1>1, <1>2
  <2>2. entry[k].left \in 0..DetailTTL
    BY <2>1 DEF CacheEntry
  <2>3. entry[k].left - 1 \in 0..DetailTTL /\ entry[k].left \in Nat
    BY <2>1, <2>2, CacheNumbers
  <2> QED
    BY <2>1, <2>3 DEF CacheEntry
<1>4. \A r \in Reader :
        /\ reader[r] \in ReaderState /\ reader'[r] \in ReaderState
        /\ reader'[r].pc = reader[r].pc /\ reader'[r].key = reader[r].key
        /\ reader'[r].version = reader[r].version
        /\ reader[r].pc = "fill" => reader'[r].time = reader[r].time + 1 /\ reader[r].time \in Nat
  <2> TAKE r \in Reader
  <2>1. reader[r] \in ReaderState
    BY <1>2
  <2>2. CASE reader[r].pc = "fill"
    <3>1. reader[r].time \in 0..MaxFill /\ reader[r].time < MaxFill
      BY <1>1, <2>1, <2>2 DEF ReaderState
    <3>2. reader[r].time + 1 \in 0..MaxFill /\ reader[r].time \in Nat
      BY <3>1, CacheNumbers
    <3>3. reader'[r] = [reader[r] EXCEPT !.time = @ + 1]
      BY <1>1, <2>2
    <3> QED
      BY <2>1, <3>2, <3>3 DEF ReaderState
  <2>3. CASE reader[r].pc # "fill"
    BY <1>1, <2>1, <2>3
  <2> QED
    BY <2>2, <2>3
<1>5. age' \in [Version -> 0..MaxAge]
  <2> SUFFICES ASSUME NEW v \in Version
               PROVE  (IF v < version THEN OneOlder(age[v]) ELSE 0) \in 0..MaxAge
    BY <1>1
  <2>1. age[v] \in 0..MaxAge
    BY DEF CacheInv, CacheTypeOK
  <2> QED
    BY <1>2, <2>1 DEF OneOlder
<1>6. CacheTypeOK'
  <2>1. entry' \in [Key -> CacheEntry \cup {NoEntry}]
    BY <1>1, <1>3
  <2>2. reader' \in [Reader -> ReaderState]
    BY <1>1, <1>4
  <2> QED
    BY <1>1, <1>5, <2>1, <2>2, NobodyIsTyped DEF CacheInv, CacheTypeOK
<1>7. CurrentIsNew'
  BY <1>1, <1>2, CacheNumbers DEF CurrentIsNew, Version
<1>8. FillsAreRecent'
  <2> SUFFICES ASSUME NEW r \in Reader, reader[r].pc = "fill"
               PROVE  /\ reader[r].version \in 0..version
                      /\ age'[reader[r].version] <= reader[r].time + 1
                      /\ reader[r].key = "detail" => reader[r].version # 0
    BY <1>1, <1>4 DEF FillsAreRecent
  <2>1. /\ reader[r].version \in 0..version /\ age[reader[r].version] <= reader[r].time
        /\ reader[r].key = "detail" => reader[r].version # 0
    BY DEF CacheInv, FillsAreRecent
  <2>2. reader[r].time \in Nat
    BY <1>4
  <2>3. age'[reader[r].version] <= age[reader[r].version] + 1
        /\ age[reader[r].version] \in 0..MaxAge /\ age'[reader[r].version] \in 0..MaxAge
    BY <2>1, OlderByOne
  <2> QED
    BY <1>2, <2>1, <2>2, <2>3
<1>9. EntriesAreRecent'
  <2> SUFFICES ASSUME NEW k \in Key, entry'[k] # NoEntry
               PROVE  /\ entry[k].version \in 0..version
                      /\ age'[entry[k].version] + (entry[k].left - 1) <= TTL(k) + MaxFill
                      /\ k = "detail" => entry[k].version # 0
    BY <1>1, <1>3 DEF EntriesAreRecent, TTL
  <2>1. entry[k] # NoEntry /\ entry[k].left \in Nat
    BY <1>3, NoEntryAssumption
  <2>2. /\ entry[k].version \in 0..version
        /\ age[entry[k].version] + entry[k].left <= TTL(k) + MaxFill
        /\ k = "detail" => entry[k].version # 0
    BY <2>1 DEF CacheInv, EntriesAreRecent
  <2>3. age'[entry[k].version] <= age[entry[k].version] + 1
        /\ age[entry[k].version] \in 0..MaxAge /\ age'[entry[k].version] \in 0..MaxAge
    BY <2>2, OlderByOne
  <2>4. TTL(k) \in Nat
    BY CacheNumbers
  <2> QED
    BY <1>2, <2>1, <2>2, <2>3, <2>4, CacheNumbers
<1>10. StaleOnlyIfCrossed'
  <2>1. \A k \in Key : Pending(k)' <=> Pending(k)
    BY <1>1 DEF Pending
  <2>2. \A k \in Key : entry'[k] # NoEntry => entry[k] # NoEntry
    BY <1>1
  <2> QED
    BY <1>1, <1>3, <2>1, <2>2 DEF CacheInv, StaleOnlyIfCrossed
<1>11. 0 \in gone'
  BY <1>1 DEF CacheInv
<1> QED
  BY <1>6, <1>7, <1>8, <1>9, <1>10, <1>11 DEF CacheInv

LEMMA CacheInvStep == CacheInv /\ [CacheNext]_cacheVars => CacheInv'
<1> SUFFICES ASSUME CacheInv, [CacheNext]_cacheVars
             PROVE  CacheInv'
  OBVIOUS
<1>1. CASE \E k \in Key : Hit(k) \/ Evict(k)
  BY <1>1, HitInv, EvictInv
<1>2. CASE \E r \in Reader : (\E k \in Key : Miss(r, k)) \/ ReadRow(r) \/ Fill(r)
  BY <1>2, MissInv, ReadRowInv, FillInv
<1>3. CASE \E w \in Writer : CommitProduct(w) \/ ScanLists(w) \/ DeleteLists(w)
                            \/ DeleteDetail(w) \/ InvalidationFails(w) \/ WriterDies(w)
  BY <1>3, CommitProductInv, ScanListsInv, DeleteListsInv, DeleteDetailInv, InvalidationLost
<1>4. CASE CommitOrder
  BY <1>4, CommitOrderInv
<1>5. CASE CacheTime
  BY <1>5, CacheTimeInv
<1>6. CASE UNCHANGED cacheVars
  <2>1. /\ UNCHANGED <<version, gone, age, entry, writer, missed>>
        /\ reader' = reader /\ answer' = answer
    BY <1>6 DEF cacheVars
  <2>2. CacheTypeOK' /\ FillsAreRecent'
    BY <2>1 DEF CacheInv, CacheTypeOK, FillsAreRecent
  <2> QED
    BY <2>1, <2>2, ReaderSteps DEF CacheInv
<1> QED
  BY <1>1, <1>2, <1>3, <1>4, <1>5, <1>6 DEF CacheNext

-----------------------------------------------------------------------------
(***************************************************************************)
(* The theorems about ProductCache.                                        *)
(***************************************************************************)

\* The inductive invariant holds for any number of readers, writers, lists and
\* versions, and for every time to live.
THEOREM CacheInvariance == CacheSpec => []CacheInv
<1> QED
  BY CacheInvInit, CacheInvStep, PTL DEF CacheSpec

\* While Redis answers and only product handlers write, the cache is out of
\* date only until the handler has deleted what it has to, or because of a fill
\* that crossed the write.
THEOREM StaleIsExplained == CacheSpec => []StaleOnlyIfCrossed
<1>1. CacheInv => StaleOnlyIfCrossed
  BY DEF CacheInv
<1> QED
  BY <1>1, CacheInvariance, PTL

\* What a step of the cache is to the customers who read the keys of a kind.
RecentStep(keys, staleness) ==
  \/ version' = version + 1 /\ AnswerOf(keys)' = NoVersion /\ age' = age
  \/ /\ age' = [v \in DOMAIN age |-> IF v < version THEN OneOlder(age[v]) ELSE 0]
     /\ AnswerOf(keys)' = NoVersion /\ version' = version
  \/ /\ \E v \in 0..version : age[v] <= staleness /\ AnswerOf(keys)' = v
     /\ version' = version /\ age' = age
  \/ AnswerOf(keys)' = NoVersion /\ version' = version /\ age' = age
  \/ UNCHANGED <<version, age, answer>>

\* An answer under a key of the kind is recent; another one is no answer.
LEMMA AnswerIsRecent ==
  ASSUME NEW keys \in SUBSET Key, NEW staleness, NEW k \in Key, NEW v \in 0..version,
         k \in keys => age[v] <= staleness,
         answer' = [key |-> k, version |-> v], UNCHANGED <<version, age>>
  PROVE  RecentStep(keys, staleness)
<1>1. AnswerOf(keys)' = IF k \in keys THEN v ELSE NoVersion
  BY DEF AnswerOf
<1> QED
  BY <1>1 DEF RecentStep

\* The kinds of keys and their staleness: lists and details.
LEMMA CacheStepIsRecent ==
  ASSUME CacheInv, [CacheNext]_cacheVars,
         NEW keys \in SUBSET Key, NEW ttl \in Nat, \A k \in keys : TTL(k) = ttl
  PROVE  RecentStep(keys, ttl + MaxFill)
<1>1. NobodyReads.version = NoVersion /\ version \in 0..version
      /\ \A v \in 0..version : age[v] \in Nat
  BY CacheNumbers DEF NobodyReads, CacheInv, CacheTypeOK, Version, MaxAge
<1>2. answer' = NobodyReads => AnswerOf(keys)' = NoVersion
  BY <1>1 DEF AnswerOf
<1>3. ASSUME NEW k \in Key, Hit(k)
      PROVE  RecentStep(keys, ttl + MaxFill)
  <2>1. /\ entry[k] \in CacheEntry /\ entry[k].version \in 0..version
        /\ age[entry[k].version] + entry[k].left <= TTL(k) + MaxFill
    BY <1>3 DEF Hit, CacheInv, CacheTypeOK, EntriesAreRecent
  <2>2. entry[k].left \in 0..DetailTTL
    BY <2>1 DEF CacheEntry
  <2>3. k \in keys => age[entry[k].version] <= ttl + MaxFill
    BY <1>1, <2>1, <2>2, CacheNumbers
  <2> QED
    BY <1>3, <2>1, <2>3, AnswerIsRecent DEF Hit, Answers
<1>4. ASSUME NEW r \in Reader, Fill(r)
      PROVE  RecentStep(keys, ttl + MaxFill)
  <2>1. /\ reader[r] \in ReaderState /\ reader[r].version \in 0..version
        /\ age[reader[r].version] <= reader[r].time
    BY <1>4 DEF Fill, CacheInv, CacheTypeOK, FillsAreRecent
  <2>2. reader[r].time \in 0..MaxFill /\ reader[r].key \in Key
    BY <2>1 DEF ReaderState
  <2>3. age[reader[r].version] <= ttl + MaxFill
    BY <1>1, <2>1, <2>2, CacheNumbers
  <2> QED
    BY <1>4, <2>1, <2>2, <2>3, AnswerIsRecent DEF Fill, Answers
<1>5. ASSUME NEW r \in Reader, ReadRow(r)
      PROVE  RecentStep(keys, ttl + MaxFill)
  <2>1. age[version] = 0 /\ reader[r].key \in Key /\ version \in Nat
    BY CacheNumbers DEF CacheInv, CacheTypeOK, CurrentIsNew, ReaderState, Version
  <2>2. age[version] <= ttl + MaxFill
    BY <2>1, CacheNumbers
  <2>3. CASE answer' = NobodyReads
    BY <1>2, <1>5, <2>3 DEF ReadRow, RecentStep
  <2>4. CASE answer' = [key |-> reader[r].key, version |-> version]
    BY <1>1, <1>5, <2>1, <2>2, <2>4, AnswerIsRecent DEF ReadRow
  <2> QED
    BY <1>5, <2>3, <2>4 DEF ReadRow, Answers
<1>6. ASSUME NEW w \in Writer, CommitProduct(w)
      PROVE  RecentStep(keys, ttl + MaxFill)
  BY <1>2, <1>6 DEF CommitProduct, Commits, RecentStep
<1>7. ASSUME CommitOrder
      PROVE  RecentStep(keys, ttl + MaxFill)
  BY <1>2, <1>7 DEF CommitOrder, RecentStep
<1>8. ASSUME CacheTime
      PROVE  RecentStep(keys, ttl + MaxFill)
  <2>1. DOMAIN age = Version
    BY DEF CacheInv, CacheTypeOK
  <2> QED
    BY <1>2, <1>8, <2>1 DEF CacheTime, RecentStep
<1>9. ASSUME \/ \E k \in Key : Evict(k)
             \/ \E r \in Reader, k \in Key : Miss(r, k)
             \/ \E w \in Writer : ScanLists(w) \/ DeleteLists(w) \/ DeleteDetail(w)
                                  \/ InvalidationFails(w) \/ WriterDies(w)
      PROVE  RecentStep(keys, ttl + MaxFill)
  <2>1. answer' = NobodyReads /\ UNCHANGED <<version, age>>
    BY <1>9 DEF Evict, Miss, ScanLists, DeleteLists, DeleteDetail, InvalidationFails, WriterDies
  <2> QED
    BY <1>2, <2>1 DEF RecentStep
<1>10. CASE UNCHANGED cacheVars
  BY <1>10 DEF cacheVars, RecentStep
<1>11. CASE CacheNext
  BY <1>3, <1>4, <1>5, <1>6, <1>7, <1>8, <1>9, <1>11 DEF CacheNext
<1> QED
  BY <1>10, <1>11

\* Customers never read a list or a detail that is out of date for longer than
\* its time to live and one fill, whatever fails and whatever crosses: both
\* kinds of keys implement RecentReads.
THEOREM ReadsImplementRecentReads == CacheSpec => ReadsAreRecent
<1>1. CacheInit => Lists!RecentInit /\ Details!RecentInit
  BY DEF CacheInit, Lists!RecentInit, Details!RecentInit, AnswerOf, NobodyReads
<1>2. CacheInv /\ [CacheNext]_cacheVars => [Lists!RecentNext]_(Lists!recentVars)
  <2> SUFFICES ASSUME CacheInv, [CacheNext]_cacheVars
               PROVE  [Lists!RecentNext]_(Lists!recentVars)
    OBVIOUS
  <2>1. RecentStep(ListKey, ListTTL + MaxFill)
    BY CacheStepIsRecent, CacheNumbers DEF TTL
  <2> QED
    BY <2>1 DEF RecentStep, AnswerOf, OneOlder, Lists!RecentNext, Lists!recentVars,
       Lists!Write, Lists!Tick, Lists!Answer, Lists!Quiet, Lists!Aged, Lists!Older
<1>3. CacheInv /\ [CacheNext]_cacheVars => [Details!RecentNext]_(Details!recentVars)
  <2> SUFFICES ASSUME CacheInv, [CacheNext]_cacheVars
               PROVE  [Details!RecentNext]_(Details!recentVars)
    OBVIOUS
  <2>1. RecentStep({"detail"}, DetailTTL + MaxFill)
    BY CacheStepIsRecent, CacheNumbers DEF TTL
  <2> QED
    BY <2>1 DEF RecentStep, AnswerOf, OneOlder, Details!RecentNext, Details!recentVars,
       Details!Write, Details!Tick, Details!Answer, Details!Quiet, Details!Aged, Details!Older
<1> QED
  BY <1>1, <1>2, <1>3, CacheInvariance, PTL
  DEF CacheSpec, ReadsAreRecent, Lists!RecentSpec, Details!RecentSpec

-----------------------------------------------------------------------------
(***************************************************************************)
(* The signing keys: the inductive invariant.                              *)
(***************************************************************************)

CurrentKeysAreNew == \A v \in KeyVersion : v >= keyVersion => keyAge[v] = 0

\* The cached set was fetched at most MaxFetch before it was stored.
CachedIsRecent ==
  cachedKey # NoKeySet =>
    /\ cachedKey <= keyVersion
    /\ cachedFor <= KeyTTL => keyAge[cachedKey] <= cachedFor + MaxFetch

\* What a request fetched was published after it began and aged with it; while
\* it has still to look, the cache is no older than its own store, and holds
\* its set or a newer one unless it was overtaken.
VerifierIsRecent(v) ==
  /\ v.pc # "idle" => v.from <= keyVersion
  /\ v.pc \in {"store", "look"} =>
       /\ v.own \in KeyVersion /\ v.from <= v.own /\ v.own <= keyVersion
       /\ keyAge[v.own] <= v.time
  /\ v.pc = "look" =>
       /\ cachedKey # NoKeySet
       /\ cachedFor <= v.time
       /\ v.overtaken \/ v.own <= cachedKey

VerifiersAreRecent == \A r \in Verifier : VerifierIsRecent(verifier[r])

KeysInv ==
  /\ KeysTypeOK
  /\ CurrentKeysAreNew
  /\ CachedIsRecent
  /\ VerifiersAreRecent
  /\ ValidTokensPass

\* Versions and times, as numbers.
LEMMA KeyNumbers ==
  /\ KeyTTL \in Nat /\ MaxFetch \in Nat /\ MaxFetch <= KeyTTL /\ KeyMaxAge \in Nat
  /\ \A v \in KeyVersion : v \in Nat
  /\ 0 \in KeyVersion /\ NoKeySet \notin KeyVersion
BY KeysAssumption DEF KeyMaxAge

LEMMA KeyNothings == NoVerifier \in VerifierState /\ NoVerdict \in Verdict
BY KeyNumbers DEF NoVerifier, VerifierState, NoVerdict, Verdict

LEMMA KeysInvInit == KeysInit => KeysInv
<1> SUFFICES ASSUME KeysInit
             PROVE  KeysInv
  OBVIOUS
<1>1. KeysTypeOK
  BY KeyNumbers, KeyNothings DEF KeysInit, KeysTypeOK
<1>2. CurrentKeysAreNew /\ CachedIsRecent
  BY DEF KeysInit, CurrentKeysAreNew, CachedIsRecent
<1>3. VerifiersAreRecent
  BY DEF KeysInit, VerifiersAreRecent, VerifierIsRecent, NoVerifier
<1>4. ValidTokensPass
  BY DEF KeysInit, ValidTokensPass, NoVerdict
<1> QED
  BY <1>1, <1>2, <1>3, <1>4 DEF KeysInv

\* A step of one request that leaves the cache alone.
LEMMA VerifierSteps ==
  ASSUME KeysInv, NEW r \in Verifier, NEW n \in VerifierState, VerifierIsRecent(n),
         verifier' = [verifier EXCEPT ![r] = n], verdict' \in Verdict,
         ValidTokensPass', UNCHANGED <<keyVersion, keyAge, cachedKey, cachedFor>>
  PROVE  KeysInv'
<1>1. KeysTypeOK'
  BY DEF KeysInv, KeysTypeOK
<1>2. CurrentKeysAreNew' /\ CachedIsRecent'
  BY DEF KeysInv, CurrentKeysAreNew, CachedIsRecent
<1>3. \A q \in Verifier : verifier'[q] = IF q = r THEN n ELSE verifier[q]
  BY DEF KeysInv, KeysTypeOK
<1>4. \A v : VerifierIsRecent(v) =>
        /\ v.pc # "idle" => v.from <= keyVersion'
        /\ v.pc \in {"store", "look"} =>
             /\ v.own \in KeyVersion /\ v.from <= v.own /\ v.own <= keyVersion'
             /\ keyAge'[v.own] <= v.time
        /\ v.pc = "look" =>
             /\ cachedKey' # NoKeySet
             /\ cachedFor' <= v.time
             /\ v.overtaken \/ v.own <= cachedKey'
  BY DEF VerifierIsRecent
<1>5. VerifiersAreRecent'
  BY <1>3, <1>4 DEF KeysInv, VerifiersAreRecent, VerifierIsRecent
<1> QED
  BY <1>1, <1>2, <1>5 DEF KeysInv

LEMMA NothingIsRecent == VerifierIsRecent(NoVerifier)
BY DEF VerifierIsRecent, NoVerifier

\* A verdict that is not a refusal.
LEMMA NotRefused ==
  ASSUME verdict'.kind # "reject"
  PROVE  ValidTokensPass'
BY DEF ValidTokensPass

LEMMA NoVerdictPasses ==
  ASSUME verdict' = NoVerdict
  PROVE  verdict' \in Verdict /\ ValidTokensPass'
BY NotRefused, KeyNothings DEF NoVerdict

\* What Verify returns.
LEMMA DecidesIsTyped ==
  ASSUME KeysInv, NEW kind \in {"accept", "reject", "error"}, NEW kid \in Kid \cup {NoKeySet},
         NEW from \in KeyVersion, NEW overtaken \in BOOLEAN,
         Decides(kind, kid, from, overtaken)
  PROVE  /\ verdict' \in Verdict
         /\ verdict'.kind = kind /\ verdict'.kid = kid /\ verdict'.from = from
         /\ verdict'.overtaken = overtaken /\ verdict'.cached = cachedKey
BY DEF Decides, Verdict, KeysInv, KeysTypeOK

LEMMA VerifyInv ==
  ASSUME KeysInv, NEW r \in Verifier, NEW kid \in Kid, Verify(r, kid)
  PROVE  KeysInv'
<1>1. /\ keyVersion \in KeyVersion /\ keyVersion \in Nat
      /\ UNCHANGED <<keyVersion, keyAge, cachedKey, cachedFor>>
  BY KeyNumbers DEF Verify, KeysInv, KeysTypeOK
<1>2. CASE CachedPublicKey(kid)
  <2>1. Decides("accept", kid, keyVersion, FALSE) /\ verifier' = verifier
    BY <1>2 DEF Verify
  <2>2. verdict' \in Verdict /\ ValidTokensPass'
    BY <1>1, <2>1, DecidesIsTyped, NotRefused
  <2>3. /\ verifier[r] \in VerifierState /\ VerifierIsRecent(verifier[r])
        /\ verifier' = [verifier EXCEPT ![r] = verifier[r]]
    BY <2>1 DEF KeysInv, KeysTypeOK, VerifiersAreRecent
  <2> QED
    BY <1>1, <2>2, <2>3, VerifierSteps
<1>3. CASE ~CachedPublicKey(kid)
  <2> DEFINE n == [NoVerifier EXCEPT !.pc = "fetch", !.kid = kid, !.from = keyVersion]
  <2>1. verifier' = [verifier EXCEPT ![r] = n] /\ verdict' = NoVerdict
    BY <1>3 DEF Verify
  <2>2. n \in VerifierState /\ n.pc = "fetch" /\ n.from = keyVersion
    BY <1>1, KeyNothings DEF VerifierState
  <2> HIDE DEF n
  <2>3. VerifierIsRecent(n)
    BY <1>1, <2>2 DEF VerifierIsRecent
  <2> QED
    BY <1>1, <2>1, <2>2, <2>3, NoVerdictPasses, VerifierSteps
<1> QED
  BY <1>2, <1>3

LEMMA FetchKeysInv ==
  ASSUME KeysInv, NEW r \in Verifier, FetchKeys(r)
  PROVE  KeysInv'
<1> DEFINE n == [verifier[r] EXCEPT !.pc = "store", !.own = keyVersion]
<1>1. /\ keyVersion \in KeyVersion /\ keyVersion \in Nat /\ keyAge[keyVersion] = 0
      /\ verifier[r] \in VerifierState /\ VerifierIsRecent(verifier[r])
      /\ UNCHANGED <<keyVersion, keyAge, cachedKey, cachedFor>>
  BY KeyNumbers DEF FetchKeys, KeysInv, KeysTypeOK, CurrentKeysAreNew, VerifiersAreRecent
<1>2. verifier' = [verifier EXCEPT ![r] = n] /\ verdict' = NoVerdict /\ verifier[r].pc = "fetch"
  BY DEF FetchKeys
<1>3. /\ n \in VerifierState /\ n.pc = "store" /\ n.own = keyVersion
      /\ n.from = verifier[r].from /\ n.time \in 0..MaxFetch
  BY <1>1 DEF VerifierState
<1>4. verifier[r].from <= keyVersion
  BY <1>1, <1>2 DEF VerifierIsRecent
<1> HIDE DEF n
<1>5. VerifierIsRecent(n)
  BY <1>1, <1>3, <1>4, KeyNumbers DEF VerifierIsRecent
<1> QED
  BY <1>1, <1>2, <1>3, <1>5, NoVerdictPasses, VerifierSteps

LEMMA FetchFailsInv ==
  ASSUME KeysInv, NEW r \in Verifier, FetchFails(r)
  PROVE  KeysInv'
<1>1. /\ Decides("error", verifier[r].kid, verifier[r].from, FALSE)
      /\ verifier' = [verifier EXCEPT ![r] = NoVerifier]
      /\ UNCHANGED <<keyVersion, keyAge, cachedKey, cachedFor>>
  BY DEF FetchFails
<1>2. verifier[r].kid \in Kid \cup {NoKeySet} /\ verifier[r].from \in KeyVersion
  BY DEF KeysInv, KeysTypeOK, VerifierState
<1>3. verdict' \in Verdict /\ ValidTokensPass'
  BY <1>1, <1>2, DecidesIsTyped, NotRefused
<1> QED
  BY <1>1, <1>3, KeyNothings, NothingIsRecent, VerifierSteps

\* The set a request stores is recent; whoever has still to look and fetched a
\* newer one is overtaken.
LEMMA StoreKeysInv ==
  ASSUME KeysInv, NEW r \in Verifier, StoreKeys(r)
  PROVE  KeysInv'
<1> DEFINE own == verifier[r].own
<1>1. /\ verifier[r].pc = "store" /\ cachedKey' = own /\ cachedFor' = 0
      /\ verifier' = [q \in Verifier |->
           CASE q = r -> [verifier[q] EXCEPT !.pc = "look"]
             [] q # r /\ verifier[q].pc = "look" /\ own < verifier[q].own ->
                  [verifier[q] EXCEPT !.overtaken = TRUE]
             [] OTHER -> verifier[q]]
      /\ verdict' = NoVerdict /\ UNCHANGED <<keyVersion, keyAge>>
  BY DEF StoreKeys, StoredKeySet
<1>2. \A q \in Verifier : verifier[q] \in VerifierState /\ VerifierIsRecent(verifier[q])
  BY DEF KeysInv, KeysTypeOK, VerifiersAreRecent
<1>3. /\ own \in KeyVersion /\ own \in Nat /\ own # NoKeySet /\ own <= keyVersion
      /\ keyAge[own] <= verifier[r].time /\ verifier[r].time \in 0..MaxFetch
  BY <1>1, <1>2, KeyNumbers DEF VerifierIsRecent, VerifierState
<1>4. keyAge[own] \in 0..KeyMaxAge
  BY <1>3 DEF KeysInv, KeysTypeOK
<1> HIDE DEF own
<1>5. CachedIsRecent'
  BY <1>1, <1>3, <1>4, KeyNumbers DEF CachedIsRecent
<1>6. \A q \in Verifier : verifier'[q] \in VerifierState /\ VerifierIsRecent(verifier[q])'
  <2> SUFFICES ASSUME NEW q \in Verifier
               PROVE  verifier'[q] \in VerifierState /\ VerifierIsRecent(verifier[q])'
    OBVIOUS
  <2>1. CASE q = r
    <3>1. verifier'[q] = [verifier[r] EXCEPT !.pc = "look"]
      BY <1>1, <2>1
    <3>2. /\ verifier'[q] \in VerifierState /\ verifier'[q].pc = "look"
          /\ verifier'[q].own = own /\ verifier'[q].from = verifier[r].from
          /\ verifier'[q].time = verifier[r].time
      BY <1>2, <3>1 DEF VerifierState, own
    <3>3. verifier[r].from <= keyVersion /\ verifier[r].from <= own
      BY <1>1, <1>2 DEF VerifierIsRecent, own
    <3> QED
      BY <1>1, <1>3, <3>2, <3>3, KeyNumbers DEF VerifierIsRecent
  <2>2. CASE q # r /\ verifier[q].pc = "look" /\ own < verifier[q].own
    <3>1. verifier'[q] = [verifier[q] EXCEPT !.overtaken = TRUE]
      BY <1>1, <2>2
    <3>2. /\ verifier'[q] \in VerifierState /\ verifier'[q].overtaken
          /\ verifier'[q].pc = "look" /\ verifier'[q].own = verifier[q].own
          /\ verifier'[q].from = verifier[q].from /\ verifier'[q].time = verifier[q].time
          /\ verifier[q].time \in 0..MaxFetch
      BY <1>2, <2>2, <3>1 DEF VerifierState
    <3> QED
      BY <1>1, <1>2, <1>3, <2>2, <3>2 DEF VerifierIsRecent
  <2>3. CASE q # r /\ ~(verifier[q].pc = "look" /\ own < verifier[q].own)
    <3>1. verifier'[q] = verifier[q]
      BY <1>1, <2>3
    <3>2. verifier[q].pc = "look" => verifier[q].own <= own
      <4> SUFFICES ASSUME verifier[q].pc = "look"
                   PROVE  verifier[q].own <= own
        OBVIOUS
      <4>1. verifier[q].own \in KeyVersion
        BY <1>2 DEF VerifierIsRecent
      <4>2. verifier[q].own \in Nat
        BY <4>1, KeyNumbers
      <4> QED
        BY <1>3, <2>3, <4>2
    <3>3. verifier[q].time \in 0..MaxFetch
      BY <1>2 DEF VerifierState
    <3>4. VerifierIsRecent(verifier[q])
      BY <1>2
    <3>5. verifier[q].pc = "look" => cachedKey' # NoKeySet /\ cachedFor' <= verifier[q].time
      BY <1>1, <1>3, <3>3
    <3> QED
      BY <1>1, <1>2, <3>1, <3>2, <3>4, <3>5 DEF VerifierIsRecent
  <2> QED
    BY <2>1, <2>2, <2>3
<1>7. verdict' \in Verdict /\ ValidTokensPass'
  BY <1>1, NoVerdictPasses
<1>8. KeysTypeOK'
  <2>1. verifier' \in [Verifier -> VerifierState]
    BY <1>1, <1>6
  <2> QED
    BY <1>1, <1>3, <1>7, <2>1, KeyNumbers DEF KeysInv, KeysTypeOK
<1>9. CurrentKeysAreNew'
  BY <1>1 DEF KeysInv, CurrentKeysAreNew
<1> QED
  BY <1>5, <1>6, <1>7, <1>8, <1>9 DEF KeysInv, VerifiersAreRecent

\* A request that was not overtaken looks at a set that was published while it
\* ran and is not too old.
LEMMA LookAgainInv ==
  ASSUME KeysInv, NEW r \in Verifier, LookAgain(r)
  PROVE  KeysInv'
<1> DEFINE v == verifier[r]
           kind == IF CachedPublicKey(v.kid) THEN "accept" ELSE "reject"
<1>1. /\ v.pc = "look" /\ Decides(kind, v.kid, v.from, v.overtaken)
      /\ verifier' = [verifier EXCEPT ![r] = NoVerifier]
      /\ UNCHANGED <<keyVersion, keyAge, cachedKey, cachedFor>>
  BY DEF LookAgain
<1>2. v \in VerifierState /\ VerifierIsRecent(v)
  BY DEF KeysInv, KeysTypeOK, VerifiersAreRecent
<1>3. /\ v.kid \in Kid \cup {NoKeySet} /\ v.from \in KeyVersion /\ v.overtaken \in BOOLEAN
      /\ v.time \in 0..MaxFetch
  BY <1>2 DEF VerifierState
<1>4. /\ verdict' \in Verdict /\ verdict'.kind = kind /\ verdict'.kid = v.kid
      /\ verdict'.from = v.from /\ verdict'.overtaken = v.overtaken
  BY <1>1, <1>3, DecidesIsTyped
<1> HIDE DEF v
<1>5. ValidTokensPass'
  <2> SUFFICES ASSUME kind = "reject",
                      \A w \in v.from..keyVersion : v.kid \in KeySet[w]
               PROVE  v.overtaken
    BY <1>1, <1>4 DEF ValidTokensPass
  <2>1. ~CachedPublicKey(v.kid)
    OBVIOUS
  <2>2. /\ cachedKey # NoKeySet /\ cachedKey \in KeyVersion /\ cachedKey <= keyVersion
        /\ cachedFor \in Nat /\ cachedFor <= v.time
        /\ v.own \in KeyVersion /\ v.from <= v.own
        /\ v.overtaken \/ v.own <= cachedKey
    BY <1>1, <1>2, KeyNumbers DEF VerifierIsRecent, KeysInv, KeysTypeOK, CachedIsRecent
  <2>3. cachedFor <= KeyTTL
    BY <1>3, <2>2, KeyNumbers
  <2>4. v.kid \notin KeySet[cachedKey]
    BY <2>1, <2>2, <2>3 DEF CachedPublicKey
  <2>5. ~(v.own <= cachedKey)
    <3> SUFFICES ASSUME v.own <= cachedKey
                 PROVE  cachedKey \in v.from..keyVersion
      BY <2>4
    <3>1. keyVersion \in KeyVersion
      BY DEF KeysInv, KeysTypeOK
    <3>2. keyVersion \in Nat /\ v.from \in Nat /\ v.own \in Nat /\ cachedKey \in Nat
      BY <1>3, <2>2, <3>1, KeyNumbers
    <3> QED
      BY <2>2, <3>2
  <2> QED
    BY <2>2, <2>5
<1> QED
  BY <1>1, <1>4, <1>5, KeyNothings, NothingIsRecent, VerifierSteps

LEMMA RotateInv ==
  ASSUME KeysInv, Rotate
  PROVE  KeysInv'
<1>1. /\ keyVersion + 1 \in KeyVersion /\ keyVersion' = keyVersion + 1 /\ verdict' = NoVerdict
      /\ keyVersion \in Nat /\ UNCHANGED <<keyAge, cachedKey, cachedFor, verifier>>
  BY KeyNumbers DEF Rotate, KeysInv, KeysTypeOK
<1>2. verdict' \in Verdict /\ ValidTokensPass'
  BY <1>1, NoVerdictPasses
<1>3. KeysTypeOK'
  BY <1>1, <1>2 DEF KeysInv, KeysTypeOK
<1>4. \A v \in KeyVersion : /\ v \in Nat /\ (v <= keyVersion => v <= keyVersion')
                           /\ (v >= keyVersion' => v >= keyVersion)
  BY <1>1, KeyNumbers
<1>5. CurrentKeysAreNew'
  BY <1>1, <1>4 DEF KeysInv, CurrentKeysAreNew
<1>6. CachedIsRecent'
  BY <1>1, <1>4 DEF KeysInv, CachedIsRecent, KeysTypeOK
<1>7. VerifiersAreRecent'
  <2> SUFFICES ASSUME NEW r \in Verifier
               PROVE  VerifierIsRecent(verifier[r])'
    BY DEF VerifiersAreRecent
  <2>1. VerifierIsRecent(verifier[r]) /\ verifier[r].from \in KeyVersion
    BY DEF KeysInv, VerifiersAreRecent, KeysTypeOK, VerifierState
  <2> QED
    BY <1>1, <1>4, <2>1 DEF VerifierIsRecent
<1> QED
  BY <1>2, <1>3, <1>5, <1>6, <1>7 DEF KeysInv

LEMMA KeyTimeInv ==
  ASSUME KeysInv, KeyTime
  PROVE  KeysInv'
<1>1. /\ \A r \in Verifier : verifier[r].pc \in {"store", "look"} => verifier[r].time < MaxFetch
      /\ keyAge' = [v \in KeyVersion |->
           IF v < keyVersion /\ keyAge[v] < KeyMaxAge THEN keyAge[v] + 1 ELSE keyAge[v]]
      /\ cachedFor' = (IF cachedKey = NoKeySet \/ cachedFor > KeyTTL THEN cachedFor
                       ELSE cachedFor + 1)
      /\ verifier' = [r \in Verifier |-> IF verifier[r].pc \in {"store", "look"}
                                       THEN [verifier[r] EXCEPT !.time = @ + 1] ELSE verifier[r]]
      /\ verdict' = NoVerdict /\ UNCHANGED <<keyVersion, cachedKey>>
  BY DEF KeyTime
<1>2. /\ keyVersion \in Nat /\ keyAge \in [KeyVersion -> 0..KeyMaxAge]
      /\ cachedFor \in 0..(KeyTTL + 1) /\ cachedKey \in KeyVersion \cup {NoKeySet}
      /\ verifier \in [Verifier -> VerifierState]
  BY KeyNumbers DEF KeysInv, KeysTypeOK
<1>3. \A v \in KeyVersion : keyAge[v] \in Nat /\ keyAge'[v] \in 0..KeyMaxAge /\ keyAge'[v] <= keyAge[v] + 1
  BY <1>1, <1>2, KeyNumbers
<1>4. verdict' \in Verdict /\ ValidTokensPass'
  BY <1>1, NoVerdictPasses
<1>5. CurrentKeysAreNew'
  BY <1>1, <1>2, KeyNumbers DEF KeysInv, CurrentKeysAreNew
<1>6. CachedIsRecent'
  <2> SUFFICES ASSUME cachedKey # NoKeySet
               PROVE  /\ cachedKey <= keyVersion
                      /\ cachedFor' <= KeyTTL => keyAge'[cachedKey] <= cachedFor' + MaxFetch
    BY <1>1 DEF CachedIsRecent
  <2>1. /\ cachedKey \in KeyVersion /\ cachedKey <= keyVersion
        /\ cachedFor <= KeyTTL => keyAge[cachedKey] <= cachedFor + MaxFetch
    BY <1>2 DEF KeysInv, CachedIsRecent
  <2>2. /\ keyAge[cachedKey] \in Nat /\ keyAge'[cachedKey] \in 0..KeyMaxAge
        /\ keyAge'[cachedKey] <= keyAge[cachedKey] + 1
    BY <1>3, <2>1
  <2>3. CASE cachedFor > KeyTTL
    BY <1>1, <1>2, <2>1, <2>3, KeyNumbers
  <2>4. CASE ~(cachedFor > KeyTTL)
    BY <1>1, <1>2, <2>1, <2>2, <2>4, KeyNumbers
  <2> QED
    BY <2>3, <2>4
<1>7. \A r \in Verifier : verifier'[r] \in VerifierState /\ VerifierIsRecent(verifier[r])'
  <2> SUFFICES ASSUME NEW r \in Verifier
               PROVE  verifier'[r] \in VerifierState /\ VerifierIsRecent(verifier[r])'
    OBVIOUS
  <2>1. verifier[r] \in VerifierState /\ VerifierIsRecent(verifier[r])
    BY DEF KeysInv, KeysTypeOK, VerifiersAreRecent
  <2>2. CASE verifier[r].pc \in {"store", "look"}
    <3>1. verifier[r].time \in 0..MaxFetch /\ verifier[r].time < MaxFetch
      BY <1>1, <2>1, <2>2 DEF VerifierState
    <3>2. verifier[r].time + 1 \in 0..MaxFetch
      BY <3>1, KeyNumbers
    <3>3. verifier'[r] = [verifier[r] EXCEPT !.time = @ + 1]
      BY <1>1, <2>2
    <3>4. /\ verifier'[r] \in VerifierState /\ verifier'[r].pc = verifier[r].pc
          /\ verifier'[r].own = verifier[r].own /\ verifier'[r].from = verifier[r].from
          /\ verifier'[r].overtaken = verifier[r].overtaken
          /\ verifier'[r].time = verifier[r].time + 1
      BY <2>1, <3>2, <3>3 DEF VerifierState
    <3>5. /\ verifier[r].own \in KeyVersion /\ verifier[r].from <= verifier[r].own
          /\ verifier[r].own <= keyVersion /\ verifier[r].from <= keyVersion
          /\ keyAge[verifier[r].own] <= verifier[r].time
      BY <2>1, <2>2 DEF VerifierIsRecent
    <3>6. keyAge'[verifier[r].own] <= verifier[r].time + 1
      <4>1. /\ keyAge[verifier[r].own] \in Nat /\ keyAge'[verifier[r].own] \in Nat
            /\ keyAge'[verifier[r].own] <= keyAge[verifier[r].own] + 1
        BY <1>3, <3>5, KeyNumbers
      <4> QED
        BY <3>1, <3>5, <4>1
    <3>7. verifier[r].pc = "look" =>
            /\ cachedKey # NoKeySet /\ cachedFor' <= verifier[r].time + 1
            /\ verifier[r].overtaken \/ verifier[r].own <= cachedKey
      <4>1. verifier[r].pc = "look" =>
              /\ cachedKey # NoKeySet /\ cachedFor <= verifier[r].time
              /\ verifier[r].overtaken \/ verifier[r].own <= cachedKey
        BY <2>1 DEF VerifierIsRecent
      <4> QED
        BY <1>1, <1>2, <3>1, <4>1, KeyNumbers
    <3> QED
      BY <1>1, <3>4, <3>5, <3>6, <3>7 DEF VerifierIsRecent
  <2>3. CASE verifier[r].pc \notin {"store", "look"}
    BY <1>1, <2>1, <2>3 DEF VerifierIsRecent
  <2> QED
    BY <2>2, <2>3
<1>8. KeysTypeOK'
  <2>1. verifier' \in [Verifier -> VerifierState] /\ keyAge' \in [KeyVersion -> 0..KeyMaxAge]
    BY <1>1, <1>3, <1>7
  <2>2. cachedFor' \in 0..(KeyTTL + 1)
    BY <1>1, <1>2, KeyNumbers
  <2> QED
    BY <1>1, <1>4, <2>1, <2>2 DEF KeysInv, KeysTypeOK
<1> QED
  BY <1>4, <1>5, <1>6, <1>7, <1>8 DEF KeysInv, VerifiersAreRecent

LEMMA KeysInvStep == KeysInv /\ [KeysNext]_keysVars => KeysInv'
<1> SUFFICES ASSUME KeysInv, [KeysNext]_keysVars
             PROVE  KeysInv'
  OBVIOUS
<1>1. CASE KeysNext
  BY <1>1, VerifyInv, FetchKeysInv, FetchFailsInv, StoreKeysInv, LookAgainInv, RotateInv,
     KeyTimeInv DEF KeysNext
<1>2. CASE UNCHANGED keysVars
  <2>1. KeysTypeOK' /\ CurrentKeysAreNew' /\ CachedIsRecent' /\ ValidTokensPass'
    BY <1>2 DEF keysVars, KeysInv, KeysTypeOK, CurrentKeysAreNew, CachedIsRecent, ValidTokensPass
  <2>2. VerifiersAreRecent'
    BY <1>2 DEF keysVars, KeysInv, VerifiersAreRecent, VerifierIsRecent
  <2> QED
    BY <2>1, <2>2 DEF KeysInv
<1> QED
  BY <1>1, <1>2

-----------------------------------------------------------------------------
(***************************************************************************)
(* The theorems about SigningKeys.                                         *)
(***************************************************************************)

\* The inductive invariant holds for any number of requests and rotations.
THEOREM KeysInvariance == KeysSpec => []KeysInv
<1> QED
  BY KeysInvInit, KeysInvStep, PTL DEF KeysSpec

\* A token whose key was published throughout its request is refused only if
\* another request stored an older set between its fetch and its second look.
THEOREM RefusalsAreExplained == KeysSpec => []ValidTokensPass
<1>1. KeysInv => ValidTokensPass
  BY DEF KeysInv
<1> QED
  BY <1>1, KeysInvariance, PTL

\* A withdrawn key is accepted for ten minutes and one fetch at most, however
\* the fetches of any number of requests cross a rotation.
THEOREM TrustImplementsRecentReads == KeysSpec => TrustIsRecent
<1> DEFINE accepted == IF verdict.kind = "accept" THEN verdict.cached ELSE NoKeySet
<1>1. KeysInit => Trusted!RecentInit
  BY DEF KeysInit, Trusted!RecentInit, NoVerdict
<1>2. KeysInv /\ [KeysNext]_keysVars => [Trusted!RecentNext]_(Trusted!recentVars)
  <2> SUFFICES ASSUME KeysInv, [KeysNext]_keysVars
               PROVE  [Trusted!RecentNext]_(Trusted!recentVars)
    OBVIOUS
  <2>1. /\ keyVersion \in Nat /\ keyAge \in [KeyVersion -> 0..KeyMaxAge]
        /\ cachedFor \in 0..(KeyTTL + 1)
    BY KeyNumbers DEF KeysInv, KeysTypeOK
  <2>2. verdict' = NoVerdict => accepted' = NoKeySet
    BY DEF NoVerdict
  <2>3. ASSUME NEW kid, NEW from, NEW overtaken, Decides("accept", kid, from, overtaken),
               CachedPublicKey(kid), UNCHANGED <<keyVersion, keyAge>>
        PROVE  Trusted!Answer
    <3>1. accepted' = cachedKey
      BY <2>3 DEF Decides
    <3>2. /\ cachedKey \in KeyVersion /\ cachedKey \in Nat /\ cachedKey <= keyVersion
          /\ keyAge[cachedKey] <= cachedFor + MaxFetch /\ cachedFor <= KeyTTL
      BY <2>3, KeyNumbers DEF CachedPublicKey, KeysInv, KeysTypeOK, CachedIsRecent
    <3>3. cachedKey \in 0..keyVersion
      BY <2>1, <3>2
    <3>4. keyAge[cachedKey] <= KeyTTL + MaxFetch
      <4>1. keyAge[cachedKey] \in Nat /\ cachedFor \in Nat
        BY <2>1, <3>2, KeyNumbers
      <4> QED
        BY <3>2, <4>1, KeyNumbers
    <3> QED
      BY <2>3, <3>1, <3>3, <3>4 DEF Trusted!Answer
  <2>4. ASSUME NEW kind \in {"reject", "error"}, NEW kid, NEW from, NEW overtaken,
               Decides(kind, kid, from, overtaken), UNCHANGED <<keyVersion, keyAge>>
        PROVE  Trusted!Quiet
    BY <2>4 DEF Decides, Trusted!Quiet
  <2>5. verdict' = NoVerdict /\ UNCHANGED <<keyVersion, keyAge>> => Trusted!Quiet
    BY <2>2 DEF Trusted!Quiet
  <2>6. ASSUME NEW r \in Verifier, NEW kid \in Kid, Verify(r, kid)
        PROVE  Trusted!RecentNext
    BY <2>3, <2>5, <2>6 DEF Verify, Trusted!RecentNext
  <2>7. ASSUME NEW r \in Verifier, FetchKeys(r) \/ StoreKeys(r)
        PROVE  Trusted!RecentNext
    BY <2>5, <2>7 DEF FetchKeys, StoreKeys, Trusted!RecentNext
  <2>8. ASSUME NEW r \in Verifier, FetchFails(r)
        PROVE  Trusted!RecentNext
    BY <2>4, <2>8 DEF FetchFails, Trusted!RecentNext
  <2>9. ASSUME NEW r \in Verifier, LookAgain(r)
        PROVE  Trusted!RecentNext
    BY <2>3, <2>4, <2>9 DEF LookAgain, Trusted!RecentNext
  <2>10. ASSUME Rotate
         PROVE  Trusted!RecentNext
    BY <2>2, <2>10 DEF Rotate, Trusted!Write, Trusted!RecentNext
  <2>11. ASSUME KeyTime
         PROVE  Trusted!RecentNext
    <3>1. \A v \in KeyVersion :
            (IF v < keyVersion /\ keyAge[v] < KeyMaxAge THEN keyAge[v] + 1 ELSE keyAge[v])
              = (IF v < keyVersion THEN Trusted!Older(keyAge[v]) ELSE 0)
      <4> TAKE v \in KeyVersion
      <4>1. v \in Nat /\ (v >= keyVersion => keyAge[v] = 0)
        BY KeyNumbers DEF KeysInv, CurrentKeysAreNew
      <4> QED
        BY <2>1, <4>1 DEF Trusted!Older
    <3>2. keyAge' = Trusted!Aged(keyVersion, keyAge)
      BY <2>1, <2>11, <3>1 DEF KeyTime, Trusted!Aged
    <3> QED
      BY <2>2, <2>11, <3>2 DEF KeyTime, Trusted!Tick, Trusted!RecentNext
  <2>12. CASE UNCHANGED keysVars
    BY <2>12 DEF keysVars, Trusted!recentVars
  <2>13. CASE KeysNext
    BY <2>6, <2>7, <2>8, <2>9, <2>10, <2>11, <2>13 DEF KeysNext
  <2> QED
    BY <2>12, <2>13
<1> QED
  BY <1>1, <1>2, KeysInvariance, PTL DEF KeysSpec, TrustIsRecent, Trusted!RecentSpec
=============================================================================
