---------------------------- MODULE KeywordIndex ----------------------------
(***************************************************************************)
(* The encrypted keyword index of one database, as the enclave keeps it    *)
(* (CryptoEnclave.cpp: store_bitmap_batch, UpdateKeywords, Search, the     *)
(* dummy pool, persist / load of the context).                             *)
(*                                                                         *)
(* Every keyword has a bitmap: the set of documents it is posted for.  The *)
(* bitmap lies on the server under a label derived from the keyword and a  *)
(* version; KVS holds the current version of each keyword and CK caches a  *)
(* few bitmaps inside the enclave.  Unused keyword slots are filled with   *)
(* dummies, named here by the number n of the code's "dummy_<n>".          *)
(*                                                                         *)
(* One step is one turn of the loop of UpdateKeywords, one Search, one     *)
(* appended dummy, or one of the two host writes of a persist; a crash can *)
(* fall between any two of them, or in the middle of a batch of writes.    *)
(***************************************************************************)
EXTENDS Integers, FiniteSets, Functions

CONSTANTS
  Words,        \* keywords that documents use
  LongWords,    \* those longer than MAX_KEYWORD_LEN
  Docs,         \* document numbers
  CK_max,       \* capacity of the bitmap cache
  InitDummies,  \* dummies provisioned with the database
  MaxDummies,   \* bound: dummies ever created
  MaxLabels     \* bound: bitmaps the server has room for

ASSUME KeywordIndexAssumption ==
  /\ Words \cap Int = {} /\ LongWords \subseteq Words
  /\ CK_max \in Nat \ {0}
  /\ InitDummies \in Nat /\ MaxDummies \in Nat /\ MaxLabels \in Nat

VARIABLES
  session,      \* "up", "sealing" (bitmaps flushed, context not yet sealed), "down"
  KVS,          \* keyword -> version of its current bitmap
  words_KVS,    \* the keywords that random picks draw from
  CK,           \* keyword -> cached bitmap
  dummy_count,  \* dummies the code counts as unused
  dummy_size,   \* dummies ever created
  bitmaps,      \* server: <<keyword, version>> -> bitmap
  snapshot,     \* server: the sealed context (context.dat)
  postings,     \* history: word -> documents that acknowledged updates posted
  rewound       \* history: stored words whose version was reset since the seal

enclave == <<KVS, words_KVS, CK, dummy_count, dummy_size>>
vars == <<session, enclave, bitmaps, snapshot, postings, rewound>>

Key == Words \cup Nat
Dummies(n) == 0..(n - 1)
Empty == [x \in {} |-> {}]
Put(f, k, v) == [x \in DOMAIN f \cup {k} |-> IF x = k THEN v ELSE f[x]]

-----------------------------------------------------------------------------
(* Reading and writing bitmaps.                                            *)

Load(k) == bitmaps[<<k, KVS[k]>>]

(* Mutant: the version is not advanced.                                    *)
NextVersion_Same(kvs, k) == IF k \in DOMAIN kvs THEN kvs[k] ELSE 1

(* The version store_bitmap_batch gives k: KVS[word] + 1, where operator[] *)
(* makes a missing keyword start from 0.                                   *)
NextVersion(kvs, k) == IF k \in DOMAIN kvs THEN kvs[k] + 1 ELSE 1

(* Mutant: the label is derived from the version before it is advanced.    *)
BitmapsAfter_OldLabel(kvs, ck, S) ==
  LET labels == {<<k, NextVersion(kvs, k) - 1>> : k \in S}
  IN  [l \in DOMAIN bitmaps \cup labels |->
         IF l \in labels THEN ck[l[1]] ELSE bitmaps[l]]

BitmapsAfter(kvs, ck, S) ==
  LET labels == {<<k, NextVersion(kvs, k)>> : k \in S}
  IN  [l \in DOMAIN bitmaps \cup labels |->
         IF l \in labels THEN ck[l[1]] ELSE bitmaps[l]]

WriteBitmaps(b) == Cardinality(DOMAIN b) <= MaxLabels /\ bitmaps' = b

(* Store the cached bitmaps of S under their next versions and drop them   *)
(* from the cache, starting from the version table kvs and the cache ck.   *)
StoreBatch(kvs, ck, S) ==
  /\ KVS' = [k \in DOMAIN kvs \cup S |->
               IF k \in S THEN NextVersion(kvs, k) ELSE kvs[k]]
  /\ CK' = Restrict(ck, DOMAIN ck \ S)
  /\ WriteBitmaps(BitmapsAfter(kvs, ck, S))

(* What the final std::sample may select to bring a cache with the keys D  *)
(* down to CK_max without touching w.                                      *)
Overflow(D, w) ==
  {S \in SUBSET (D \ {w}) :
     Cardinality(S) = IF Cardinality(D) > CK_max THEN Cardinality(D) - CK_max ELSE 0}

(* pick_random_uncached_word: its 256 draws are taken to find an uncached  *)
(* keyword when there is one.  It also gives up at once when the cache is  *)
(* as large as the list (which may hold a keyword twice, so this check may *)
(* pass where the set alone would fail it).                                *)
Uncached == words_KVS \ DOMAIN CK
PickFails == Uncached = {} \/ Cardinality(DOMAIN CK) >= Cardinality(words_KVS)

(* What Search returns for w: nothing, the cached or the stored bitmap.    *)
Content(w) == IF w \notin DOMAIN KVS THEN {}
              ELSE IF w \in DOMAIN CK THEN CK[w] ELSE Load(w)
Missing(w) == postings[w] \ Content(w)

Roomy == Cardinality(DOMAIN CK) < CK_max \/ Cardinality(DOMAIN KVS) = CK_max

-----------------------------------------------------------------------------
(* The sealed context: keywords that are too long are left out of the list *)
(* but counted in its length, and a list shorter than its length does not  *)
(* deserialize.  saved and postings are history: what the labels held when *)
(* the context was sealed (or last opened), and what had been posted.      *)
NoSnapshot == [taken |-> FALSE]
Sealed ==
  [taken |-> TRUE, count |-> Cardinality(DOMAIN KVS),
   KVS |-> Restrict(KVS, DOMAIN KVS \ LongWords),
   dummy_count |-> dummy_count, dummy_size |-> dummy_size,
   saved |-> [k \in DOMAIN KVS |-> Load(k)], postings |-> postings]
Restorable(s) == s.count = Cardinality(DOMAIN s.KVS)

(* ecall_update_init: the dummies are stored at version 0.                 *)
Init ==
  /\ session = "up"
  /\ KVS = [k \in Dummies(InitDummies) |-> 0]
  /\ words_KVS = Dummies(InitDummies)
  /\ CK = Empty
  /\ dummy_count = InitDummies /\ dummy_size = InitDummies
  /\ bitmaps = [l \in Dummies(InitDummies) \X {0} |-> {}]
  /\ snapshot = NoSnapshot
  /\ postings = [w \in Words |-> {}]
  /\ rewound = {}

(* The enclave is gone (process killed, or an exception left it): its      *)
(* memory is lost, the server's files stay.                                *)
LoseEnclave ==
  /\ session' = "down"
  /\ KVS' = Empty /\ words_KVS' = {} /\ CK' = Empty
  /\ dummy_count' = 0 /\ dummy_size' = 0
  /\ UNCHANGED <<snapshot, postings, rewound>>

-----------------------------------------------------------------------------
(* UpdateKeywords, one keyword w of document d.                            *)

Flip(bm, d, op) == IF op = "ADD" THEN bm \cup {d} ELSE bm \ {d}

Acknowledge(w, d, op) ==
  postings' = [postings EXCEPT ![w] = Flip(@, d, op)]

(* Store w's bitmap, then sample the cache down to CK_max.                 *)
StoreWord(kvs, ck, w) ==
  \E out \in Overflow(DOMAIN ck \ {w}, w) : StoreBatch(kvs, ck, {w} \cup out)

(* The cache is empty: a fresh bitmap and version 1, whether or not w is   *)
(* already known.                                                          *)
UpdateEmptyCache(w, d, op) ==
  /\ DOMAIN CK = {}
  /\ StoreBatch(Put(KVS, w, 1), Put(CK, w, Flip({}, d, op)), {w})
  /\ words_KVS' = words_KVS \cup {w}
  /\ rewound' = rewound \cup ({w} \cap DOMAIN KVS)
  /\ UNCHANGED <<dummy_count, dummy_size>>

(* w is cached and the cache has room (or holds the whole index).          *)
UpdateCached(w, d, op) ==
  /\ w \in DOMAIN CK /\ Roomy
  /\ StoreWord(KVS, Put(CK, w, Flip(CK[w], d, op)), w)
  /\ UNCHANGED <<words_KVS, dummy_count, dummy_size, rewound>>

(* Mutant: the companion is stored back in place of the updated word.      *)
UpdateCachedSwap_StoresCompanion(w, d, op) ==
  /\ w \in DOMAIN CK /\ ~Roomy
  /\ \E c \in Uncached :
       StoreWord(KVS, Put(Put(CK, c, Load(c)), w, Flip(CK[w], d, op)), c)
  /\ UNCHANGED <<words_KVS, dummy_count, dummy_size, rewound>>

(* Mutant: no companion is loaded.                                         *)
UpdateCachedSwap_NoCompanion(w, d, op) ==
  /\ w \in DOMAIN CK /\ ~Roomy
  /\ StoreWord(KVS, Put(CK, w, Flip(CK[w], d, op)), w)
  /\ UNCHANGED <<words_KVS, dummy_count, dummy_size, rewound>>

(* w is cached and the cache is full: a random uncached companion is       *)
(* loaded in exchange for w.                                               *)
UpdateCachedSwap(w, d, op) ==
  /\ w \in DOMAIN CK /\ ~Roomy
  /\ \E c \in Uncached :
       StoreWord(KVS, Put(Put(CK, c, Load(c)), w, Flip(CK[w], d, op)), w)
  /\ UNCHANGED <<words_KVS, dummy_count, dummy_size, rewound>>

(* The same, without a companion: a warning, and the update is skipped.    *)
UpdateSkipped(w) ==
  /\ w \in DOMAIN CK /\ ~Roomy /\ PickFails
  /\ UNCHANGED <<enclave, bitmaps, rewound>>

(* Mutant: the stored bitmap is ignored, as in UpdateEmptyCache.           *)
UpdateStored_Fresh(w, d, op) ==
  /\ DOMAIN CK # {} /\ w \in DOMAIN KVS \ DOMAIN CK
  /\ StoreWord(KVS, Put(CK, w, Flip({}, d, op)), w)
  /\ UNCHANGED <<words_KVS, dummy_count, dummy_size, rewound>>

(* Mutant: the bit is set whatever the operation.                          *)
UpdateStored_AlwaysAdds(w, d, op) ==
  /\ DOMAIN CK # {} /\ w \in DOMAIN KVS \ DOMAIN CK
  /\ StoreWord(KVS, Put(CK, w, Load(w) \cup {d}), w)
  /\ UNCHANGED <<words_KVS, dummy_count, dummy_size, rewound>>

(* w is known but not cached: load, flip, store.                           *)
UpdateStored(w, d, op) ==
  /\ DOMAIN CK # {} /\ w \in DOMAIN KVS \ DOMAIN CK
  /\ StoreWord(KVS, Put(CK, w, Flip(Load(w), d, op)), w)
  /\ UNCHANGED <<words_KVS, dummy_count, dummy_size, rewound>>

(* w is new and the cache has room.                                        *)
UpdateNew(w, d, op) ==
  /\ DOMAIN CK # {} /\ w \notin DOMAIN KVS \cup DOMAIN CK /\ Roomy
  /\ StoreWord(Put(KVS, w, 1), Put(CK, w, Flip({}, d, op)), w)
  /\ words_KVS' = words_KVS \cup {w}
  /\ UNCHANGED <<dummy_count, dummy_size, rewound>>

(* Mutant: the consumed dummy is not counted.                              *)
UpdateNewForDummy_NotCounted(w, d, op) ==
  /\ DOMAIN CK # {} /\ w \notin DOMAIN KVS \cup DOMAIN CK /\ ~Roomy
  /\ dummy_count > 0
  /\ \E n \in Dummies(dummy_size) \cap DOMAIN KVS :
       /\ StoreWord(Put(Restrict(KVS, DOMAIN KVS \ {n}), w, 1),
                    Put(CK, w, Flip({}, d, op)), w)
       /\ words_KVS' = (words_KVS \ {n}) \cup {w}
  /\ UNCHANGED <<dummy_count, dummy_size, rewound>>

(* Mutant: dummy_count is not consulted.                                   *)
UpdateNewForDummy_Unguarded(w, d, op) ==
  /\ DOMAIN CK # {} /\ w \notin DOMAIN KVS \cup DOMAIN CK /\ ~Roomy
  /\ \E n \in Dummies(dummy_size) \cap DOMAIN KVS :
       /\ StoreWord(Put(Restrict(KVS, DOMAIN KVS \ {n}), w, 1),
                    Put(CK, w, Flip({}, d, op)), w)
       /\ words_KVS' = (words_KVS \ {n}) \cup {w}
  /\ dummy_count' = dummy_count - 1
  /\ UNCHANGED <<dummy_size, rewound>>

(* Mutant: the new word is not added to words_KVS.                         *)
UpdateNewForDummy_NotListed(w, d, op) ==
  /\ DOMAIN CK # {} /\ w \notin DOMAIN KVS \cup DOMAIN CK /\ ~Roomy
  /\ dummy_count > 0
  /\ \E n \in Dummies(dummy_size) \cap DOMAIN KVS :
       /\ StoreWord(Put(Restrict(KVS, DOMAIN KVS \ {n}), w, 1),
                    Put(CK, w, Flip({}, d, op)), w)
       /\ words_KVS' = words_KVS \ {n}
  /\ dummy_count' = dummy_count - 1
  /\ UNCHANGED <<dummy_size, rewound>>

(* w is new and the cache is full: w takes the place of a random dummy.    *)
(* The dummy leaves KVS and words_KVS, but not the cache.                  *)
UpdateNewForDummy(w, d, op) ==
  /\ DOMAIN CK # {} /\ w \notin DOMAIN KVS \cup DOMAIN CK /\ ~Roomy
  /\ dummy_count > 0
  /\ \E n \in Dummies(dummy_size) \cap DOMAIN KVS :
       /\ StoreWord(Put(Restrict(KVS, DOMAIN KVS \ {n}), w, 1),
                    Put(CK, w, Flip({}, d, op)), w)
       /\ words_KVS' = (words_KVS \ {n}) \cup {w}
  /\ dummy_count' = dummy_count - 1
  /\ UNCHANGED <<dummy_size, rewound>>

(* The same without a dummy left: "Lack of capacity" is thrown, and        *)
(* nothing in the enclave catches it.                                      *)
UpdateNoCapacity(w) ==
  /\ DOMAIN CK # {} /\ w \notin DOMAIN KVS \cup DOMAIN CK /\ ~Roomy
  /\ dummy_count <= 0
  /\ LoseEnclave /\ UNCHANGED bitmaps

UpdateKeyword(w, d, op) ==
  /\ session = "up" /\ UNCHANGED <<session, snapshot>>
  /\ Acknowledge(w, d, op)
  /\ \/ UpdateEmptyCache(w, d, op)
     \/ UpdateCached(w, d, op)
     \/ UpdateCachedSwap(w, d, op)
     \/ UpdateSkipped(w)
     \/ UpdateStored(w, d, op)
     \/ UpdateNew(w, d, op)
     \/ UpdateNewForDummy(w, d, op)

UpdateThrows(w) == session = "up" /\ UpdateNoCapacity(w)

-----------------------------------------------------------------------------
(* Search(w): a word that is not cached is loaded into the cache; for one  *)
(* that is, a random uncached companion is.  The surplus is stored back    *)
(* under fresh versions.  (A word the index does not know returns the      *)
(* empty bitmap and changes nothing.)                                      *)
Search(w) ==
  /\ session = "up" /\ w \in DOMAIN KVS
  /\ \E k \in IF w \in DOMAIN CK THEN Uncached ELSE {w} :
       LET ck == Put(CK, k, Load(k))
       IN  \E out \in Overflow(DOMAIN ck, w) : StoreBatch(KVS, ck, out)
  /\ UNCHANGED <<session, words_KVS, dummy_count, dummy_size, snapshot,
                 postings, rewound>>

(* "No keywords available for random selection" is thrown.                 *)
SearchThrows(w) ==
  /\ session = "up"
  /\ w \notin DOMAIN KVS \/ w \in DOMAIN CK
  /\ PickFails
  /\ LoseEnclave /\ UNCHANGED bitmaps

(* append_dummy_keywords(1), run by every twentieth update.                *)
AppendDummy ==
  /\ session = "up" /\ dummy_size < MaxDummies
  /\ KVS' = [k \in DOMAIN KVS \cup {dummy_size} |->
               IF k \in DOMAIN KVS THEN KVS[k] ELSE 0]
  /\ words_KVS' = words_KVS \cup {dummy_size}
  /\ WriteBitmaps(Put(bitmaps, <<dummy_size, 0>>, {}))
  /\ dummy_count' = dummy_count + 1 /\ dummy_size' = dummy_size + 1
  /\ UNCHANGED <<session, CK, snapshot, postings, rewound>>

-----------------------------------------------------------------------------
(* persist_active_context_to_storage: first every cached bitmap, then the  *)
(* sealed context.                                                         *)
PersistFlush ==
  /\ session = "up" /\ session' = "sealing"
  /\ StoreBatch(KVS, CK, DOMAIN CK)
  /\ UNCHANGED <<words_KVS, dummy_count, dummy_size, snapshot, postings, rewound>>

PersistSeal ==
  /\ session = "sealing" /\ session' = "up"
  /\ snapshot' = Sealed
  /\ rewound' = {}
  /\ UNCHANGED <<enclave, bitmaps, postings>>

(* The process dies; of a batch being written, some files may be there.    *)
Crash ==
  /\ session # "down"
  /\ \E S \in SUBSET DOMAIN CK : WriteBitmaps(BitmapsAfter(KVS, CK, S))
  /\ LoseEnclave

(* load_active_context_from_storage: the sealed context, and the bitmaps   *)
(* of the first CK_max keywords in an arbitrary order.  The history takes  *)
(* over what was posted at the seal and what the labels now hold.          *)
Reload ==
  /\ session = "down" /\ session' = "up"
  /\ snapshot.taken /\ Restorable(snapshot)
  /\ KVS' = snapshot.KVS /\ words_KVS' = DOMAIN snapshot.KVS
  /\ dummy_count' = snapshot.dummy_count /\ dummy_size' = snapshot.dummy_size
  /\ \E D \in SUBSET DOMAIN snapshot.KVS :
       /\ IF Cardinality(DOMAIN snapshot.KVS) < CK_max
          THEN D = DOMAIN snapshot.KVS
          ELSE Cardinality(D) = CK_max
       /\ CK' = [k \in D |-> bitmaps[<<k, snapshot.KVS[k]>>]]
  /\ postings' = [w \in Words |-> snapshot.postings[w] \cup
                    IF w \in DOMAIN snapshot.KVS
                    THEN bitmaps[<<w, snapshot.KVS[w]>>] ELSE {}]
  /\ snapshot' = [snapshot EXCEPT !.saved =
                     [k \in DOMAIN snapshot.KVS |-> bitmaps[<<k, snapshot.KVS[k]>>]]]
  /\ rewound' = {}
  /\ UNCHANGED bitmaps

Next ==
  \/ \E w \in Words, d \in Docs, op \in {"ADD", "DEL"} : UpdateKeyword(w, d, op)
  \/ \E w \in Words : UpdateThrows(w)
  \/ \E w \in Words : Search(w)
  \/ \E w \in Words : SearchThrows(w)
  \/ AppendDummy
  \/ PersistFlush
  \/ PersistSeal
  \/ Crash
  \/ Reload

Spec == Init /\ [][Next]_vars

-----------------------------------------------------------------------------
(* Every variable has the shape of its C++ counterpart; the counters never *)
(* go below zero (UpdateKeywords throws before it would consume a dummy    *)
(* that dummy_count does not have).                                        *)
TypeOK ==
  /\ session \in {"up", "sealing", "down"}
  /\ KVS \in [DOMAIN KVS -> Nat] /\ DOMAIN KVS \subseteq Key
  /\ words_KVS \subseteq DOMAIN KVS
  /\ CK \in [DOMAIN CK -> SUBSET Docs] /\ DOMAIN CK \subseteq Key
  /\ dummy_count \in Nat /\ dummy_size \in Nat
  /\ bitmaps \in [DOMAIN bitmaps -> SUBSET Docs]
  /\ DOMAIN bitmaps \subseteq Key \X Nat
  /\ postings \in [Words -> SUBSET Docs]
  /\ rewound \subseteq Words

(* The version table never names a bitmap the server does not hold:        *)
(* ocall_load_bitmap is never answered "Not found!" with an empty cipher.  *)
VersionsStored == \A k \in DOMAIN KVS : <<k, KVS[k]>> \in DOMAIN bitmaps

(* A cached bitmap is the one stored under the keyword's current version.  *)
(* A cached keyword that left KVS is a consumed dummy and is empty, so     *)
(* that storing it back puts no posting anywhere.                          *)
CacheCoherent ==
  \A k \in DOMAIN CK : IF k \in DOMAIN KVS THEN CK[k] = Load(k)
                       ELSE k \in Nat /\ CK[k] = {}

(* Between two requests the cache never exceeds CK_max.                    *)
CacheBounded == Cardinality(DOMAIN CK) <= CK_max

(* When the pool of dummies is larger than the cache (1000 and 10 in the   *)
(* code), a companion for a cached keyword is always found: no update is   *)
(* skipped with a warning and no search throws.                            *)
PoolIsLarge == InitDummies > CK_max
CompanionAvailable == session = "up" => ~PickFails

(* While dummy_count is positive KVS holds a dummy below dummy_size, so    *)
(* the loop that draws "dummy_<n>" until it hits one can terminate, even   *)
(* though a consumed dummy may come back from the cache into KVS.          *)
DummyReserve ==
  dummy_count <= Cardinality(Dummies(dummy_size) \cap DOMAIN KVS)

(* A search never returns a document the word was not posted for.          *)
NoPhantomPosting ==
  session # "down" => \A w \in Words : Content(w) \subseteq postings[w]

(* But for words whose version was reset, every bitmap the sealed context  *)
(* names is still what it was when the context was sealed or last opened,  *)
(* whatever was written since: a crash takes the index back to that point. *)
SnapshotIntact ==
  snapshot.taken =>
    \A k \in DOMAIN snapshot.KVS \ rewound :
      bitmaps[<<k, snapshot.KVS[k]>>] = snapshot.saved[k]

(* No step of a session that finds the cache non-empty loses a posting of  *)
(* any word: neither the update's own word nor one that is swapped out,    *)
(* spilled or flushed.                                                     *)
WarmStepKeepsPostings ==
  [][session # "down" /\ session' # "down" /\ DOMAIN CK # {}
       => \A w \in Words : Missing(w)' \subseteq Missing(w)]_vars

(* A full cache stays full until the context is persisted or lost: a       *)
(* session opened from a sealed context with CK_max keywords never gets    *)
(* to the branch of UpdateKeywords for an empty cache.                     *)
FullCacheStaysFull ==
  [][session = "up" /\ session' = "up" /\ Cardinality(DOMAIN CK) = CK_max
       => Cardinality(DOMAIN CK') = CK_max]_vars

(* "Existing but uncached keywords reuse the persisted bitmap and flip one *)
(* bit" (CryptoEnclave.cpp:1202), and cached ones "keep their own bitmap"  *)
(* (1193): no acknowledged posting is ever missing from the index.         *)
NoPostingLost ==
  session # "down" => \A w \in Words : Missing(w) = {}

(* What a user of the index sees is what PostingStore says, for any pool   *)
(* of dummies: versions, labels, companions, spills, flushes and crashes   *)
(* in the middle of one never show, and a sealed context is what the index *)
(* was, but for words that were started anew since.                        *)
Reopens == snapshot.taken /\ Restorable(snapshot)
Store == INSTANCE PostingStore WITH
  open <- session # "down",
  cold <- DOMAIN CK = {},
  index <- [w \in Words |-> Content(w)],
  openable <- Reopens,
  sealed <- [w \in Words |-> IF Reopens /\ w \in DOMAIN snapshot.KVS
                             THEN bitmaps[<<w, snapshot.KVS[w]>>] ELSE {}]
ImplementsPostingStore == Store!Spec

(* A sealed context can be opened again (README.md:256, on reconnecting to *)
(* an existing database).                                                  *)
SnapshotOpens == snapshot.taken => Restorable(snapshot)
=============================================================================
