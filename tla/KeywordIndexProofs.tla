------------------------- MODULE KeywordIndexProofs -------------------------
(***************************************************************************)
(* Proofs about the keyword index, for any words, documents, cache size    *)
(* and number of dummies.                                                  *)
(*                                                                         *)
(* Every update, search and flush ends in StoreBatch, starting from a      *)
(* version table kvs and a cache ck that the step has just prepared.  The  *)
(* argument is therefore made once for a batch (Batched, Framed, BatchStep)*)
(* and each action only has to show what it hands to its batch.            *)
(*                                                                         *)
(* The second half is about sizes: the cache stays within CK_max, the      *)
(* keywords never get fewer than the dummies the database was provisioned  *)
(* with, and the counted dummies are really there.  With a pool larger     *)
(* than the cache no update is skipped and no search throws, and with that *)
(* no search returns a document the word was not posted for, only an       *)
(* update with an empty cache loses postings, and a full cache does not    *)
(* get there within a session.  At the end the index is shown to implement *)
(* PostingStore.                                                           *)
(***************************************************************************)
EXTENDS KeywordIndex, FiniteSetTheorems, TLAPS

-----------------------------------------------------------------------------
(* The inductive invariant.                                                *)

(* Whatever is stored or cached for a dummy is empty, so that a consumed   *)
(* dummy that comes back from the cache brings no posting with it.         *)
DummiesEmpty ==
  /\ \A l \in DOMAIN bitmaps : l[1] \in Nat => bitmaps[l] = {}
  /\ \A k \in DOMAIN CK : k \in Nat => CK[k] = {}

(* The sealed context has the shape of the live one, and the server still  *)
(* holds every bitmap it names.                                            *)
Fields == {"taken", "count", "KVS", "dummy_count", "dummy_size", "saved", "postings"}
SnapshotStored ==
  /\ snapshot.taken \in BOOLEAN
  /\ snapshot.taken =>
       /\ DOMAIN snapshot = Fields
       /\ snapshot.KVS \in [DOMAIN snapshot.KVS -> Nat]
       /\ DOMAIN snapshot.KVS \subseteq Key
       /\ snapshot.dummy_count \in Nat /\ snapshot.dummy_size \in Nat
       /\ snapshot.postings \in [Words -> SUBSET Docs]
       /\ \A k \in DOMAIN snapshot.KVS :
            /\ <<k, snapshot.KVS[k]>> \in DOMAIN bitmaps
            /\ k \in Nat => snapshot.saved[k] = {}

(* Versions only grow between two seals unless one is reset: kvs is at or  *)
(* past the sealed version of every word that was sealed, but for those of *)
(* R.                                                                      *)
PastSnapshot(kvs, R) ==
  snapshot.taken =>
    \A w \in (Words \cap DOMAIN snapshot.KVS) \ R :
      w \in DOMAIN kvs /\ snapshot.KVS[w] <= kvs[w]

IInv ==
  /\ TypeOK /\ VersionsStored /\ CacheCoherent
  /\ DummiesEmpty /\ SnapshotStored
  /\ session # "down" => PastSnapshot(KVS, rewound)
  /\ SnapshotIntact

-----------------------------------------------------------------------------
(* A version table and a cache that a step may hand to StoreBatch with S.  *)
Prepared(kvs, ck, S) ==
  /\ kvs \in [DOMAIN kvs -> Nat] /\ DOMAIN kvs \subseteq Key
  /\ ck \in [DOMAIN ck -> SUBSET Docs] /\ DOMAIN ck \subseteq Key
  /\ S \subseteq DOMAIN ck
  /\ \A k \in DOMAIN kvs \ S : <<k, kvs[k]>> \in DOMAIN bitmaps
  /\ \A k \in DOMAIN ck \ S :
       IF k \in DOMAIN kvs THEN ck[k] = bitmaps[<<k, kvs[k]>>] ELSE k \in Nat
  /\ \A k \in DOMAIN ck : k \in Nat => ck[k] = {}

(* What a search for k would find in them.                                 *)
Held(kvs, ck, k) ==
  IF k \in DOMAIN ck THEN ck[k]
  ELSE IF k \in DOMAIN kvs THEN bitmaps[<<k, kvs[k]>>] ELSE {}

LEMMA KeyFacts == /\ \A w \in Words : w \notin Nat
                  /\ Words \subseteq Key /\ Nat \subseteq Key
BY KeywordIndexAssumption DEF Key

(* The server's bitmaps b after a batch: exactly the new labels changed.   *)
Wrote(b, kvs, ck, S) ==
  /\ b = [l \in DOMAIN b |-> b[l]]
  /\ DOMAIN b = DOMAIN bitmaps \cup {<<k, NextVersion(kvs, k)>> : k \in S}
  /\ \A k \in S : b[<<k, NextVersion(kvs, k)>>] = ck[k]
  /\ \A l \in DOMAIN b :
       \/ \E k \in S : l = <<k, NextVersion(kvs, k)>> /\ b[l] = ck[k]
       \/ l \in DOMAIN bitmaps /\ b[l] = bitmaps[l]
  /\ \A k, v : <<k, v>> \in DOMAIN bitmaps
                 /\ (k \in S => v # NextVersion(kvs, k))
               => b[<<k, v>>] = bitmaps[<<k, v>>]

LEMMA BatchWrites ==
  ASSUME NEW kvs, NEW ck, NEW S
  PROVE  Wrote(BitmapsAfter(kvs, ck, S), kvs, ck, S)
<1> DEFINE labels == {<<k, NextVersion(kvs, k)>> : k \in S}
<1> DEFINE b == BitmapsAfter(kvs, ck, S)
<1>1. b = [l \in DOMAIN bitmaps \cup labels |->
             IF l \in labels THEN ck[l[1]] ELSE bitmaps[l]]
  BY DEF BitmapsAfter
<1>2. DOMAIN b = DOMAIN bitmaps \cup labels
  BY <1>1
<1>3. \A k \in S : <<k, NextVersion(kvs, k)>> \in labels
  OBVIOUS
<1>4. \A k \in S : b[<<k, NextVersion(kvs, k)>>] = ck[k]
  BY <1>1, <1>3
<1>5. \A l \in labels : \E k \in S : l = <<k, NextVersion(kvs, k)>>
  OBVIOUS
<1>6. \A l \in DOMAIN b : l \notin labels => l \in DOMAIN bitmaps /\ b[l] = bitmaps[l]
  BY <1>1, <1>2
<1>7. \A k, v : <<k, v>> \in labels => k \in S /\ v = NextVersion(kvs, k)
  OBVIOUS
<1>8. \A k, v : <<k, v>> \in DOMAIN bitmaps /\ <<k, v>> \notin labels
                  => b[<<k, v>>] = bitmaps[<<k, v>>]
  BY <1>1
<1> HIDE DEF b, labels
<1>9. \A k, v : <<k, v>> \in DOMAIN bitmaps /\ (k \in S => v # NextVersion(kvs, k))
                  => b[<<k, v>>] = bitmaps[<<k, v>>]
  BY <1>7, <1>8
<1>10. \A l \in DOMAIN b :
         \/ \E k \in S : l = <<k, NextVersion(kvs, k)>> /\ b[l] = ck[k]
         \/ l \in DOMAIN bitmaps /\ b[l] = bitmaps[l]
  BY <1>4, <1>5, <1>6
<1>11. b = [l \in DOMAIN b |-> b[l]]
  BY <1>1, <1>2
<1> QED BY <1>2, <1>4, <1>9, <1>10, <1>11 DEF b, labels, Wrote

(* After a batch the tables have their types, every version is stored, the *)
(* cache is coherent and dummies are still empty.                          *)
LEMMA BatchStored ==
  ASSUME NEW kvs, NEW ck, NEW S,
         bitmaps \in [DOMAIN bitmaps -> SUBSET Docs],
         DOMAIN bitmaps \subseteq Key \X Nat,
         \A l \in DOMAIN bitmaps : l[1] \in Nat => bitmaps[l] = {},
         Prepared(kvs, ck, S), StoreBatch(kvs, ck, S)
  PROVE  /\ KVS' \in [DOMAIN KVS' -> Nat] /\ DOMAIN KVS' = DOMAIN kvs \cup S
         /\ DOMAIN KVS' \subseteq Key
         /\ CK' \in [DOMAIN CK' -> SUBSET Docs] /\ DOMAIN CK' \subseteq Key
         /\ bitmaps' \in [DOMAIN bitmaps' -> SUBSET Docs]
         /\ DOMAIN bitmaps' \subseteq Key \X Nat
         /\ DOMAIN bitmaps \subseteq DOMAIN bitmaps'
         /\ VersionsStored' /\ CacheCoherent' /\ DummiesEmpty'
<1> DEFINE b == BitmapsAfter(kvs, ck, S)
<1>0. Wrote(b, kvs, ck, S)
  BY BatchWrites
<1>1. /\ kvs \in [DOMAIN kvs -> Nat] /\ DOMAIN kvs \subseteq Key
      /\ ck \in [DOMAIN ck -> SUBSET Docs] /\ DOMAIN ck \subseteq Key
      /\ S \subseteq DOMAIN ck
      /\ \A k \in DOMAIN ck : k \in Nat => ck[k] = {}
  BY DEF Prepared
<1>2. /\ KVS' = [k \in DOMAIN kvs \cup S |->
                   IF k \in S THEN NextVersion(kvs, k) ELSE kvs[k]]
      /\ CK' = [k \in DOMAIN ck \ S |-> ck[k]]
      /\ bitmaps' = b
  BY DEF StoreBatch, WriteBitmaps, Restrict
<1> HIDE DEF b
<1>3. /\ b = [l \in DOMAIN b |-> b[l]]
      /\ DOMAIN b = DOMAIN bitmaps \cup {<<k, NextVersion(kvs, k)>> : k \in S}
      /\ \A k \in S : b[<<k, NextVersion(kvs, k)>>] = ck[k]
      /\ \A l \in DOMAIN b :
           \/ \E k \in S : l = <<k, NextVersion(kvs, k)>> /\ b[l] = ck[k]
           \/ l \in DOMAIN bitmaps /\ b[l] = bitmaps[l]
      /\ \A k, v : <<k, v>> \in DOMAIN bitmaps
                     /\ (k \in S => v # NextVersion(kvs, k))
                   => b[<<k, v>>] = bitmaps[<<k, v>>]
  BY <1>0 DEF Wrote
<1>4. \A k : NextVersion(kvs, k) \in Nat
  BY <1>1 DEF NextVersion
<1>5. /\ KVS' \in [DOMAIN KVS' -> Nat] /\ DOMAIN KVS' = DOMAIN kvs \cup S
      /\ DOMAIN KVS' \subseteq Key
  BY <1>1, <1>2, <1>4
<1>6. CK' \in [DOMAIN CK' -> SUBSET Docs] /\ DOMAIN CK' \subseteq Key
  BY <1>1, <1>2
<1>7. DOMAIN b \subseteq Key \X Nat
  BY <1>1, <1>3, <1>4
<1>8. \A l \in DOMAIN b : b[l] \in SUBSET Docs
  BY <1>1, <1>3
<1>9. b \in [DOMAIN b -> SUBSET Docs]
  BY <1>3, <1>8
<1>10. \A k \in DOMAIN KVS' : <<k, KVS'[k]>> \in DOMAIN b
  <2> SUFFICES ASSUME NEW k \in DOMAIN KVS' PROVE <<k, KVS'[k]>> \in DOMAIN b
    OBVIOUS
  <2>1. CASE k \in S
    BY <2>1, <1>2, <1>3
  <2>2. CASE k \notin S
    <3>1. k \in DOMAIN kvs \ S /\ KVS'[k] = kvs[k]
      BY <2>2, <1>2
    <3>2. <<k, kvs[k]>> \in DOMAIN bitmaps
      BY <3>1 DEF Prepared
    <3> QED BY <3>1, <3>2, <1>3
  <2> QED BY <2>1, <2>2
<1>11. \A k \in DOMAIN CK' : IF k \in DOMAIN KVS' THEN CK'[k] = b[<<k, KVS'[k]>>]
                             ELSE k \in Nat /\ CK'[k] = {}
  <2> SUFFICES ASSUME NEW k \in DOMAIN CK'
               PROVE  IF k \in DOMAIN KVS' THEN CK'[k] = b[<<k, KVS'[k]>>]
                      ELSE k \in Nat /\ CK'[k] = {}
    OBVIOUS
  <2>1. k \in DOMAIN ck \ S /\ CK'[k] = ck[k]
    BY <1>2
  <2>2. IF k \in DOMAIN kvs THEN ck[k] = bitmaps[<<k, kvs[k]>>] ELSE k \in Nat
    BY <2>1 DEF Prepared
  <2>3. CASE k \in DOMAIN kvs
    <3>1. k \in DOMAIN KVS' /\ KVS'[k] = kvs[k]
      BY <2>1, <2>3, <1>2
    <3>2. <<k, kvs[k]>> \in DOMAIN bitmaps
      BY <2>1, <2>3 DEF Prepared
    <3>3. b[<<k, kvs[k]>>] = bitmaps[<<k, kvs[k]>>]
      BY <2>1, <3>2, <1>3
    <3> QED BY <2>1, <2>2, <2>3, <3>1, <3>3
  <2>4. CASE k \notin DOMAIN kvs
    BY <2>1, <2>2, <2>4, <1>1, <1>2
  <2> QED BY <2>3, <2>4
<1>12. \A l \in DOMAIN b : l[1] \in Nat => b[l] = {}
  BY <1>1, <1>3
<1>13. \A k \in DOMAIN CK' : k \in Nat => CK'[k] = {}
  BY <1>1, <1>2
<1> QED
  BY <1>2, <1>3, <1>5, <1>6, <1>7, <1>9, <1>10, <1>11, <1>12, <1>13
     DEF VersionsStored, CacheCoherent, Load, DummiesEmpty

(* A batch moves bitmaps and changes none: a word's content afterwards is  *)
(* what the step had prepared for it.                                      *)
LEMMA BatchKeeps ==
  ASSUME NEW kvs, NEW ck, NEW S,
         bitmaps \in [DOMAIN bitmaps -> SUBSET Docs],
         Prepared(kvs, ck, S), StoreBatch(kvs, ck, S)
  PROVE  \A w \in Words : Content(w)' = Held(kvs, ck, w)
<1> DEFINE b == BitmapsAfter(kvs, ck, S)
<1>0. Wrote(b, kvs, ck, S)
  BY BatchWrites
<1>1. kvs \in [DOMAIN kvs -> Nat] /\ S \subseteq DOMAIN ck
  BY DEF Prepared
<1>2. /\ KVS' = [k \in DOMAIN kvs \cup S |->
                   IF k \in S THEN NextVersion(kvs, k) ELSE kvs[k]]
      /\ CK' = [k \in DOMAIN ck \ S |-> ck[k]]
      /\ bitmaps' = b
  BY DEF StoreBatch, WriteBitmaps, Restrict
<1> HIDE DEF b
<1>3. /\ \A k \in S : b[<<k, NextVersion(kvs, k)>>] = ck[k]
      /\ \A k, v : <<k, v>> \in DOMAIN bitmaps
                     /\ (k \in S => v # NextVersion(kvs, k))
                   => b[<<k, v>>] = bitmaps[<<k, v>>]
  BY <1>0 DEF Wrote
<1> SUFFICES ASSUME NEW w \in Words
             PROVE  (IF w \notin DOMAIN KVS' THEN {}
                     ELSE IF w \in DOMAIN CK' THEN CK'[w] ELSE b[<<w, KVS'[w]>>])
                    = Held(kvs, ck, w)
  BY <1>2 DEF Content, Load
<1>4. CASE w \in S
  BY <1>4, <1>1, <1>2, <1>3 DEF Held
<1>5. CASE w \in DOMAIN ck \ S
  <2>1. w \in DOMAIN kvs
    BY <1>5, KeyFacts DEF Prepared
  <2> QED BY <1>5, <2>1, <1>2 DEF Held
<1>6. CASE w \notin DOMAIN ck /\ w \in DOMAIN kvs
  <2>1. <<w, kvs[w]>> \in DOMAIN bitmaps /\ w \notin S
    BY <1>6, <1>1 DEF Prepared
  <2>2. b[<<w, kvs[w]>>] = bitmaps[<<w, kvs[w]>>]
    BY <2>1, <1>3
  <2>3. w \in DOMAIN KVS' /\ w \notin DOMAIN CK' /\ KVS'[w] = kvs[w]
    BY <2>1, <1>2, <1>6
  <2> QED BY <2>2, <2>3, <1>6 DEF Held
<1>7. CASE w \notin DOMAIN ck /\ w \notin DOMAIN kvs
  BY <1>7, <1>1, <1>2 DEF Held
<1> QED BY <1>1, <1>4, <1>5, <1>6, <1>7

(* A batch that starts at or past the sealed versions overwrites no bitmap *)
(* the sealed context names, other than those of dummies, which are empty, *)
(* and of words whose version was reset.                                   *)
Spared(new) ==
  snapshot.taken =>
    \A w \in Words \cap DOMAIN snapshot.KVS :
      \/ bitmaps'[<<w, snapshot.KVS[w]>>] = bitmaps[<<w, snapshot.KVS[w]>>]
      \/ w \in rewound' /\ bitmaps'[<<w, snapshot.KVS[w]>>] = new[w]

LEMMA BatchSpares ==
  ASSUME NEW kvs, NEW ck, NEW S, NEW new,
         bitmaps \in [DOMAIN bitmaps -> SUBSET Docs],
         SnapshotStored, SnapshotIntact,
         Prepared(kvs, ck, S),
         bitmaps' = BitmapsAfter(kvs, ck, S), snapshot' = snapshot,
         rewound \subseteq rewound', PastSnapshot(kvs, rewound'),
         \A x \in Words : Held(kvs, ck, x) = new[x]
  PROVE  SnapshotStored' /\ SnapshotIntact' /\ Spared(new)
<1> DEFINE b == BitmapsAfter(kvs, ck, S)
<1>0. Wrote(b, kvs, ck, S)
  BY BatchWrites
<1>1. /\ kvs \in [DOMAIN kvs -> Nat] /\ S \subseteq DOMAIN ck
      /\ DOMAIN ck \subseteq Key /\ DOMAIN kvs \subseteq Key
      /\ \A k \in DOMAIN ck : k \in Nat => ck[k] = {}
  BY DEF Prepared
<1> HIDE DEF b
<1>2. /\ DOMAIN b = DOMAIN bitmaps \cup {<<k, NextVersion(kvs, k)>> : k \in S}
      /\ \A k \in S : b[<<k, NextVersion(kvs, k)>>] = ck[k]
      /\ \A k, v : <<k, v>> \in DOMAIN bitmaps
                     /\ (k \in S => v # NextVersion(kvs, k))
                   => b[<<k, v>>] = bitmaps[<<k, v>>]
  BY <1>0 DEF Wrote
<1>3. SnapshotStored'
  BY <1>2 DEF SnapshotStored, b
<1>4. ASSUME snapshot.taken, NEW k \in DOMAIN snapshot.KVS
      PROVE  \/ b[<<k, snapshot.KVS[k]>>] = bitmaps[<<k, snapshot.KVS[k]>>]
             \/ k \in Nat /\ b[<<k, snapshot.KVS[k]>>] = {}
             \/ /\ k \in Words \cap rewound' /\ k \in DOMAIN ck
                /\ b[<<k, snapshot.KVS[k]>>] = ck[k]
  <2>1. /\ <<k, snapshot.KVS[k]>> \in DOMAIN bitmaps
        /\ snapshot.KVS[k] \in Nat /\ k \in Key
    BY <1>4 DEF SnapshotStored
  <2>2. CASE k \in S => snapshot.KVS[k] # NextVersion(kvs, k)
    BY <1>2, <2>1, <2>2
  <2>3. CASE k \in S /\ snapshot.KVS[k] = NextVersion(kvs, k)
    <3>1. b[<<k, snapshot.KVS[k]>>] = ck[k] /\ k \in DOMAIN ck
      BY <1>1, <1>2, <2>3
    <3>2. CASE k \in Nat
      BY <1>1, <3>1, <3>2
    <3>3. CASE k \in Words \ rewound'
      <4>1. k \in DOMAIN kvs /\ snapshot.KVS[k] <= kvs[k] /\ kvs[k] \in Nat
        BY <3>3, <1>1, <1>4 DEF PastSnapshot
      <4> QED BY <4>1, <2>1, <2>3 DEF NextVersion
    <3> QED BY <3>1, <3>2, <3>3, <2>1 DEF Key
  <2> QED BY <2>2, <2>3
<1>5. SnapshotIntact'
  <2> SUFFICES ASSUME snapshot.taken, NEW k \in DOMAIN snapshot.KVS \ rewound'
               PROVE  b[<<k, snapshot.KVS[k]>>] = snapshot.saved[k]
    BY DEF SnapshotIntact, b
  <2>1. /\ bitmaps[<<k, snapshot.KVS[k]>>] = snapshot.saved[k]
        /\ k \in Nat => snapshot.saved[k] = {}
    BY DEF SnapshotStored, SnapshotIntact
  <2> QED BY <1>4, <2>1
<1>6. Spared(new)
  <2> SUFFICES ASSUME snapshot.taken, NEW w \in Words \cap DOMAIN snapshot.KVS
               PROVE  \/ b[<<w, snapshot.KVS[w]>>] = bitmaps[<<w, snapshot.KVS[w]>>]
                      \/ w \in rewound' /\ b[<<w, snapshot.KVS[w]>>] = new[w]
    BY DEF Spared, b
  <2>1. w \notin Nat /\ (w \in DOMAIN ck => new[w] = ck[w])
    BY KeyFacts DEF Held
  <2> QED BY <1>4, <2>1
<1> QED BY <1>3, <1>5, <1>6

-----------------------------------------------------------------------------
(* Steps of the whole system, by what they have in common.                 *)

(* The step ends in a batch that leaves every word x with new[x].          *)
Batched(new) ==
  \E kvs, ck, S :
    /\ Prepared(kvs, ck, S) /\ StoreBatch(kvs, ck, S)
    /\ words_KVS' \subseteq DOMAIN kvs \cup S
    /\ PastSnapshot(kvs, rewound')
    /\ \A x \in Words : Held(kvs, ck, x) = new[x]

(* What it may do to the other variables.                                  *)
Framed ==
  /\ session = "up" /\ session' \in {"up", "sealing"} /\ snapshot' = snapshot
  /\ dummy_count' \in Nat /\ dummy_size' \in Nat
  /\ rewound \subseteq rewound' /\ rewound' \subseteq Words
  /\ postings' \in [Words -> SUBSET Docs]

LEMMA BatchStep ==
  ASSUME IInv, NEW new, Batched(new), Framed
  PROVE  IInv' /\ Spared(new) /\ \A w \in Words : Content(w)' = new[w]
<1>1. PICK kvs, ck, S :
        /\ Prepared(kvs, ck, S) /\ StoreBatch(kvs, ck, S)
        /\ words_KVS' \subseteq DOMAIN kvs \cup S
        /\ PastSnapshot(kvs, rewound')
        /\ \A x \in Words : Held(kvs, ck, x) = new[x]
  BY DEF Batched
<1>2. /\ bitmaps \in [DOMAIN bitmaps -> SUBSET Docs]
      /\ DOMAIN bitmaps \subseteq Key \X Nat
      /\ \A l \in DOMAIN bitmaps : l[1] \in Nat => bitmaps[l] = {}
      /\ SnapshotStored /\ SnapshotIntact
  BY DEF IInv, TypeOK, DummiesEmpty
<1>3. /\ KVS' \in [DOMAIN KVS' -> Nat] /\ DOMAIN KVS' = DOMAIN kvs \cup S
      /\ DOMAIN KVS' \subseteq Key
      /\ CK' \in [DOMAIN CK' -> SUBSET Docs] /\ DOMAIN CK' \subseteq Key
      /\ bitmaps' \in [DOMAIN bitmaps' -> SUBSET Docs]
      /\ DOMAIN bitmaps' \subseteq Key \X Nat
      /\ VersionsStored' /\ CacheCoherent' /\ DummiesEmpty'
  BY <1>1, <1>2, BatchStored
<1>4. TypeOK'
  BY <1>1, <1>3 DEF TypeOK, Framed
<1>5. bitmaps' = BitmapsAfter(kvs, ck, S)
  BY <1>1 DEF StoreBatch, WriteBitmaps
<1>6. SnapshotStored' /\ SnapshotIntact' /\ Spared(new)
  BY <1>1, <1>2, <1>5, BatchSpares DEF Framed
<1>7. \A w \in Words : Content(w)' = new[w]
  BY <1>1, <1>2, BatchKeeps
<1>8. \A k \in DOMAIN kvs : kvs[k] \in Nat /\ kvs[k] <= KVS'[k]
  <2>1. KVS' = [k \in DOMAIN kvs \cup S |->
                  IF k \in S THEN NextVersion(kvs, k) ELSE kvs[k]]
    BY <1>1 DEF StoreBatch
  <2> QED BY <1>1, <2>1 DEF Prepared, NextVersion
<1>9. PastSnapshot(KVS, rewound)'
  <2>1. SUFFICES ASSUME snapshot.taken,
                        NEW w \in (Words \cap DOMAIN snapshot.KVS) \ rewound'
                 PROVE  w \in DOMAIN KVS' /\ snapshot.KVS[w] <= KVS'[w]
    BY DEF PastSnapshot, Framed
  <2>2. w \in DOMAIN kvs /\ snapshot.KVS[w] <= kvs[w] /\ snapshot.KVS[w] \in Nat
    BY <1>1, <1>2, <2>1 DEF PastSnapshot, SnapshotStored
  <2> QED BY <2>2, <1>3, <1>8
<1> QED BY <1>3, <1>4, <1>6, <1>7, <1>9 DEF IInv

(* A step that loses the enclave.                                          *)
LEMMA LoseStep ==
  ASSUME IInv, LoseEnclave,
         bitmaps' \in [DOMAIN bitmaps' -> SUBSET Docs],
         DOMAIN bitmaps' \subseteq Key \X Nat,
         \A l \in DOMAIN bitmaps' : l[1] \in Nat => bitmaps'[l] = {},
         SnapshotStored', SnapshotIntact'
  PROVE  IInv' /\ NoPhantomPosting'
<1>1. /\ session' = "down" /\ KVS' = Empty /\ words_KVS' = {} /\ CK' = Empty
      /\ dummy_count' = 0 /\ dummy_size' = 0
      /\ postings' = postings /\ rewound' = rewound
  BY DEF LoseEnclave
<1>2. DOMAIN Empty = {} /\ \A T : Empty \in [{} -> T]
  BY DEF Empty
<1>3. TypeOK'
  BY <1>1, <1>2 DEF IInv, TypeOK
<1>4. VersionsStored' /\ CacheCoherent' /\ DummiesEmpty'
  BY <1>1, <1>2 DEF VersionsStored, CacheCoherent, DummiesEmpty
<1>5. NoPhantomPosting'
  BY <1>1 DEF NoPhantomPosting
<1> QED BY <1>1, <1>3, <1>4, <1>5 DEF IInv

(* The live tables, with some stored words loaded into the cache, may be   *)
(* handed to a batch.                                                      *)
LEMMA LivePrepared ==
  ASSUME IInv, NEW S \in SUBSET DOMAIN CK
  PROVE  Prepared(KVS, CK, S) /\ \A w : Held(KVS, CK, w) =
           IF w \in DOMAIN CK THEN CK[w] ELSE IF w \in DOMAIN KVS THEN Load(w) ELSE {}
BY DEF IInv, TypeOK, VersionsStored, CacheCoherent, DummiesEmpty, Prepared,
       Held, Load

(* A word's content, as the inductive invariant gives it: the coherent     *)
(* cache never holds a word that KVS does not know.                        *)
LEMMA ContentHeld ==
  ASSUME IInv, session # "down", NEW w \in Words
  PROVE  /\ Held(KVS, CK, w) = Content(w)
         /\ NoPhantomPosting => Content(w) \subseteq postings[w]
<1>1. w \in DOMAIN CK => w \in DOMAIN KVS
  BY KeyFacts DEF IInv, CacheCoherent
<1> QED BY <1>1 DEF IInv, Held, Content, Load, NoPhantomPosting

-----------------------------------------------------------------------------
(* One lemma per kind of step.                                             *)

(* Loading or replacing one entry k of the cache, with the version table   *)
(* kvs: what that hands to a batch that stores k.                          *)
LEMMA PutPrepared ==
  ASSUME IInv, NEW kvs, NEW k \in Key, NEW v \in SUBSET Docs,
         NEW S \in SUBSET (DOMAIN CK \cup {k}), k \in S,
         kvs \in [DOMAIN kvs -> Nat], DOMAIN kvs \subseteq Key,
         \A x \in DOMAIN kvs \ {k} : x \in DOMAIN KVS /\ kvs[x] = KVS[x],
         \A x \in DOMAIN KVS \ DOMAIN kvs : x \in Nat,
         k \in Nat => v = {}
  PROVE  Prepared(kvs, Put(CK, k, v), S)
<1> DEFINE ck == Put(CK, k, v)
<1>1. /\ ck \in [DOMAIN ck -> SUBSET Docs]
      /\ DOMAIN ck = DOMAIN CK \cup {k} /\ ck[k] = v
      /\ \A x \in DOMAIN CK : x # k => ck[x] = CK[x]
  BY DEF Put, IInv, TypeOK
<1>2. /\ DOMAIN CK \subseteq Key
      /\ \A x \in DOMAIN CK : x \in Nat => CK[x] = {}
      /\ \A x \in DOMAIN KVS : <<x, KVS[x]>> \in DOMAIN bitmaps
      /\ \A x \in DOMAIN CK : IF x \in DOMAIN KVS THEN CK[x] = bitmaps[<<x, KVS[x]>>]
                              ELSE x \in Nat
      /\ \A l \in DOMAIN bitmaps : l[1] \in Nat => bitmaps[l] = {}
  BY DEF IInv, TypeOK, DummiesEmpty, VersionsStored, CacheCoherent, Load
<1> HIDE DEF ck
<1>3. \A x \in DOMAIN kvs \ S : <<x, kvs[x]>> \in DOMAIN bitmaps
  BY <1>2
<1>4. \A x \in DOMAIN ck \ S :
        IF x \in DOMAIN kvs THEN ck[x] = bitmaps[<<x, kvs[x]>>] ELSE x \in Nat
  BY <1>1, <1>2
<1>5. \A x \in DOMAIN ck : x \in Nat => ck[x] = {}
  BY <1>1, <1>2
<1> QED BY <1>1, <1>2, <1>3, <1>4, <1>5 DEF Prepared, ck

(* The live versions have not fallen behind the sealed ones.               *)
LEMMA LivePast ==
  ASSUME IInv, session = "up", rewound \subseteq rewound'
  PROVE  PastSnapshot(KVS, rewound')
BY DEF IInv, PastSnapshot

(* What the words hold, and what they hold after an update.                *)
Contents == [x \in Words |-> Content(x)]
After(w, d, op) ==
  [x \in Words |-> IF x # w THEN Content(x)
                   ELSE Flip(IF DOMAIN CK = {} THEN {} ELSE Content(w), d, op)]

(* An update of word w to the content v, whatever else leaves the cache    *)
(* with it, and whether or not a dummy left the version table.             *)
LEMMA WordBatched ==
  ASSUME IInv, session = "up", rewound \subseteq rewound',
         NEW w \in Words, NEW v \in SUBSET Docs, NEW kvs,
         kvs \in [DOMAIN kvs -> Nat], DOMAIN kvs \subseteq Key,
         \A x \in DOMAIN kvs \ {w} : x \in DOMAIN KVS /\ kvs[x] = KVS[x],
         \A x \in DOMAIN KVS \ DOMAIN kvs : x \in Nat,
         w \in DOMAIN KVS \ rewound' => kvs[w] = KVS[w],
         NEW S \in SUBSET (DOMAIN CK \cup {w}), w \in S,
         StoreBatch(kvs, Put(CK, w, v), S),
         words_KVS' \subseteq DOMAIN kvs \cup {w},
         NEW new, \A x \in Words : new[x] = IF x = w THEN v ELSE Content(x)
  PROVE  Batched(new)
<1> DEFINE ck == Put(CK, w, v)
<1>1. Prepared(kvs, ck, S)
  BY PutPrepared, KeyFacts
<1>2. ASSUME NEW x \in Words PROVE Held(kvs, ck, x) = new[x]
  <2>1. CASE x = w
    BY <2>1 DEF Held, Put
  <2>2. CASE x # w
    <3>1. Held(KVS, CK, x) = Content(x)
      BY ContentHeld
    <3>2. x \in DOMAIN kvs <=> x \in DOMAIN KVS
      BY <2>2, KeyFacts
    <3> QED BY <2>2, <3>1, <3>2 DEF Held, Put
  <2> QED BY <2>1, <2>2
<1>3. PastSnapshot(kvs, rewound')
  <2> SUFFICES ASSUME snapshot.taken,
                      NEW x \in (Words \cap DOMAIN snapshot.KVS) \ rewound'
               PROVE  x \in DOMAIN kvs /\ snapshot.KVS[x] <= kvs[x]
    BY DEF PastSnapshot
  <2>1. x \in DOMAIN KVS /\ snapshot.KVS[x] <= KVS[x]
    BY DEF IInv, PastSnapshot
  <2>2. x \in DOMAIN kvs /\ kvs[x] = KVS[x]
    BY <2>1, KeyFacts
  <2> QED BY <2>1, <2>2
<1> HIDE DEF ck
<1>4. StoreBatch(kvs, ck, S) /\ words_KVS' \subseteq DOMAIN kvs \cup S
  BY DEF ck
<1> QED BY <1>1, <1>2, <1>3, <1>4 DEF Batched

(* A word's content is a set of documents.                                 *)
LEMMA ContentDocs ==
  ASSUME IInv, NEW w \in Words
  PROVE  Content(w) \in SUBSET Docs
BY DEF IInv, TypeOK, VersionsStored, Content, Load

(* The updates that keep the version table as it is: of a cached or a      *)
(* stored word.                                                            *)
LEMMA KnownWordBatched ==
  ASSUME IInv, session = "up", NEW w \in Words, NEW d \in Docs, NEW op \in {"ADD", "DEL"},
         UpdateCached(w, d, op) \/ UpdateStored(w, d, op)
  PROVE  Batched(After(w, d, op))
<1>1. /\ w \in Key /\ w \notin Nat
      /\ KVS \in [DOMAIN KVS -> Nat] /\ DOMAIN KVS \subseteq Key
      /\ words_KVS \subseteq DOMAIN KVS
  BY KeyFacts DEF IInv, TypeOK
<1>2. words_KVS' = words_KVS /\ rewound' = rewound /\ DOMAIN CK # {}
  BY DEF UpdateCached, UpdateStored
<1> DEFINE v == Flip(Content(w), d, op)
           ck == Put(CK, w, v)
<1>3. StoreWord(KVS, ck, w)
  <2>1. CASE UpdateCached(w, d, op)
    BY <2>1, <1>1 DEF UpdateCached, Content, IInv, CacheCoherent
  <2>2. CASE UpdateStored(w, d, op)
    BY <2>2 DEF UpdateStored, Content
  <2> QED BY <2>1, <2>2
<1>4. v \in SUBSET Docs
  BY ContentDocs DEF Flip
<1>5. PICK out \in Overflow(DOMAIN ck \ {w}, w) : StoreBatch(KVS, ck, {w} \cup out)
  BY <1>3 DEF StoreWord
<1>6. {w} \cup out \in SUBSET (DOMAIN CK \cup {w})
  BY <1>5 DEF Overflow, Put
<1>7. \A x \in Words : After(w, d, op)[x] = IF x = w THEN v ELSE Content(x)
  BY <1>2 DEF After
<1> HIDE DEF v
<1> QED BY <1>1, <1>2, <1>4, <1>5, <1>6, <1>7, WordBatched

(* The live tables with one more stored bitmap loaded: everything is where *)
(* it was.                                                                 *)
LEMMA LoadPrepared ==
  ASSUME IInv, session = "up", NEW c \in DOMAIN KVS \ DOMAIN CK,
         NEW S, S \subseteq DOMAIN CK \cup {c}
  PROVE  LET ck == Put(CK, c, Load(c)) IN
         /\ DOMAIN ck = DOMAIN CK \cup {c} /\ \A x \in DOMAIN CK : ck[x] = CK[x]
         /\ Prepared(KVS, ck, S)
         /\ \A x \in Words : Held(KVS, ck, x) = Content(x)
<1> DEFINE ck == Put(CK, c, Load(c))
<1>1. /\ <<c, KVS[c]>> \in DOMAIN bitmaps /\ Load(c) \in SUBSET Docs
      /\ c \in Nat => Load(c) = {}
  BY DEF IInv, TypeOK, VersionsStored, DummiesEmpty, Load
<1>2. /\ DOMAIN ck = DOMAIN CK \cup {c} /\ ck[c] = bitmaps[<<c, KVS[c]>>]
      /\ \A x \in DOMAIN CK : ck[x] = CK[x]
      /\ ck \in [DOMAIN ck -> SUBSET Docs]
  BY <1>1 DEF Put, Load, IInv, TypeOK
<1> HIDE DEF ck
<1>3. Prepared(KVS, ck, S)
  BY <1>1, <1>2
     DEF Prepared, IInv, TypeOK, VersionsStored, CacheCoherent, DummiesEmpty, Load
<1>4. \A x \in Words : Held(KVS, ck, x) = Content(x)
  <2> SUFFICES ASSUME NEW x \in Words PROVE Held(KVS, ck, x) = Held(KVS, CK, x)
    BY ContentHeld
  <2> QED BY <1>2 DEF Held
<1> QED BY <1>2, <1>3, <1>4 DEF ck

(* The update of a cached word that loads a companion in exchange.         *)
LEMMA SwapBatched ==
  ASSUME IInv, session = "up", NEW w \in Words, NEW d \in Docs, NEW op \in {"ADD", "DEL"},
         UpdateCachedSwap(w, d, op)
  PROVE  Batched(After(w, d, op))
<1>1. PICK c \in Uncached :
        StoreWord(KVS, Put(Put(CK, c, Load(c)), w, Flip(CK[w], d, op)), w)
  BY DEF UpdateCachedSwap
<1> DEFINE ci == Put(CK, c, Load(c))
           v == Flip(CK[w], d, op)
           ck == Put(ci, w, v)
<1>2. PICK out \in Overflow(DOMAIN ck \ {w}, w) : StoreBatch(KVS, ck, {w} \cup out)
  BY <1>1 DEF StoreWord
<1>3. w \in DOMAIN CK /\ words_KVS' = words_KVS /\ rewound' = rewound
  BY DEF UpdateCachedSwap
<1>4. c \in DOMAIN KVS \ DOMAIN CK
  BY <1>1 DEF Uncached, IInv, TypeOK
<1>5. w \in DOMAIN KVS /\ w \in Key /\ w \notin Nat /\ CK[w] = Content(w)
  BY <1>3, KeyFacts DEF IInv, CacheCoherent, Content
<1>6. v \in SUBSET Docs
  BY <1>3 DEF IInv, TypeOK, Flip
<1>7. /\ DOMAIN ci = DOMAIN CK \cup {c}
      /\ Prepared(KVS, ci, out \cap DOMAIN ci)
      /\ \A x \in Words : Held(KVS, ci, x) = Content(x)
  BY <1>4, LoadPrepared
<1> HIDE DEF ci, v
<1>8. /\ DOMAIN ck = DOMAIN ci /\ ck[w] = v
      /\ \A x \in DOMAIN ci \ {w} : ck[x] = ci[x]
      /\ ck \in [DOMAIN ck -> SUBSET Docs]
  BY <1>3, <1>6, <1>7 DEF Put, Prepared
<1>9. {w} \cup out \subseteq DOMAIN ck /\ out \subseteq DOMAIN ci
  BY <1>2, <1>3, <1>7, <1>8 DEF Overflow
<1> HIDE DEF ck
<1>10. Prepared(KVS, ck, {w} \cup out)
  BY <1>5, <1>7, <1>8, <1>9 DEF Prepared
<1>11. \A x \in Words : Held(KVS, ck, x) = After(w, d, op)[x]
  BY <1>3, <1>5, <1>7, <1>8 DEF Held, After, v
<1>12. PastSnapshot(KVS, rewound') /\ words_KVS' \subseteq DOMAIN KVS \cup ({w} \cup out)
  BY <1>3, LivePast DEF IInv, TypeOK
<1>13. StoreBatch(KVS, ck, {w} \cup out)
  BY <1>2 DEF ck, ci, v
<1> QED BY <1>10, <1>11, <1>12, <1>13 DEF Batched

(* The updates that give w the version 1 in a table from which a dummy may *)
(* have been removed: into an empty cache, or of a new word.               *)
LEMMA NewVersionBatched ==
  ASSUME IInv, session = "up", NEW w \in Words, NEW d \in Docs, NEW op \in {"ADD", "DEL"},
         \/ UpdateEmptyCache(w, d, op) \/ UpdateNew(w, d, op)
         \/ UpdateNewForDummy(w, d, op)
  PROVE  Batched(After(w, d, op))
<1>1. /\ w \in Key /\ w \notin Nat
      /\ KVS \in [DOMAIN KVS -> Nat] /\ DOMAIN KVS \subseteq Key
      /\ words_KVS \subseteq DOMAIN KVS
  BY KeyFacts DEF IInv, TypeOK
<1> DEFINE v == Flip({}, d, op)
           ck == Put(CK, w, v)
<1>2. v \in SUBSET Docs
  BY DEF Flip
<1>3. ASSUME DOMAIN CK = {} \/ w \notin DOMAIN KVS
      PROVE  \A x \in Words : After(w, d, op)[x] = IF x = w THEN v ELSE Content(x)
  BY <1>3 DEF After, Content
<1> HIDE DEF v
<1>4. CASE UpdateEmptyCache(w, d, op)
  <2> DEFINE kvs == Put(KVS, w, 1)
  <2>1. /\ StoreBatch(kvs, ck, {w}) /\ DOMAIN CK = {}
        /\ words_KVS' = words_KVS \cup {w}
        /\ rewound' = rewound \cup ({w} \cap DOMAIN KVS)
    BY <1>4 DEF UpdateEmptyCache, v
  <2>2. /\ kvs \in [DOMAIN kvs -> Nat] /\ DOMAIN kvs = DOMAIN KVS \cup {w}
        /\ \A x \in DOMAIN KVS \ {w} : kvs[x] = KVS[x]
    BY <1>1 DEF Put
  <2>3. {w} \in SUBSET (DOMAIN CK \cup {w}) /\ w \in {w}
    OBVIOUS
  <2>4. DOMAIN kvs \subseteq Key /\ words_KVS' \subseteq DOMAIN kvs \cup {w}
    BY <1>1, <2>1, <2>2
  <2> HIDE DEF kvs
  <2> QED BY <1>1, <1>2, <1>3, <2>1, <2>2, <2>3, <2>4, WordBatched
<1>5. CASE UpdateNew(w, d, op)
  <2> DEFINE kvs == Put(KVS, w, 1)
  <2>1. /\ StoreWord(kvs, ck, w) /\ w \notin DOMAIN KVS
        /\ words_KVS' = words_KVS \cup {w} /\ rewound' = rewound
    BY <1>5 DEF UpdateNew, v
  <2>2. PICK out \in Overflow(DOMAIN ck \ {w}, w) : StoreBatch(kvs, ck, {w} \cup out)
    BY <2>1 DEF StoreWord
  <2>3. {w} \cup out \in SUBSET (DOMAIN CK \cup {w})
    BY <2>2 DEF Overflow, Put
  <2>4. /\ kvs \in [DOMAIN kvs -> Nat] /\ DOMAIN kvs = DOMAIN KVS \cup {w}
        /\ \A x \in DOMAIN KVS \ {w} : kvs[x] = KVS[x]
    BY <1>1 DEF Put
  <2> HIDE DEF kvs
  <2> QED BY <1>1, <1>2, <1>3, <2>1, <2>2, <2>3, <2>4, WordBatched
<1>6. CASE UpdateNewForDummy(w, d, op)
  <2>1. PICK n \in Dummies(dummy_size) \cap DOMAIN KVS :
          /\ StoreWord(Put(Restrict(KVS, DOMAIN KVS \ {n}), w, 1), ck, w)
          /\ words_KVS' = (words_KVS \ {n}) \cup {w}
    BY <1>6 DEF UpdateNewForDummy, v
  <2> DEFINE kvs == Put(Restrict(KVS, DOMAIN KVS \ {n}), w, 1)
  <2>2. w \notin DOMAIN KVS /\ rewound' = rewound
    BY <1>6 DEF UpdateNewForDummy
  <2>3. PICK out \in Overflow(DOMAIN ck \ {w}, w) : StoreBatch(kvs, ck, {w} \cup out)
    BY <2>1 DEF StoreWord
  <2>4. {w} \cup out \in SUBSET (DOMAIN CK \cup {w})
    BY <2>3 DEF Overflow, Put
  <2>5. /\ kvs \in [DOMAIN kvs -> Nat]
        /\ DOMAIN kvs = (DOMAIN KVS \ {n}) \cup {w}
        /\ \A x \in DOMAIN KVS \ {n, w} : kvs[x] = KVS[x]
    BY <1>1 DEF Put, Restrict
  <2>6. n \in Nat
    BY DEF IInv, TypeOK, Dummies
  <2> HIDE DEF kvs
  <2> QED BY <1>1, <1>2, <1>3, <2>1, <2>2, <2>3, <2>4, <2>5, <2>6, WordBatched
<1> QED BY <1>4, <1>5, <1>6

(* UpdateKeyword as a whole: a batch, or nothing at all.                   *)
LEMMA UpdateBatched ==
  ASSUME IInv, NEW w \in Words, NEW d \in Docs, NEW op \in {"ADD", "DEL"},
         UpdateKeyword(w, d, op)
  PROVE  Framed /\ (UpdateSkipped(w) \/ Batched(After(w, d, op)))
<1>1. session = "up" /\ UNCHANGED <<session, snapshot>> /\ Acknowledge(w, d, op)
  BY DEF UpdateKeyword
<1>2. postings' \in [Words -> SUBSET Docs]
  BY <1>1 DEF Acknowledge, Flip, IInv, TypeOK
<1>3. dummy_count \in Nat /\ dummy_size \in Nat /\ rewound \subseteq Words
  BY DEF IInv, TypeOK
<1>4. /\ dummy_count' \in Nat /\ dummy_size' \in Nat
      /\ rewound \subseteq rewound' /\ rewound' \subseteq Words
  BY <1>3 DEF UpdateKeyword, UpdateEmptyCache, UpdateCached, UpdateCachedSwap,
              UpdateSkipped, UpdateStored, UpdateNew, UpdateNewForDummy, enclave
<1>5. UpdateSkipped(w) \/ Batched(After(w, d, op))
  BY <1>1, KnownWordBatched, SwapBatched, NewVersionBatched DEF UpdateKeyword
<1> QED BY <1>1, <1>2, <1>4, <1>5 DEF Framed

(* An update that is skipped is acknowledged without being made.           *)
LEMMA SkippedStep ==
  ASSUME IInv, NEW w \in Words, Framed, UpdateSkipped(w), session' = session
  PROVE  IInv' /\ \A x \in Words : Content(x)' = Content(x)
<1>1. UNCHANGED <<session, snapshot, KVS, words_KVS, CK, dummy_count, dummy_size,
                  bitmaps, rewound>>
  BY DEF UpdateSkipped, enclave, Framed
<1> QED BY <1>1 DEF IInv, TypeOK, VersionsStored, CacheCoherent, Load, Framed,
                    DummiesEmpty, SnapshotStored, PastSnapshot, SnapshotIntact, Content

(* A skipped "DEL" leaves a posting behind; that takes a cached word       *)
(* without a companion.                                                    *)
LEMMA UpdateKeywordStep ==
  ASSUME IInv, NEW w \in Words, NEW d \in Docs, NEW op \in {"ADD", "DEL"},
         UpdateKeyword(w, d, op)
  PROVE  IInv' /\ (NoPhantomPosting /\ ~PickFails => NoPhantomPosting')
<1>1. Framed /\ (UpdateSkipped(w) \/ Batched(After(w, d, op)))
  BY UpdateBatched
<1>2. /\ session = "up" /\ session' = session
      /\ postings'[w] = Flip(postings[w], d, op)
      /\ \A x \in Words : x # w => postings'[x] = postings[x]
  BY DEF UpdateKeyword, Acknowledge, IInv, TypeOK
<1>3. CASE UpdateSkipped(w)
  <2>1. PickFails
    BY <1>3 DEF UpdateSkipped
  <2> QED BY <1>1, <1>2, <1>3, <2>1, SkippedStep
<1>4. CASE Batched(After(w, d, op))
  <2>1. IInv' /\ \A x \in Words : Content(x)' = After(w, d, op)[x]
    BY <1>1, <1>4, BatchStep
  <2>2. ASSUME NoPhantomPosting, NEW x \in Words
        PROVE  After(w, d, op)[x] \subseteq postings'[x]
    <3>1. Content(x) \subseteq postings[x]
      BY <1>2, <2>2 DEF NoPhantomPosting
    <3>2. CASE x = w
      BY <1>2, <3>1, <3>2 DEF After, Flip
    <3>3. CASE x # w
      BY <1>2, <3>1, <3>3 DEF After
    <3> QED BY <3>2, <3>3
  <2> QED BY <2>1, <2>2 DEF NoPhantomPosting
<1> QED BY <1>1, <1>3, <1>4

(* A search moves bitmaps and changes none.                                *)
LEMMA SearchBatched ==
  ASSUME IInv, NEW w \in Words, Search(w)
  PROVE  Framed /\ Batched(Contents)
<1>1. PICK k \in IF w \in DOMAIN CK THEN Uncached ELSE {w} :
        \E out \in Overflow(DOMAIN Put(CK, k, Load(k)), w) :
          StoreBatch(KVS, Put(CK, k, Load(k)), out)
  BY DEF Search
<1> DEFINE ck == Put(CK, k, Load(k))
<1>2. PICK out \in Overflow(DOMAIN ck, w) : StoreBatch(KVS, ck, out)
  BY <1>1
<1>3. /\ session = "up" /\ w \in DOMAIN KVS
      /\ UNCHANGED <<session, words_KVS, dummy_count, dummy_size, snapshot,
                     postings, rewound>>
  BY DEF Search
<1>4. k \in DOMAIN KVS \ DOMAIN CK
  BY <1>1, <1>3 DEF Uncached, IInv, TypeOK
<1>5. out \subseteq DOMAIN CK \cup {k}
  BY <1>2 DEF Overflow, Put
<1>6. Prepared(KVS, ck, out) /\ \A x \in Words : Held(KVS, ck, x) = Contents[x]
  BY <1>3, <1>4, <1>5, LoadPrepared DEF Contents
<1>7. PastSnapshot(KVS, rewound') /\ words_KVS' \subseteq DOMAIN KVS \cup out /\ Framed
  BY <1>3, LivePast DEF IInv, TypeOK, Framed
<1> HIDE DEF ck
<1> QED BY <1>2, <1>6, <1>7 DEF Batched

(* Nor does a flush.                                                       *)
LEMMA FlushBatched ==
  ASSUME IInv, PersistFlush
  PROVE  Framed /\ Batched(Contents)
<1>1. /\ session = "up" /\ session' = "sealing"
      /\ StoreBatch(KVS, CK, DOMAIN CK)
      /\ UNCHANGED <<words_KVS, dummy_count, dummy_size, snapshot, postings, rewound>>
  BY DEF PersistFlush
<1>2. Prepared(KVS, CK, DOMAIN CK) /\ \A x \in Words : Held(KVS, CK, x) = Contents[x]
  BY <1>1, LivePrepared, ContentHeld DEF Contents
<1>3. PastSnapshot(KVS, rewound') /\ words_KVS' \subseteq DOMAIN KVS \cup DOMAIN CK /\ Framed
  BY <1>1, LivePast DEF IInv, TypeOK, Framed
<1> QED BY <1>1, <1>2, <1>3 DEF Batched

LEMMA MoveStep ==
  ASSUME IInv, Framed, Batched(Contents), postings' = postings
  PROVE  IInv' /\ (NoPhantomPosting => NoPhantomPosting')
<1>1. IInv' /\ \A x \in Words : Content(x)' = Contents[x]
  BY BatchStep
<1> QED BY <1>1 DEF Contents, NoPhantomPosting, Framed

LEMMA ThrowStep ==
  ASSUME IInv, NEW w \in Words, UpdateThrows(w) \/ SearchThrows(w)
  PROVE  IInv' /\ NoPhantomPosting'
<1>1. LoseEnclave /\ bitmaps' = bitmaps /\ snapshot' = snapshot /\ rewound' = rewound
  BY DEF UpdateThrows, UpdateNoCapacity, SearchThrows, LoseEnclave
<1>2. SnapshotStored' /\ SnapshotIntact'
  BY <1>1 DEF IInv, SnapshotStored, SnapshotIntact
<1>3. /\ bitmaps' \in [DOMAIN bitmaps' -> SUBSET Docs]
      /\ DOMAIN bitmaps' \subseteq Key \X Nat
      /\ \A l \in DOMAIN bitmaps' : l[1] \in Nat => bitmaps'[l] = {}
  BY <1>1 DEF IInv, TypeOK, DummiesEmpty
<1> QED BY <1>1, <1>2, <1>3, LoseStep

LEMMA CrashStep ==
  ASSUME IInv, Crash
  PROVE  IInv' /\ NoPhantomPosting' /\ Spared(Contents)
<1>1. PICK S \in SUBSET DOMAIN CK : bitmaps' = BitmapsAfter(KVS, CK, S)
  BY DEF Crash, WriteBitmaps
<1>2. /\ session # "down" /\ LoseEnclave
      /\ snapshot' = snapshot /\ rewound' = rewound
  BY DEF Crash, LoseEnclave
<1>3. /\ Prepared(KVS, CK, S) /\ PastSnapshot(KVS, rewound')
      /\ \A x \in Words : Held(KVS, CK, x) = Contents[x]
  BY <1>2, LivePrepared, ContentHeld DEF IInv, Contents
<1>4. SnapshotStored' /\ SnapshotIntact' /\ Spared(Contents)
  BY <1>1, <1>2, <1>3, BatchSpares DEF IInv, TypeOK
<1>5. Wrote(bitmaps', KVS, CK, S)
  BY <1>1, BatchWrites
<1>6. /\ \A k : NextVersion(KVS, k) \in Nat
      /\ CK \in [DOMAIN CK -> SUBSET Docs] /\ DOMAIN CK \subseteq Key
      /\ \A k \in DOMAIN CK : k \in Nat => CK[k] = {}
      /\ bitmaps \in [DOMAIN bitmaps -> SUBSET Docs]
      /\ DOMAIN bitmaps \subseteq Key \X Nat
      /\ \A l \in DOMAIN bitmaps : l[1] \in Nat => bitmaps[l] = {}
  BY DEF IInv, TypeOK, DummiesEmpty, NextVersion
<1>7. DOMAIN bitmaps' \subseteq Key \X Nat
  BY <1>5, <1>6 DEF Wrote
<1>8. \A l \in DOMAIN bitmaps' : bitmaps'[l] \in SUBSET Docs
  BY <1>5, <1>6 DEF Wrote
<1>9. bitmaps' \in [DOMAIN bitmaps' -> SUBSET Docs]
  BY <1>5, <1>8 DEF Wrote
<1>10. \A l \in DOMAIN bitmaps' : l[1] \in Nat => bitmaps'[l] = {}
  BY <1>5, <1>6 DEF Wrote
<1> QED BY <1>2, <1>4, <1>7, <1>9, <1>10, LoseStep

(* Sealing: what the sealed context names is what the labels now hold.     *)
LEMMA PersistSealStep ==
  ASSUME IInv, PersistSeal
  PROVE  IInv' /\ (NoPhantomPosting => NoPhantomPosting')
<1>1. /\ session = "sealing" /\ session' = "up"
      /\ snapshot' = Sealed /\ rewound' = {}
      /\ UNCHANGED <<KVS, words_KVS, CK, dummy_count, dummy_size, bitmaps, postings>>
  BY DEF PersistSeal, enclave
<1>2. /\ snapshot'.taken = TRUE
      /\ snapshot'.KVS = [k \in DOMAIN KVS \ LongWords |-> KVS[k]]
      /\ snapshot'.dummy_count = dummy_count /\ snapshot'.dummy_size = dummy_size
      /\ snapshot'.postings = postings
      /\ \A k \in DOMAIN KVS : snapshot'.saved[k] = bitmaps[<<k, KVS[k]>>]
  BY <1>1 DEF Sealed, Restrict, Load
<1>3. \A k \in DOMAIN KVS :
        /\ <<k, KVS[k]>> \in DOMAIN bitmaps /\ KVS[k] \in Nat
        /\ k \in Nat => bitmaps[<<k, KVS[k]>>] = {}
  BY DEF IInv, TypeOK, VersionsStored, DummiesEmpty
<1>4. /\ DOMAIN snapshot'.KVS = DOMAIN KVS \ LongWords
      /\ \A k \in DOMAIN snapshot'.KVS :
           /\ k \in DOMAIN KVS /\ snapshot'.KVS[k] = KVS[k]
           /\ snapshot'.saved[k] = bitmaps[<<k, snapshot'.KVS[k]>>]
      /\ snapshot'.KVS \in [DOMAIN snapshot'.KVS -> Nat]
  <2>1. DOMAIN snapshot'.KVS = DOMAIN KVS \ LongWords
    BY <1>2
  <2>2. ASSUME NEW k \in DOMAIN snapshot'.KVS
        PROVE  k \in DOMAIN KVS /\ snapshot'.KVS[k] = KVS[k]
    BY <1>2, <2>1
  <2>3. ASSUME NEW k \in DOMAIN snapshot'.KVS
        PROVE  snapshot'.saved[k] = bitmaps[<<k, snapshot'.KVS[k]>>]
    BY <1>2, <2>2
  <2>4. snapshot'.KVS \in [DOMAIN snapshot'.KVS -> Nat]
    <3>1. \A k \in DOMAIN KVS : KVS[k] \in Nat
      BY <1>3
    <3> QED BY <1>2, <3>1
  <2> QED BY <2>1, <2>2, <2>3, <2>4
<1>5. SnapshotStored' /\ SnapshotIntact' /\ PastSnapshot(KVS, rewound)'
  <2>1. SnapshotStored'
    <3>0. DOMAIN snapshot' = Fields
      BY <1>1 DEF Sealed, Fields
    <3>1. /\ snapshot'.taken \in BOOLEAN
          /\ snapshot'.dummy_count \in Nat /\ snapshot'.dummy_size \in Nat
          /\ snapshot'.postings \in [Words -> SUBSET Docs]
      BY <1>2 DEF IInv, TypeOK
    <3>2. DOMAIN snapshot'.KVS \subseteq Key
      BY <1>4 DEF IInv, TypeOK
    <3>3. \A k \in DOMAIN snapshot'.KVS :
            <<k, snapshot'.KVS[k]>> \in DOMAIN bitmaps'
      <4> SUFFICES ASSUME NEW k \in DOMAIN snapshot'.KVS
                   PROVE  <<k, snapshot'.KVS[k]>> \in DOMAIN bitmaps
        BY <1>1
      <4>1. k \in DOMAIN KVS /\ snapshot'.KVS[k] = KVS[k]
        BY <1>4
      <4> QED BY <4>1 DEF IInv, VersionsStored
    <3>4. \A k \in DOMAIN snapshot'.KVS : k \in Nat => snapshot'.saved[k] = {}
      <4> SUFFICES ASSUME NEW k \in DOMAIN snapshot'.KVS, k \in Nat
                   PROVE  snapshot'.saved[k] = {}
        OBVIOUS
      <4>1. k \in DOMAIN KVS /\ snapshot'.saved[k] = bitmaps[<<k, KVS[k]>>]
        BY <1>4
      <4>2. bitmaps[<<k, KVS[k]>>] = {}
        BY <1>3, <4>1
      <4> QED BY <4>1, <4>2
    <3> QED BY <1>4, <3>0, <3>1, <3>2, <3>3, <3>4 DEF SnapshotStored
  <2>2. SnapshotIntact'
    BY <1>1, <1>4 DEF SnapshotIntact
  <2>3. PastSnapshot(KVS, rewound)'
    <3> SUFFICES ASSUME NEW w \in Words \cap DOMAIN snapshot'.KVS
                 PROVE  w \in DOMAIN KVS /\ snapshot'.KVS[w] <= KVS[w]
      BY <1>1 DEF PastSnapshot
    <3>1. w \in DOMAIN KVS /\ snapshot'.KVS[w] = KVS[w] /\ KVS[w] \in Nat
      BY <1>3, <1>4
    <3> QED BY <3>1
  <2> QED BY <2>1, <2>2, <2>3
<1>6. /\ TypeOK' /\ VersionsStored' /\ CacheCoherent' /\ DummiesEmpty'
      /\ NoPhantomPosting => NoPhantomPosting'
  BY <1>1 DEF IInv, TypeOK, VersionsStored, CacheCoherent, DummiesEmpty, Load,
              NoPhantomPosting, Content
<1> QED BY <1>5, <1>6 DEF IInv

(* Opening a sealed context only takes note of what its labels now hold.   *)
LEMMA Reopened ==
  ASSUME IInv, Reload
  PROVE  /\ snapshot'.taken = snapshot.taken /\ snapshot'.count = snapshot.count
         /\ snapshot'.KVS = snapshot.KVS /\ snapshot'.postings = snapshot.postings
         /\ snapshot'.dummy_count = snapshot.dummy_count
         /\ snapshot'.dummy_size = snapshot.dummy_size
         /\ snapshot'.saved = [k \in DOMAIN snapshot.KVS |-> bitmaps[<<k, snapshot.KVS[k]>>]]
         /\ DOMAIN snapshot' = Fields
<1>1. DOMAIN snapshot = Fields
  BY DEF IInv, SnapshotStored, Reload
<1>2. snapshot' = [snapshot EXCEPT !.saved =
                     [k \in DOMAIN snapshot.KVS |-> bitmaps[<<k, snapshot.KVS[k]>>]]]
  BY DEF Reload
<1> QED BY <1>1, <1>2 DEF Fields

LEMMA ReloadStep ==
  ASSUME IInv, Reload
  PROVE  IInv' /\ NoPhantomPosting'
<1>1. /\ session' = "up" /\ snapshot.taken
      /\ KVS' = snapshot.KVS /\ words_KVS' = DOMAIN snapshot.KVS
      /\ dummy_count' = snapshot.dummy_count /\ dummy_size' = snapshot.dummy_size
      /\ postings' = [w \in Words |-> snapshot.postings[w] \cup
                        IF w \in DOMAIN snapshot.KVS
                        THEN bitmaps[<<w, snapshot.KVS[w]>>] ELSE {}]
      /\ rewound' = {} /\ bitmaps' = bitmaps
  BY DEF Reload
<1>2. PICK D \in SUBSET DOMAIN snapshot.KVS :
        CK' = [k \in D |-> bitmaps[<<k, snapshot.KVS[k]>>]]
  BY DEF Reload
<1>3. /\ snapshot.KVS \in [DOMAIN snapshot.KVS -> Nat] /\ DOMAIN snapshot.KVS \subseteq Key
      /\ snapshot.dummy_count \in Nat /\ snapshot.dummy_size \in Nat
      /\ snapshot.postings \in [Words -> SUBSET Docs]
      /\ \A k \in DOMAIN snapshot.KVS : <<k, snapshot.KVS[k]>> \in DOMAIN bitmaps
  BY <1>1 DEF IInv, SnapshotStored
<1>4. \A k \in DOMAIN snapshot.KVS :
        /\ bitmaps[<<k, snapshot.KVS[k]>>] \in SUBSET Docs
        /\ k \in Nat => bitmaps[<<k, snapshot.KVS[k]>>] = {}
  BY <1>3 DEF IInv, TypeOK, DummiesEmpty
<1>5. postings' \in [Words -> SUBSET Docs]
  BY <1>1, <1>3, <1>4
<1>6. CK' \in [DOMAIN CK' -> SUBSET Docs] /\ DOMAIN CK' = D
  BY <1>2, <1>4
<1>7. TypeOK'
  BY <1>1, <1>3, <1>5, <1>6 DEF IInv, TypeOK
<1>8. VersionsStored' /\ CacheCoherent' /\ DummiesEmpty'
  BY <1>1, <1>2, <1>3, <1>4 DEF IInv, VersionsStored, CacheCoherent, DummiesEmpty, Load
<1>9. SnapshotStored' /\ SnapshotIntact' /\ PastSnapshot(KVS, rewound)'
  <2>1. /\ snapshot'.taken = TRUE /\ snapshot'.KVS = snapshot.KVS
        /\ snapshot'.postings = snapshot.postings
        /\ snapshot'.dummy_count = snapshot.dummy_count
        /\ snapshot'.dummy_size = snapshot.dummy_size /\ DOMAIN snapshot' = Fields
        /\ \A k \in DOMAIN snapshot.KVS :
             snapshot'.saved[k] = bitmaps[<<k, snapshot.KVS[k]>>]
    BY <1>1, Reopened, ZenonT(60) DEF IInv, SnapshotStored
  <2>2. SnapshotStored'
    BY <1>1, <1>3, <1>4, <2>1 DEF SnapshotStored
  <2>3. SnapshotIntact'
    BY <1>1, <2>1 DEF SnapshotIntact
  <2>4. \A w \in DOMAIN snapshot.KVS : snapshot.KVS[w] \in Nat
    BY <1>3
  <2>5. \A w \in DOMAIN snapshot.KVS : snapshot.KVS[w] <= KVS'[w]
    BY <1>1, <2>4
  <2>6. PastSnapshot(KVS, rewound)'
    BY <1>1, <2>1, <2>5 DEF PastSnapshot
  <2> QED BY <2>2, <2>3, <2>6
<1>10. NoPhantomPosting'
  BY <1>1, <1>2 DEF NoPhantomPosting, Content, Load
<1> QED BY <1>7, <1>8, <1>9, <1>10 DEF IInv

LEMMA AppendDummyStep ==
  ASSUME IInv, AppendDummy
  PROVE  IInv' /\ (NoPhantomPosting => NoPhantomPosting')
<1> DEFINE n == dummy_size
<1>1. /\ session = "up"
      /\ KVS' = [k \in DOMAIN KVS \cup {n} |-> IF k \in DOMAIN KVS THEN KVS[k] ELSE 0]
      /\ words_KVS' = words_KVS \cup {n}
      /\ bitmaps' = [l \in DOMAIN bitmaps \cup {<<n, 0>>} |->
                       IF l = <<n, 0>> THEN {} ELSE bitmaps[l]]
      /\ dummy_count' = dummy_count + 1 /\ dummy_size' = dummy_size + 1
      /\ UNCHANGED <<session, CK, snapshot, postings, rewound>>
  BY DEF AppendDummy, WriteBitmaps, Put
<1>2. n \in Nat /\ n \in Key
  BY KeyFacts DEF IInv, TypeOK
<1>3. \A l \in DOMAIN bitmaps : l[1] \in Nat => bitmaps[l] = {}
  BY DEF IInv, DummiesEmpty
<1>4. \A l \in DOMAIN bitmaps : bitmaps'[l] = bitmaps[l]
  BY <1>1, <1>2, <1>3
<1>5. \A l \in DOMAIN bitmaps' : l[1] \in Nat => bitmaps'[l] = {}
  BY <1>1, <1>3
<1>6. DOMAIN bitmaps' = DOMAIN bitmaps \cup {<<n, 0>>} /\ bitmaps'[<<n, 0>>] = {}
  BY <1>1
<1>7. TypeOK'
  BY <1>1, <1>2 DEF IInv, TypeOK
<1>8. VersionsStored'
  BY <1>1, <1>6 DEF IInv, VersionsStored
<1>9. CacheCoherent'
  <2> SUFFICES ASSUME NEW k \in DOMAIN CK
               PROVE  IF k \in DOMAIN KVS' THEN CK[k] = bitmaps'[<<k, KVS'[k]>>]
                      ELSE k \in Nat /\ CK[k] = {}
    BY <1>1 DEF CacheCoherent, Load
  <2>1. IF k \in DOMAIN KVS THEN CK[k] = bitmaps[<<k, KVS[k]>>]
        ELSE k \in Nat /\ CK[k] = {}
    BY DEF IInv, CacheCoherent, Load
  <2>2. k \in DOMAIN KVS => <<k, KVS[k]>> \in DOMAIN bitmaps
    BY DEF IInv, VersionsStored
  <2> QED BY <2>1, <2>2, <1>1, <1>4, <1>6
<1>10. DummiesEmpty'
  BY <1>1, <1>5 DEF IInv, DummiesEmpty
<1>11. SnapshotStored' /\ SnapshotIntact' /\ PastSnapshot(KVS, rewound)'
  BY <1>1, <1>4, <1>6 DEF IInv, SnapshotStored, SnapshotIntact, PastSnapshot
<1>12. NoPhantomPosting => NoPhantomPosting'
  <2> SUFFICES ASSUME NEW w \in Words PROVE Content(w)' = Content(w)
    BY <1>1 DEF NoPhantomPosting
  <2>1. w # n
    BY <1>2, KeyFacts
  <2>2. w \in DOMAIN KVS => <<w, KVS[w]>> \in DOMAIN bitmaps
    BY DEF IInv, VersionsStored
  <2> QED BY <2>1, <2>2, <1>1, <1>4 DEF Content, Load
<1> QED BY <1>1, <1>7, <1>8, <1>9, <1>10, <1>11, <1>12 DEF IInv

-----------------------------------------------------------------------------
LEMMA InitIInv == Init => IInv /\ NoPhantomPosting
<1> SUFFICES ASSUME Init PROVE IInv /\ NoPhantomPosting
  OBVIOUS
<1>1. /\ session = "up" /\ KVS = [k \in Dummies(InitDummies) |-> 0]
      /\ words_KVS = Dummies(InitDummies) /\ CK = Empty
      /\ dummy_count = InitDummies /\ dummy_size = InitDummies
      /\ bitmaps = [l \in Dummies(InitDummies) \X {0} |-> {}]
      /\ snapshot = NoSnapshot /\ postings = [w \in Words |-> {}] /\ rewound = {}
  BY DEF Init
<1>2. Dummies(InitDummies) \subseteq Nat /\ Dummies(InitDummies) \subseteq Key
  BY KeywordIndexAssumption, KeyFacts DEF Dummies
<1>3. DOMAIN CK = {} /\ CK \in [{} -> SUBSET Docs]
  BY <1>1 DEF Empty
<1>4. snapshot.taken = FALSE
  BY <1>1 DEF NoSnapshot
<1>5. TypeOK
  <2>1. /\ KVS \in [DOMAIN KVS -> Nat] /\ DOMAIN KVS = Dummies(InitDummies)
        /\ words_KVS \subseteq DOMAIN KVS
    BY <1>1
  <2>2. /\ bitmaps \in [DOMAIN bitmaps -> SUBSET Docs]
        /\ DOMAIN bitmaps \subseteq Key \X Nat
    BY <1>1, <1>2
  <2>3. postings \in [Words -> SUBSET Docs] /\ rewound \subseteq Words
    BY <1>1
  <2>4. dummy_count \in Nat /\ dummy_size \in Nat
    BY <1>1, KeywordIndexAssumption
  <2> QED BY <1>1, <1>2, <1>3, <2>1, <2>2, <2>3, <2>4 DEF TypeOK
<1>6. VersionsStored /\ CacheCoherent /\ DummiesEmpty
  BY <1>1, <1>2, <1>3 DEF VersionsStored, CacheCoherent, DummiesEmpty
<1>7. SnapshotStored /\ SnapshotIntact /\ PastSnapshot(KVS, rewound)
  BY <1>4 DEF SnapshotStored, SnapshotIntact, PastSnapshot
<1>8. NoPhantomPosting
  BY <1>1, <1>2, KeyFacts DEF NoPhantomPosting, Content
<1> QED BY <1>5, <1>6, <1>7, <1>8 DEF IInv

LEMMA NextIInv ==
  IInv /\ [Next]_vars => IInv' /\ (NoPhantomPosting /\ ~PickFails => NoPhantomPosting')
<1> SUFFICES ASSUME IInv, [Next]_vars
             PROVE  IInv' /\ (NoPhantomPosting /\ ~PickFails => NoPhantomPosting')
  OBVIOUS
<1>1. ASSUME NEW w \in Words, NEW d \in Docs, NEW op \in {"ADD", "DEL"},
             UpdateKeyword(w, d, op)
      PROVE  IInv' /\ (NoPhantomPosting /\ ~PickFails => NoPhantomPosting')
  BY <1>1, UpdateKeywordStep
<1>2. ASSUME NEW w \in Words, UpdateThrows(w) \/ SearchThrows(w)
      PROVE  IInv' /\ NoPhantomPosting'
  BY <1>2, ThrowStep
<1>3. ASSUME NEW w \in Words, Search(w)
      PROVE  IInv' /\ (NoPhantomPosting => NoPhantomPosting')
  BY <1>3, SearchBatched, MoveStep DEF Search
<1>4. CASE PersistFlush
  BY <1>4, FlushBatched, MoveStep DEF PersistFlush
<1>5. CASE UNCHANGED vars
  BY <1>5 DEF vars, enclave, IInv, TypeOK, VersionsStored, CacheCoherent, Load,
              DummiesEmpty, SnapshotStored, PastSnapshot, SnapshotIntact,
              NoPhantomPosting, Content
<1> QED
  BY <1>1, <1>2, <1>3, <1>4, <1>5, AppendDummyStep, PersistSealStep, CrashStep,
     ReloadStep DEF Next

-----------------------------------------------------------------------------
(* The inductive invariant holds in every reachable state.                 *)
THEOREM Inductive == Spec => []IInv
<1>1. Init => IInv
  BY InitIInv
<1>2. IInv /\ [Next]_vars => IInv'
  BY NextIInv
<1> QED BY <1>1, <1>2, PTL DEF Spec

(* The state of the enclave and the server always has its types: no step   *)
(* of any length takes a counter below zero or caches what is no bitmap.   *)
THEOREM TypeCorrect == Spec => []TypeOK
<1>1. IInv => TypeOK
  BY DEF IInv
<1> QED BY <1>1, Inductive, PTL

(* Every version in the table names a bitmap the server holds, whatever    *)
(* the order of updates, searches, dummies, seals, crashes and reloads.    *)
THEOREM VersionsAlwaysStored == Spec => []VersionsStored
<1>1. IInv => VersionsStored
  BY DEF IInv
<1> QED BY <1>1, Inductive, PTL

(* What the enclave caches is what the server stores under the current     *)
(* version, and a consumed dummy in the cache is empty.                    *)
THEOREM CacheAlwaysCoherent == Spec => []CacheCoherent
<1>1. IInv => CacheCoherent
  BY DEF IInv
<1> QED BY <1>1, Inductive, PTL

(* A crash takes the index back to exactly what it was when its context    *)
(* was sealed, unless a version was reset since.                           *)
THEOREM SnapshotAlwaysIntact == Spec => []SnapshotIntact
<1>1. IInv => SnapshotIntact
  BY DEF IInv
<1> QED BY <1>1, Inductive, PTL

-----------------------------------------------------------------------------
(* Sizes.                                                                  *)

(* The counted dummies of a version table with the keys K.                 *)
Reserved(count, size, K) == count <= Cardinality(Dummies(size) \cap K)

(* The invariant; the sealed context has what the live one has, because a  *)
(* reload starts from it.                                                  *)
PInv ==
  /\ IsFiniteSet(DOMAIN KVS) /\ IsFiniteSet(DOMAIN CK)
  /\ CacheBounded
  /\ session # "down" => InitDummies <= Cardinality(words_KVS)
  /\ Reserved(dummy_count, dummy_size, DOMAIN KVS)
  /\ snapshot.taken =>
       /\ IsFiniteSet(DOMAIN snapshot.KVS)
       /\ InitDummies <= snapshot.count
       /\ Reserved(snapshot.dummy_count, snapshot.dummy_size, DOMAIN snapshot.KVS)

-----------------------------------------------------------------------------
(* Facts about sizes.                                                      *)

(* What is left of a cache after a spill.                                  *)
LEMMA Spilled ==
  ASSUME NEW D, IsFiniteSet(D), NEW w, NEW out \in Overflow(D, w)
  PROVE  /\ out \subseteq D /\ IsFiniteSet(D \ out)
         /\ Cardinality(D \ out) <= CK_max
<1>1. /\ out \subseteq D
      /\ Cardinality(out) = IF Cardinality(D) > CK_max
                            THEN Cardinality(D) - CK_max ELSE 0
  BY DEF Overflow
<1>2. IsFiniteSet(out) /\ Cardinality(out) \in Nat /\ Cardinality(D) \in Nat
  BY <1>1, FS_Subset, FS_CardinalityType
<1>3. IsFiniteSet(D \ out)
  BY FS_Subset
<1>4. Cardinality(D \ out) = Cardinality(D) - Cardinality(D \cap out)
  BY <1>2, FS_Difference
<1>5. D \cap out = out
  BY <1>1
<1>6. Cardinality(D \ out) = Cardinality(D) - Cardinality(out)
  BY <1>4, <1>5
<1>7. Cardinality(D \ out) <= CK_max
  BY <1>1, <1>2, <1>6, KeywordIndexAssumption
<1> QED BY <1>1, <1>3, <1>7

(* Storing a word with the spill that follows.                             *)
LEMMA WordStored ==
  ASSUME NEW kvs, NEW ck, NEW w \in DOMAIN ck,
         IsFiniteSet(DOMAIN kvs), IsFiniteSet(DOMAIN ck), StoreWord(kvs, ck, w)
  PROVE  /\ IsFiniteSet(DOMAIN KVS') /\ DOMAIN kvs \subseteq DOMAIN KVS'
         /\ IsFiniteSet(DOMAIN CK') /\ CacheBounded'
<1>1. PICK out \in Overflow(DOMAIN ck \ {w}, w) : StoreBatch(kvs, ck, {w} \cup out)
  BY DEF StoreWord
<1>2. IsFiniteSet(DOMAIN ck \ {w})
  BY FS_Subset
<1>3. /\ out \subseteq DOMAIN ck \ {w} /\ IsFiniteSet((DOMAIN ck \ {w}) \ out)
      /\ Cardinality((DOMAIN ck \ {w}) \ out) <= CK_max
  BY <1>2, Spilled
<1>4. /\ DOMAIN KVS' = DOMAIN kvs \cup ({w} \cup out)
      /\ DOMAIN CK' = DOMAIN ck \ ({w} \cup out)
  BY <1>1 DEF StoreBatch, Restrict
<1>5. IsFiniteSet({w} \cup out)
  BY <1>3, FS_Subset
<1>6. IsFiniteSet(DOMAIN kvs \cup ({w} \cup out))
  BY <1>5, FS_Union
<1>7. DOMAIN CK' = (DOMAIN ck \ {w}) \ out
  BY <1>4
<1> QED BY <1>3, <1>4, <1>6, <1>7 DEF CacheBounded

(* More keys do not make the dummies fewer.                                *)
LEMMA ReserveGrows ==
  ASSUME NEW count \in Nat, NEW size, NEW K, NEW L, K \subseteq L,
         IsFiniteSet(L), Reserved(count, size, K)
  PROVE  Reserved(count, size, L)
<1>1. IsFiniteSet(Dummies(size) \cap L)
  BY FS_Subset
<1>2. Dummies(size) \cap K \in SUBSET (Dummies(size) \cap L)
  OBVIOUS
<1>3. /\ Cardinality(Dummies(size) \cap K) <= Cardinality(Dummies(size) \cap L)
      /\ Cardinality(Dummies(size) \cap K) \in Nat
      /\ Cardinality(Dummies(size) \cap L) \in Nat
  BY <1>1, <1>2, FS_Subset, FS_CardinalityType
<1> QED BY <1>3 DEF Reserved

(* The keys of an extended table.                                          *)
LEMMA PutKeys ==
  ASSUME NEW f, NEW k, NEW v, IsFiniteSet(DOMAIN f)
  PROVE  DOMAIN Put(f, k, v) = DOMAIN f \cup {k} /\ IsFiniteSet(DOMAIN Put(f, k, v))
<1>1. DOMAIN Put(f, k, v) = DOMAIN f \cup {k}
  BY DEF Put
<1>2. IsFiniteSet(DOMAIN f \cup {k})
  BY FS_AddElement
<1> QED BY <1>1, <1>2

-----------------------------------------------------------------------------
(* A step that keeps the keywords and counters and may add keys.           *)
LEMMA PoolGrows ==
  ASSUME IInv, IInv', PInv, session # "down", snapshot' = snapshot,
         IsFiniteSet(DOMAIN KVS'), DOMAIN KVS \subseteq DOMAIN KVS',
         IsFiniteSet(DOMAIN CK'), CacheBounded',
         words_KVS \subseteq words_KVS',
         UNCHANGED <<dummy_count, dummy_size>>
  PROVE  PInv'
<1>1. IsFiniteSet(words_KVS')
  BY FS_Subset DEF IInv, TypeOK
<1>2. /\ Cardinality(words_KVS) <= Cardinality(words_KVS')
      /\ Cardinality(words_KVS) \in Nat /\ Cardinality(words_KVS') \in Nat
  BY <1>1, FS_Subset, FS_CardinalityType
<1>3. InitDummies <= Cardinality(words_KVS')
  BY <1>2, KeywordIndexAssumption DEF PInv
<1>4. Reserved(dummy_count, dummy_size, DOMAIN KVS')
  BY ReserveGrows DEF PInv, IInv, TypeOK
<1> QED BY <1>3, <1>4 DEF PInv

(* Losing the enclave: nothing is left to count.                           *)
LEMMA PoolLost ==
  ASSUME PInv, LoseEnclave
  PROVE  PInv'
<1>1. /\ session' = "down" /\ KVS' = Empty /\ CK' = Empty
      /\ dummy_count' = 0 /\ dummy_size' = 0 /\ snapshot' = snapshot
  BY DEF LoseEnclave
<1>2. DOMAIN KVS' = {} /\ DOMAIN CK' = {}
  BY <1>1 DEF Empty
<1>3. Dummies(dummy_size') \cap DOMAIN KVS' = {}
  BY <1>2
<1>4. Reserved(dummy_count, dummy_size, DOMAIN KVS)'
  BY <1>1, <1>3, FS_EmptySet DEF Reserved
<1>5. CacheBounded'
  BY <1>2, FS_EmptySet, KeywordIndexAssumption DEF CacheBounded
<1> QED BY <1>1, <1>2, <1>4, <1>5, FS_EmptySet DEF PInv

-----------------------------------------------------------------------------
(* An update: six of its branches only add keywords, the seventh puts one  *)
(* in the place of a counted dummy.                                        *)
LEMMA UpdatePool ==
  ASSUME IInv, PInv, NEW w \in Words, NEW d \in Docs, NEW op \in {"ADD", "DEL"},
         UpdateKeyword(w, d, op)
  PROVE  PInv'
<1>1. IInv' /\ session # "down" /\ session' # "down" /\ snapshot' = snapshot
  BY UpdateKeywordStep DEF UpdateKeyword
<1>2. IsFiniteSet(DOMAIN KVS) /\ IsFiniteSet(DOMAIN CK)
  BY DEF PInv
<1>3. \A v : /\ DOMAIN Put(CK, w, v) = DOMAIN CK \cup {w}
             /\ IsFiniteSet(DOMAIN Put(CK, w, v))
  BY <1>2, PutKeys
<1>3a. /\ DOMAIN Put(KVS, w, 1) = DOMAIN KVS \cup {w}
       /\ IsFiniteSet(DOMAIN Put(KVS, w, 1))
  BY <1>2, PutKeys
<1>4. ASSUME NEW kvs, NEW ck, NEW x \in DOMAIN ck, StoreWord(kvs, ck, x),
             IsFiniteSet(DOMAIN kvs), IsFiniteSet(DOMAIN ck),
             DOMAIN KVS \subseteq DOMAIN kvs, words_KVS \subseteq words_KVS',
             UNCHANGED <<dummy_count, dummy_size>>
      PROVE  PInv'
  BY <1>1, <1>4, WordStored, PoolGrows
<1>5. CASE UpdateEmptyCache(w, d, op)
  <2>1. /\ StoreBatch(Put(KVS, w, 1), Put(CK, w, Flip({}, d, op)), {w})
        /\ DOMAIN CK = {} /\ words_KVS' = words_KVS \cup {w}
        /\ UNCHANGED <<dummy_count, dummy_size>>
    BY <1>5 DEF UpdateEmptyCache
  <2>2. /\ DOMAIN KVS' = DOMAIN Put(KVS, w, 1) \cup {w}
        /\ DOMAIN CK' = DOMAIN Put(CK, w, Flip({}, d, op)) \ {w}
    BY <2>1 DEF StoreBatch, Restrict
  <2>3. DOMAIN KVS' = DOMAIN Put(KVS, w, 1) /\ DOMAIN CK' = {}
    BY <2>1, <2>2, <1>3, <1>3a
  <2>4. IsFiniteSet(DOMAIN KVS') /\ DOMAIN KVS \subseteq DOMAIN KVS'
    BY <2>3, <1>3a
  <2>5. IsFiniteSet(DOMAIN CK') /\ Cardinality(DOMAIN CK') <= CK_max
    BY <2>3, FS_EmptySet, KeywordIndexAssumption
  <2> QED BY <1>1, <2>1, <2>4, <2>5, PoolGrows DEF CacheBounded
<1>6. CASE UpdateCached(w, d, op) \/ UpdateStored(w, d, op)
  <2>1. PICK v : StoreWord(KVS, Put(CK, w, v), w)
    BY <1>6 DEF UpdateCached, UpdateStored
  <2>2. UNCHANGED <<words_KVS, dummy_count, dummy_size>>
    BY <1>6 DEF UpdateCached, UpdateStored
  <2> QED BY <1>2, <1>3, <1>4, <2>1, <2>2
<1>7. CASE UpdateCachedSwap(w, d, op)
  <2>1. PICK c, u, v : StoreWord(KVS, Put(Put(CK, c, u), w, v), w)
    BY <1>7 DEF UpdateCachedSwap
  <2>2. UNCHANGED <<words_KVS, dummy_count, dummy_size>>
    BY <1>7 DEF UpdateCachedSwap
  <2>3. IsFiniteSet(DOMAIN Put(CK, c, u))
    BY <1>2, PutKeys
  <2>4. /\ w \in DOMAIN Put(Put(CK, c, u), w, v)
        /\ IsFiniteSet(DOMAIN Put(Put(CK, c, u), w, v))
    <3> DEFINE ck == Put(CK, c, u)
    <3>1. IsFiniteSet(DOMAIN ck)
      BY <2>3
    <3> HIDE DEF ck
    <3>2. DOMAIN Put(ck, w, v) = DOMAIN ck \cup {w} /\ IsFiniteSet(DOMAIN Put(ck, w, v))
      BY <3>1, PutKeys
    <3> QED BY <3>2 DEF ck
  <2> QED BY <1>2, <1>4, <2>1, <2>2, <2>4
<1>8. CASE UpdateSkipped(w)
  BY <1>1, <1>2, <1>8, PoolGrows DEF UpdateSkipped, enclave, PInv, CacheBounded
<1>9. CASE UpdateNew(w, d, op)
  <2>1. /\ StoreWord(Put(KVS, w, 1), Put(CK, w, Flip({}, d, op)), w)
        /\ words_KVS' = words_KVS \cup {w} /\ UNCHANGED <<dummy_count, dummy_size>>
    BY <1>9 DEF UpdateNew
  <2>2. /\ DOMAIN KVS \subseteq DOMAIN Put(KVS, w, 1)
        /\ IsFiniteSet(DOMAIN Put(KVS, w, 1))
    BY <1>3a
  <2>3. /\ w \in DOMAIN Put(CK, w, Flip({}, d, op))
        /\ IsFiniteSet(DOMAIN Put(CK, w, Flip({}, d, op)))
    BY <1>3
  <2> QED BY <1>4, <2>1, <2>2, <2>3
<1>10. CASE UpdateNewForDummy(w, d, op)
  <2>1. /\ w \notin DOMAIN KVS /\ dummy_count > 0
        /\ dummy_count' = dummy_count - 1 /\ dummy_size' = dummy_size
    BY <1>10 DEF UpdateNewForDummy
  <2>2. PICK n \in Dummies(dummy_size) \cap DOMAIN KVS :
          /\ StoreWord(Put(Restrict(KVS, DOMAIN KVS \ {n}), w, 1),
                       Put(CK, w, Flip({}, d, op)), w)
          /\ words_KVS' = (words_KVS \ {n}) \cup {w}
    BY <1>10 DEF UpdateNewForDummy
  <2> DEFINE kvs == Put(Restrict(KVS, DOMAIN KVS \ {n}), w, 1)
             ck == Put(CK, w, Flip({}, d, op))
  <2>3. DOMAIN kvs = (DOMAIN KVS \ {n}) \cup {w}
    BY DEF Put, Restrict
  <2>4. IsFiniteSet(DOMAIN KVS \ {n})
    BY <1>2, FS_RemoveElement
  <2>5. IsFiniteSet(DOMAIN kvs)
    BY <2>3, <2>4, FS_AddElement
  <2>6. w \in DOMAIN ck /\ IsFiniteSet(DOMAIN ck)
    BY <1>3
  <2>7. /\ IsFiniteSet(DOMAIN KVS') /\ DOMAIN kvs \subseteq DOMAIN KVS'
        /\ IsFiniteSet(DOMAIN CK') /\ CacheBounded'
    <3> HIDE DEF kvs, ck
    <3> QED BY <2>2, <2>5, <2>6, WordStored DEF kvs, ck
  <2>8. InitDummies <= Cardinality(words_KVS')
    <3>1. /\ IsFiniteSet(words_KVS) /\ w \notin words_KVS
          /\ InitDummies <= Cardinality(words_KVS)
      BY <1>1, <1>2, <2>1, FS_Subset DEF IInv, TypeOK, PInv
    <3>5. Cardinality(words_KVS) \in Nat
      BY <3>1, FS_CardinalityType
    <3>6. IsFiniteSet(words_KVS \ {n})
      BY <3>1, FS_RemoveElement
    <3>7. Cardinality(words_KVS \ {n}) = IF n \in words_KVS THEN Cardinality(words_KVS) - 1
                                         ELSE Cardinality(words_KVS)
      BY <3>1, FS_RemoveElement
    <3>2. /\ IsFiniteSet(words_KVS \ {n}) /\ Cardinality(words_KVS) \in Nat
          /\ Cardinality(words_KVS \ {n}) >= Cardinality(words_KVS) - 1
      BY <3>5, <3>6, <3>7
    <3>3. Cardinality(words_KVS') = Cardinality(words_KVS \ {n}) + 1
      BY <2>2, <3>1, <3>2, FS_AddElement
    <3>4. Cardinality(words_KVS \ {n}) \in Nat
      BY <3>2, FS_CardinalityType
    <3> QED BY <3>1, <3>2, <3>3, <3>4, KeywordIndexAssumption
  <2>9. Reserved(dummy_count, dummy_size, DOMAIN KVS)'
    <3> DEFINE K == Dummies(dummy_size) \cap DOMAIN KVS
    <3>1. /\ IsFiniteSet(K) /\ Cardinality(K) \in Nat
          /\ dummy_count <= Cardinality(K)
      BY <1>2, FS_Intersection, FS_CardinalityType DEF PInv, Reserved
    <3>2. /\ IsFiniteSet(K \ {n}) /\ Cardinality(K \ {n}) = Cardinality(K) - 1
      BY <2>2, <3>1, FS_RemoveElement
    <3>3. dummy_count \in Nat
      BY DEF IInv, TypeOK
    <3>4. dummy_count' \in Nat /\ dummy_count' <= Cardinality(K \ {n})
      BY <2>1, <3>1, <3>2, <3>3
    <3>5. K \ {n} = Dummies(dummy_size) \cap (DOMAIN KVS \ {n})
      OBVIOUS
    <3>6. Reserved(dummy_count', dummy_size, DOMAIN KVS \ {n})
      BY <3>4, <3>5 DEF Reserved
    <3>7. DOMAIN KVS \ {n} \subseteq DOMAIN KVS'
      BY <2>3, <2>7
    <3> QED BY <2>1, <2>7, <3>4, <3>6, <3>7, ReserveGrows
  <2> QED BY <1>1, <2>7, <2>8, <2>9 DEF PInv
<1> QED BY <1>5, <1>6, <1>7, <1>8, <1>9, <1>10 DEF UpdateKeyword

(* A search stores nothing or the surplus of the cache.                    *)
LEMMA SearchPool ==
  ASSUME IInv, IInv', PInv, NEW w \in Words, Search(w)
  PROVE  PInv'
<1>1. /\ session = "up"
      /\ UNCHANGED <<session, words_KVS, dummy_count, dummy_size, snapshot>>
  BY DEF Search
<1>2. PICK k : \E out \in Overflow(DOMAIN Put(CK, k, Load(k)), w) :
                 StoreBatch(KVS, Put(CK, k, Load(k)), out)
  BY DEF Search
<1> DEFINE ck == Put(CK, k, Load(k))
<1>3. PICK out \in Overflow(DOMAIN ck, w) : StoreBatch(KVS, ck, out)
  BY <1>2
<1>4. IsFiniteSet(DOMAIN ck)
  BY PutKeys DEF PInv
<1> HIDE DEF ck
<1>5. /\ out \subseteq DOMAIN ck /\ IsFiniteSet(DOMAIN ck \ out)
      /\ Cardinality(DOMAIN ck \ out) <= CK_max
  BY <1>3, <1>4, Spilled
<1>6. DOMAIN KVS' = DOMAIN KVS \cup out /\ DOMAIN CK' = DOMAIN ck \ out
  BY <1>3 DEF StoreBatch, Restrict
<1>7. IsFiniteSet(out)
  BY <1>4, <1>5, FS_Subset
<1>8. IsFiniteSet(DOMAIN KVS \cup out)
  BY <1>7, FS_Union DEF PInv
<1> QED BY <1>1, <1>5, <1>6, <1>8, PoolGrows DEF CacheBounded

(* A flush stores the whole cache.                                         *)
LEMMA FlushPool ==
  ASSUME IInv, IInv', PInv, PersistFlush
  PROVE  PInv'
<1>1. /\ session = "up" /\ StoreBatch(KVS, CK, DOMAIN CK)
      /\ UNCHANGED <<words_KVS, dummy_count, dummy_size, snapshot>>
  BY DEF PersistFlush
<1>2. DOMAIN KVS' = DOMAIN KVS \cup DOMAIN CK /\ DOMAIN CK' = {}
  BY <1>1 DEF StoreBatch, Restrict
<1>3. IsFiniteSet(DOMAIN KVS \cup DOMAIN CK)
  BY FS_Union DEF PInv
<1>4. IsFiniteSet(DOMAIN CK') /\ CacheBounded'
  BY <1>2, FS_EmptySet, KeywordIndexAssumption DEF CacheBounded
<1> QED BY <1>1, <1>2, <1>3, <1>4, PoolGrows

(* An appended dummy is new below dummy_size, whether or not a ghost of it *)
(* is already a key.                                                       *)
LEMMA AppendPool ==
  ASSUME IInv, IInv', PInv, AppendDummy
  PROVE  PInv'
<1> DEFINE n == dummy_size
           K == Dummies(n) \cap DOMAIN KVS
<1>1. /\ session = "up" /\ DOMAIN KVS' = DOMAIN KVS \cup {n}
      /\ words_KVS' = words_KVS \cup {n}
      /\ dummy_count' = dummy_count + 1 /\ dummy_size' = n + 1
      /\ UNCHANGED <<session, CK, snapshot>>
  BY DEF AppendDummy
<1>2. n \in Nat /\ dummy_count \in Nat
  BY DEF IInv, TypeOK
<1>3. IsFiniteSet(DOMAIN KVS')
  BY <1>1, FS_AddElement DEF PInv
<1>4. InitDummies <= Cardinality(words_KVS')
  <2>1. IsFiniteSet(words_KVS')
    BY <1>3, FS_Subset DEF IInv, TypeOK
  <2>2. words_KVS \in SUBSET words_KVS'
    BY <1>1
  <2>3. /\ Cardinality(words_KVS) <= Cardinality(words_KVS')
        /\ Cardinality(words_KVS) \in Nat /\ Cardinality(words_KVS') \in Nat
    BY <2>1, <2>2, FS_Subset, FS_CardinalityType
  <2> QED BY <1>1, <2>3, KeywordIndexAssumption DEF PInv
<1>5. Reserved(dummy_count, dummy_size, DOMAIN KVS)'
  <2>1. IsFiniteSet(K) /\ Cardinality(K) \in Nat /\ dummy_count <= Cardinality(K)
    BY FS_Intersection, FS_CardinalityType DEF PInv, Reserved
  <2>2. n \notin K
    BY <1>2 DEF Dummies
  <2>3. Cardinality(K \cup {n}) = Cardinality(K) + 1
    BY <2>1, <2>2, FS_AddElement
  <2>4. Dummies(n + 1) \cap (DOMAIN KVS \cup {n}) = K \cup {n}
    BY <1>2 DEF Dummies
  <2>5. dummy_count + 1 <= Cardinality(K \cup {n})
    BY <1>2, <2>1, <2>3
  <2> QED BY <1>1, <2>4, <2>5 DEF Reserved
<1> QED BY <1>1, <1>3, <1>4, <1>5 DEF PInv, CacheBounded

(* Sealing: a long keyword is never a dummy, so the dummies are all there. *)
LEMMA SealPool ==
  ASSUME IInv, PInv, PersistSeal
  PROVE  PInv'
<1>1. /\ session = "sealing" /\ session' = "up" /\ snapshot' = Sealed
      /\ UNCHANGED <<KVS, words_KVS, CK, dummy_count, dummy_size>>
  BY DEF PersistSeal, enclave
<1>2. /\ snapshot'.count = Cardinality(DOMAIN KVS)
      /\ DOMAIN snapshot'.KVS = DOMAIN KVS \ LongWords
      /\ snapshot'.dummy_count = dummy_count /\ snapshot'.dummy_size = dummy_size
  BY <1>1 DEF Sealed, Restrict
<1>3. IsFiniteSet(DOMAIN KVS \ LongWords)
  BY FS_Subset DEF PInv
<1>4. InitDummies <= Cardinality(DOMAIN KVS)
  <2>1. words_KVS \in SUBSET DOMAIN KVS /\ IsFiniteSet(DOMAIN KVS)
    BY DEF IInv, TypeOK, PInv
  <2>2. /\ Cardinality(words_KVS) <= Cardinality(DOMAIN KVS)
        /\ Cardinality(words_KVS) \in Nat /\ Cardinality(DOMAIN KVS) \in Nat
    BY <2>1, FS_Subset, FS_CardinalityType
  <2> QED BY <1>1, <2>2, KeywordIndexAssumption DEF PInv
<1>5. Dummies(dummy_size) \cap (DOMAIN KVS \ LongWords) = Dummies(dummy_size) \cap DOMAIN KVS
  BY KeywordIndexAssumption DEF Dummies, IInv, TypeOK
<1>6. Reserved(dummy_count, dummy_size, DOMAIN KVS \ LongWords)
  BY <1>5 DEF PInv, Reserved
<1> QED BY <1>1, <1>2, <1>3, <1>4, <1>6 DEF PInv, CacheBounded

(* A reload restores what was sealed: the list is as long as its length.   *)
LEMMA ReloadPool ==
  ASSUME IInv, PInv, Reload
  PROVE  PInv'
<1>1. /\ snapshot.taken /\ snapshot.count = Cardinality(DOMAIN snapshot.KVS)
      /\ KVS' = snapshot.KVS /\ words_KVS' = DOMAIN snapshot.KVS
      /\ dummy_count' = snapshot.dummy_count /\ dummy_size' = snapshot.dummy_size
      /\ snapshot'.count = snapshot.count /\ snapshot'.KVS = snapshot.KVS
      /\ snapshot'.dummy_count = snapshot.dummy_count
      /\ snapshot'.dummy_size = snapshot.dummy_size
  BY Reopened DEF Reload, Restorable
<1>2. PICK D \in SUBSET DOMAIN snapshot.KVS :
        /\ IF Cardinality(DOMAIN snapshot.KVS) < CK_max
           THEN D = DOMAIN snapshot.KVS ELSE Cardinality(D) = CK_max
        /\ CK' = [k \in D |-> bitmaps[<<k, snapshot.KVS[k]>>]]
  BY DEF Reload
<1>3. IsFiniteSet(DOMAIN snapshot.KVS)
  BY <1>1 DEF PInv
<1>4. IsFiniteSet(D) /\ Cardinality(DOMAIN snapshot.KVS) \in Nat
  BY <1>3, FS_Subset, FS_CardinalityType
<1>5. Cardinality(D) <= CK_max
  BY <1>2, <1>4, KeywordIndexAssumption
<1>6. DOMAIN CK' = D
  BY <1>2
<1>7. IsFiniteSet(DOMAIN CK') /\ CacheBounded'
  BY <1>4, <1>5, <1>6 DEF CacheBounded
<1> QED BY <1>1, <1>3, <1>7 DEF PInv

-----------------------------------------------------------------------------
LEMMA InitPInv == Init => PInv
<1> SUFFICES ASSUME Init PROVE PInv
  OBVIOUS
<1>1. /\ DOMAIN KVS = Dummies(InitDummies) /\ words_KVS = Dummies(InitDummies)
      /\ CK = Empty /\ snapshot = NoSnapshot
      /\ dummy_count = InitDummies /\ dummy_size = InitDummies
  BY DEF Init
<1>2. /\ IsFiniteSet(Dummies(InitDummies))
      /\ Cardinality(Dummies(InitDummies)) = InitDummies
  BY KeywordIndexAssumption, FS_Interval DEF Dummies
<1>3. DOMAIN CK = {} /\ snapshot.taken = FALSE
  BY <1>1 DEF Empty, NoSnapshot
<1>4. IsFiniteSet(DOMAIN CK) /\ CacheBounded
  BY <1>3, FS_EmptySet, KeywordIndexAssumption DEF CacheBounded
<1>5. Reserved(dummy_count, dummy_size, DOMAIN KVS)
  <2>1. Dummies(dummy_size) \cap DOMAIN KVS = Dummies(InitDummies)
    BY <1>1
  <2>2. Cardinality(Dummies(dummy_size) \cap DOMAIN KVS) = InitDummies
    BY <1>2, <2>1
  <2>3. InitDummies <= InitDummies
    BY KeywordIndexAssumption
  <2> QED BY <1>1, <2>2, <2>3 DEF Reserved
<1>6. InitDummies <= Cardinality(words_KVS)
  BY <1>1, <1>2, KeywordIndexAssumption
<1> QED BY <1>1, <1>2, <1>3, <1>4, <1>5, <1>6 DEF PInv

LEMMA NextPInv == IInv /\ PInv /\ [Next]_vars => PInv'
<1> SUFFICES ASSUME IInv, PInv, [Next]_vars PROVE PInv'
  OBVIOUS
<1>1. IInv'
  BY NextIInv
<1>2. ASSUME NEW w \in Words, UpdateThrows(w) \/ SearchThrows(w) PROVE PInv'
  BY <1>2, PoolLost DEF UpdateThrows, UpdateNoCapacity, SearchThrows
<1>3. CASE Crash
  BY <1>3, PoolLost DEF Crash
<1>4. CASE UNCHANGED vars
  BY <1>4 DEF vars, enclave, PInv, CacheBounded, Reserved
<1> QED BY <1>1, <1>2, <1>3, <1>4, UpdatePool, SearchPool, AppendPool, FlushPool,
           SealPool, ReloadPool DEF Next

(* While the database is open and the pool large, there is a companion.    *)
LEMMA PickSucceeds ==
  ASSUME PoolIsLarge, IInv, PInv, session # "down"
  PROVE  ~PickFails
<1>1. IsFiniteSet(words_KVS) /\ IsFiniteSet(DOMAIN CK)
  BY FS_Subset DEF IInv, TypeOK, PInv
<1>2. /\ Cardinality(words_KVS) \in Nat /\ Cardinality(DOMAIN CK) \in Nat
      /\ Cardinality(DOMAIN CK) < Cardinality(words_KVS)
  <2>1. Cardinality(words_KVS) \in Nat /\ Cardinality(DOMAIN CK) \in Nat
    BY <1>1, FS_CardinalityType
  <2> QED BY <2>1, KeywordIndexAssumption DEF PInv, CacheBounded, PoolIsLarge
<1>3. ASSUME Uncached = {} PROVE FALSE
  <2>1. words_KVS \in SUBSET DOMAIN CK
    BY <1>3 DEF Uncached
  <2>2. Cardinality(words_KVS) <= Cardinality(DOMAIN CK)
    BY <1>1, <2>1, FS_Subset
  <2> QED BY <1>2, <2>2
<1> QED BY <1>2, <1>3 DEF PickFails

LEMMA PhantomStep ==
  ASSUME PoolIsLarge, IInv, PInv, NoPhantomPosting, [Next]_vars
  PROVE  NoPhantomPosting'
<1>1. CASE session # "down"
  BY <1>1, PickSucceeds, NextIInv
<1>2. CASE session = "down" /\ Reload
  BY <1>2, ReloadStep
<1>3. CASE session = "down" /\ ~Reload
  <2>1. session' = "down"
    BY <1>3 DEF Next, UpdateKeyword, UpdateThrows, Search, SearchThrows, AppendDummy,
                PersistFlush, PersistSeal, Crash, vars
  <2> QED BY <2>1 DEF NoPhantomPosting
<1> QED BY <1>1, <1>2, <1>3

-----------------------------------------------------------------------------
(* The sizes are right in every reachable state.                           *)
THEOREM PoolInductive == Spec => [](IInv /\ PInv)
<1>1. Init => IInv /\ PInv
  BY InitIInv, InitPInv
<1>2. IInv /\ PInv /\ [Next]_vars => IInv' /\ PInv'
  BY NextIInv, NextPInv
<1> QED BY <1>1, <1>2, PTL DEF Spec

(* No request leaves more than CK_max bitmaps in the enclave.              *)
THEOREM CacheAlwaysBounded == Spec => []CacheBounded
<1>1. PInv => CacheBounded
  BY DEF PInv
<1> QED BY <1>1, PoolInductive, PTL

(* The loop of UpdateKeywords that draws dummies always has one to draw    *)
(* when dummy_count is positive.                                           *)
THEOREM DummiesAlwaysReserved == Spec => []DummyReserve
<1>1. PInv => DummyReserve
  BY DEF PInv, Reserved, DummyReserve
<1> QED BY <1>1, PoolInductive, PTL

(* With more dummies than cache places, an open database always has an     *)
(* uncached keyword to load: nothing is skipped, no search throws.         *)
THEOREM CompanionAlwaysAvailable ==
  ASSUME PoolIsLarge
  PROVE  Spec => []CompanionAvailable
<1>1. IInv /\ PInv => CompanionAvailable
  BY PickSucceeds DEF CompanionAvailable
<1> QED BY <1>1, PoolInductive, PTL

(* ... and then no search ever returns a document that the word was not    *)
(* posted for.                                                             *)
THEOREM NoPhantomEver ==
  ASSUME PoolIsLarge
  PROVE  Spec => []NoPhantomPosting
<1>1. Init => NoPhantomPosting
  BY InitIInv
<1>2. IInv /\ PInv /\ NoPhantomPosting /\ [Next]_vars => NoPhantomPosting'
  BY PhantomStep
<1> QED BY <1>1, <1>2, PoolInductive, PTL DEF Spec

-----------------------------------------------------------------------------
(* What the steps of an open database do to the postings of its words.     *)
Kept == \A x \in Words : Missing(x)' \subseteq Missing(x)

(* An update that finds the cache non-empty flips one bit of one word.     *)
LEMMA WarmUpdateKeeps ==
  ASSUME IInv, NEW w \in Words, NEW d \in Docs, NEW op \in {"ADD", "DEL"},
         UpdateKeyword(w, d, op), DOMAIN CK # {}, ~UpdateSkipped(w)
  PROVE  Kept
<1>1. \A x \in Words : Content(x)' = After(w, d, op)[x]
  BY UpdateBatched, BatchStep
<1>2. /\ postings'[w] = Flip(postings[w], d, op)
      /\ \A x \in Words : x # w => postings'[x] = postings[x]
  BY DEF UpdateKeyword, Acknowledge, IInv, TypeOK
<1> SUFFICES ASSUME NEW x \in Words PROVE Missing(x)' \subseteq Missing(x)
  BY DEF Kept
<1>3. CASE x = w
  <2>1. Content(w)' = Flip(Content(w), d, op)
    BY <1>1 DEF After
  <2> QED BY <1>2, <1>3, <2>1 DEF Missing, Flip
<1>4. CASE x # w
  <2>1. Content(x)' = Content(x)
    BY <1>1, <1>4 DEF After
  <2> QED BY <1>2, <1>4, <2>1 DEF Missing
<1> QED BY <1>3, <1>4

(* A search or a flush changes no bitmap.                                  *)
LEMMA MoveKeeps ==
  ASSUME IInv, Framed, Batched(Contents), postings' = postings
  PROVE  Kept
<1>1. \A x \in Words : Content(x)' = Content(x)
  BY BatchStep DEF Contents
<1> QED BY <1>1 DEF Kept, Missing

(* An appended dummy is no word.                                           *)
LEMMA AppendContents ==
  ASSUME IInv, AppendDummy
  PROVE  \A x \in Words : Content(x)' = Content(x)
<1> DEFINE n == dummy_size
<1>1. /\ KVS' = [k \in DOMAIN KVS \cup {n} |-> IF k \in DOMAIN KVS THEN KVS[k] ELSE 0]
      /\ bitmaps' = Put(bitmaps, <<n, 0>>, {})
      /\ CK' = CK /\ postings' = postings
  BY DEF AppendDummy, WriteBitmaps
<1>2. n \in Nat
  BY DEF IInv, TypeOK
<1> HIDE DEF n
<1> SUFFICES ASSUME NEW x \in Words PROVE Content(x)' = Content(x)
  OBVIOUS
<1>3. x # n /\ (x \in DOMAIN KVS' <=> x \in DOMAIN KVS)
  BY <1>1, <1>2, KeyFacts
<1>4. ASSUME x \in DOMAIN KVS PROVE Load(x)' = Load(x)
  <2>1. KVS'[x] = KVS[x]
    BY <1>1, <1>4
  <2>2. <<x, KVS[x]>> \in DOMAIN bitmaps /\ <<x, KVS[x]>> # <<n, 0>>
    BY <1>3, <1>4 DEF IInv, VersionsStored
  <2>3. bitmaps'[<<x, KVS[x]>>] = bitmaps[<<x, KVS[x]>>]
    BY <1>1, <2>2 DEF Put
  <2> QED BY <2>1, <2>3 DEF Load
<1> QED BY <1>1, <1>3, <1>4 DEF Content

LEMMA WarmStepKeeps ==
  ASSUME PoolIsLarge, IInv, PInv, [Next]_vars,
         session # "down", session' # "down", DOMAIN CK # {}
  PROVE  Kept
<1>1. ASSUME NEW w \in Words, NEW d \in Docs, NEW op \in {"ADD", "DEL"},
             UpdateKeyword(w, d, op)
      PROVE  Kept
  <2>1. ~UpdateSkipped(w)
    BY PickSucceeds DEF UpdateSkipped
  <2> QED BY <1>1, <2>1, WarmUpdateKeeps
<1>2. ASSUME NEW w \in Words, Search(w) PROVE Kept
  BY <1>2, SearchBatched, MoveKeeps DEF Search
<1>3. CASE PersistFlush
  BY <1>3, FlushBatched, MoveKeeps DEF PersistFlush
<1>4. CASE UNCHANGED vars \/ PersistSeal
  BY <1>4 DEF vars, enclave, PersistSeal, Kept, Missing, Content, Load
<1>5. ~LoseEnclave /\ ~Reload
  BY DEF LoseEnclave, Reload
<1>6. CASE AppendDummy
  BY <1>6, AppendContents DEF AppendDummy, Kept, Missing
<1> QED BY <1>1, <1>2, <1>3, <1>4, <1>5, <1>6
        DEF Next, UpdateThrows, UpdateNoCapacity, SearchThrows, Crash

(* With more dummies than cache places, only an update that finds the      *)
(* cache empty can make the index forget a posting.                        *)
THEOREM WarmStepsAlwaysKeep ==
  ASSUME PoolIsLarge
  PROVE  Spec => WarmStepKeepsPostings
<1>1. IInv /\ PInv /\ [Next]_vars =>
        [session # "down" /\ session' # "down" /\ DOMAIN CK # {}
           => \A w \in Words : Missing(w)' \subseteq Missing(w)]_vars
  BY WarmStepKeeps DEF Kept
<1> QED BY <1>1, PoolInductive, PTL DEF Spec, WarmStepKeepsPostings

-----------------------------------------------------------------------------
(* A full cache is full again when the request is done.                    *)
Full == Cardinality(DOMAIN CK) = CK_max

(* A spill takes away no more than the surplus.                            *)
LEMMA SpilledFull ==
  ASSUME NEW D, IsFiniteSet(D), CK_max <= Cardinality(D), NEW w,
         NEW out \in Overflow(D, w)
  PROVE  Cardinality(D \ out) = CK_max
<1>1. /\ out \subseteq D
      /\ Cardinality(out) = IF Cardinality(D) > CK_max
                            THEN Cardinality(D) - CK_max ELSE 0
  BY DEF Overflow
<1>2. Cardinality(D) \in Nat
  BY FS_CardinalityType
<1>3. D \cap out = out
  BY <1>1
<1>4. Cardinality(D \ out) = Cardinality(D) - Cardinality(out)
  BY <1>3, FS_Difference
<1> QED BY <1>1, <1>2, <1>4, KeywordIndexAssumption

LEMMA StoredFull ==
  ASSUME NEW kvs, NEW ck, NEW w, IsFiniteSet(DOMAIN ck),
         CK_max <= Cardinality(DOMAIN ck \ {w}), StoreWord(kvs, ck, w)
  PROVE  Full'
<1>1. PICK out \in Overflow(DOMAIN ck \ {w}, w) : StoreBatch(kvs, ck, {w} \cup out)
  BY DEF StoreWord
<1>2. IsFiniteSet(DOMAIN ck \ {w})
  BY FS_Subset
<1>3. Cardinality((DOMAIN ck \ {w}) \ out) = CK_max
  BY <1>2, SpilledFull
<1>4. DOMAIN CK' = (DOMAIN ck \ {w}) \ out
  BY <1>1 DEF StoreBatch, Restrict
<1> QED BY <1>3, <1>4 DEF Full

(* A full cache is not roomy when there are more keywords than it holds.   *)
LEMMA FullNotRoomy ==
  ASSUME PoolIsLarge, IInv, PInv, session # "down", Full
  PROVE  ~Roomy
<1>1. words_KVS \in SUBSET DOMAIN KVS /\ IsFiniteSet(DOMAIN KVS)
  BY DEF IInv, TypeOK, PInv
<1>2. /\ Cardinality(words_KVS) <= Cardinality(DOMAIN KVS)
      /\ IsFiniteSet(words_KVS)
  BY <1>1, FS_Subset
<1>3. Cardinality(DOMAIN KVS) \in Nat /\ Cardinality(words_KVS) \in Nat
  BY <1>1, <1>2, FS_CardinalityType
<1> QED BY <1>2, <1>3, KeywordIndexAssumption DEF PInv, PoolIsLarge, Full, Roomy

(* A stored or new word is stored back and a swapped one makes room for    *)
(* its companion: what stays are as many as before.                        *)
LEMMA UpdateFull ==
  ASSUME PoolIsLarge, IInv, PInv, Full,
         NEW w \in Words, NEW d \in Docs, NEW op \in {"ADD", "DEL"},
         UpdateKeyword(w, d, op)
  PROVE  Full'
<1>1. session = "up" /\ ~Roomy /\ IsFiniteSet(DOMAIN CK) /\ CK_max \in Nat
  BY FullNotRoomy, KeywordIndexAssumption DEF UpdateKeyword, PInv
<1>2. DOMAIN CK # {}
  BY FS_EmptySet, KeywordIndexAssumption DEF Full
<1>3. CASE UpdateCachedSwap(w, d, op)
  <2>1. PICK c \in Uncached :
          StoreWord(KVS, Put(Put(CK, c, Load(c)), w, Flip(CK[w], d, op)), w)
    BY <1>3 DEF UpdateCachedSwap
  <2> DEFINE ck == Put(Put(CK, c, Load(c)), w, Flip(CK[w], d, op))
  <2>2. w \in DOMAIN CK /\ c \notin DOMAIN CK
    BY <1>3, <2>1 DEF UpdateCachedSwap, Uncached
  <2>3. DOMAIN ck = DOMAIN CK \cup {c} /\ IsFiniteSet(DOMAIN ck)
    <3>1. DOMAIN ck = DOMAIN CK \cup {c}
      BY <2>2 DEF Put
    <3> QED BY <1>1, <3>1, FS_AddElement
  <2>4. DOMAIN ck \ {w} = (DOMAIN CK \ {w}) \cup {c}
    BY <2>2, <2>3
  <2>5. Cardinality(DOMAIN CK \ {w}) = CK_max - 1 /\ IsFiniteSet(DOMAIN CK \ {w})
    BY <1>1, <2>2, FS_RemoveElement DEF Full
  <2>6. Cardinality((DOMAIN CK \ {w}) \cup {c}) = CK_max - 1 + 1
    BY <2>2, <2>5, FS_AddElement
  <2> HIDE DEF ck
  <2>7. CK_max <= Cardinality(DOMAIN ck \ {w})
    BY <1>1, <2>4, <2>6
  <2> QED BY <2>1, <2>3, <2>7, StoredFull DEF ck
<1>4. CASE UpdateStored(w, d, op) \/ UpdateNewForDummy(w, d, op)
  <2>1. w \notin DOMAIN CK
    BY <1>4 DEF UpdateStored, UpdateNewForDummy
  <2>2. PICK kvs, v : StoreWord(kvs, Put(CK, w, v), w)
    BY <1>4 DEF UpdateStored, UpdateNewForDummy
  <2>3. IsFiniteSet(DOMAIN Put(CK, w, v)) /\ DOMAIN Put(CK, w, v) \ {w} = DOMAIN CK
    <3>1. /\ DOMAIN Put(CK, w, v) = DOMAIN CK \cup {w}
          /\ IsFiniteSet(DOMAIN Put(CK, w, v))
      BY <1>1, PutKeys
    <3> QED BY <2>1, <3>1
  <2>4. CK_max <= Cardinality(DOMAIN Put(CK, w, v) \ {w})
    BY <1>1, <2>3 DEF Full
  <2> QED BY <2>2, <2>3, <2>4, StoredFull
<1>5. CASE UpdateSkipped(w)
  BY <1>5 DEF UpdateSkipped, enclave, Full
<1> QED BY <1>1, <1>2, <1>3, <1>4, <1>5
        DEF UpdateKeyword, UpdateEmptyCache, UpdateCached, UpdateNew

(* A search loads one and spills one.                                      *)
LEMMA SearchFull ==
  ASSUME IInv, PInv, Full, NEW w \in Words, Search(w)
  PROVE  Full'
<1>1. PICK k \in IF w \in DOMAIN CK THEN Uncached ELSE {w} :
        \E out \in Overflow(DOMAIN Put(CK, k, Load(k)), w) :
          StoreBatch(KVS, Put(CK, k, Load(k)), out)
  BY DEF Search
<1> DEFINE ck == Put(CK, k, Load(k))
<1>2. PICK out \in Overflow(DOMAIN ck, w) : StoreBatch(KVS, ck, out)
  BY <1>1
<1>3. k \notin DOMAIN CK /\ IsFiniteSet(DOMAIN CK) /\ CK_max \in Nat
  BY <1>1, KeywordIndexAssumption DEF Uncached, PInv
<1>4. DOMAIN ck = DOMAIN CK \cup {k} /\ IsFiniteSet(DOMAIN ck)
  BY <1>3, PutKeys
<1>5. Cardinality(DOMAIN ck) = CK_max + 1
  BY <1>3, <1>4, FS_AddElement DEF Full
<1> HIDE DEF ck
<1>6. Cardinality(DOMAIN ck \ out) = CK_max
  BY <1>2, <1>3, <1>4, <1>5, SpilledFull
<1>7. DOMAIN CK' = DOMAIN ck \ out
  BY <1>2 DEF StoreBatch, Restrict
<1> QED BY <1>6, <1>7 DEF Full

LEMMA FullStep ==
  ASSUME PoolIsLarge, IInv, PInv, [Next]_vars,
         session = "up", session' = "up", Full
  PROVE  Full'
<1>1. CASE UNCHANGED vars \/ AppendDummy
  BY <1>1 DEF vars, enclave, AppendDummy, Full
<1>2. ~LoseEnclave /\ ~Reload /\ ~PersistFlush /\ ~PersistSeal
  BY DEF LoseEnclave, Reload, PersistFlush, PersistSeal
<1> QED BY <1>1, <1>2, UpdateFull, SearchFull
        DEF Next, UpdateThrows, UpdateNoCapacity, SearchThrows, Crash

(* A session that starts with a full cache never gets to the branch of     *)
(* UpdateKeywords for an empty one until it is persisted: with the theorem *)
(* before, it loses no posting.                                            *)
THEOREM FullCacheAlwaysStaysFull ==
  ASSUME PoolIsLarge
  PROVE  Spec => FullCacheStaysFull
<1>1. IInv /\ PInv /\ [Next]_vars =>
        [session = "up" /\ session' = "up" /\ Cardinality(DOMAIN CK) = CK_max
           => Cardinality(DOMAIN CK') = CK_max]_vars
  BY FullStep DEF Full
<1> QED BY <1>1, PoolInductive, PTL DEF Spec, FullCacheStaysFull

-----------------------------------------------------------------------------
(* The index implements PostingStore.                                      *)

(* What the labels named in the sealed context hold, when it can be        *)
(* opened: the sealed copy of the abstract store.                          *)
SealedCopy ==
  [w \in Words |-> IF Reopens /\ w \in DOMAIN snapshot.KVS
                   THEN bitmaps[<<w, snapshot.KVS[w]>>] ELSE {}]

(* What a batch writes over the sealed copy is what the words hold now,    *)
(* and only of words that were started anew.                               *)
LEMMA CopyMade ==
  ASSUME IInv, IInv', snapshot' = snapshot, NEW new, Spared(new)
  PROVE  /\ Reopens' = Reopens
         /\ SealedCopy' \in Store!Copies(new, rewound')
<1>1. Reopens' = Reopens
  BY DEF Reopens, Restorable
<1>2. SealedCopy' \in [Words -> SUBSET Docs]
  BY DEF IInv, TypeOK, SnapshotStored, SealedCopy, Reopens
<1>3. ASSUME NEW w \in Words
      PROVE  \/ SealedCopy'[w] = SealedCopy[w]
             \/ Reopens /\ w \in rewound' /\ SealedCopy'[w] = new[w]
  <2>1. CASE Reopens /\ w \in DOMAIN snapshot.KVS
    BY <1>1, <2>1 DEF Spared, SealedCopy, Reopens
  <2>2. CASE ~(Reopens /\ w \in DOMAIN snapshot.KVS)
    BY <1>1, <2>2 DEF SealedCopy
  <2> QED BY <2>1, <2>2
<1> QED BY <1>1, <1>2, <1>3 DEF Store!Copies, Store!Index, SealedCopy

(* A step that only moves bitmaps.                                         *)
LEMMA ArrangeStep ==
  ASSUME IInv, IInv', session # "down", session' # "down",
         snapshot' = snapshot, rewound' = rewound, Spared(Contents),
         \A x \in Words : Content(x)' = Content(x)
  PROVE  Store!Arrange
<1>1. Reopens' = Reopens /\ SealedCopy' \in Store!Copies(Contents, rewound)
  BY CopyMade
<1>2. Contents' = Contents
  BY DEF Contents
<1> QED BY <1>1, <1>2 DEF Store!Arrange, SealedCopy, Contents

(* An update posts the document, or takes it out, from what the word held  *)
(* or, with an empty cache, from nothing; a skipped one does nothing.      *)
LEMMA UpdateImplements ==
  ASSUME IInv, NEW w \in Words, NEW d \in Docs, NEW op \in {"ADD", "DEL"},
         UpdateKeyword(w, d, op)
  PROVE  \/ UpdateSkipped(w) /\ UNCHANGED Store!storeVars
         \/ Store!Update(w, d, op)
<1>1. Framed /\ (UpdateSkipped(w) \/ Batched(After(w, d, op)))
  BY UpdateBatched
<1>2. CASE UpdateSkipped(w)
  <2>1. UNCHANGED <<session, snapshot, enclave, bitmaps, rewound>>
    BY <1>2 DEF UpdateKeyword, UpdateSkipped
  <2> QED BY <1>2, <2>1
          DEF Store!storeVars, enclave, Content, Load, Reopens, Restorable
<1>3. CASE ~UpdateSkipped(w) /\ Batched(After(w, d, op))
  <2>1. /\ session = "up" /\ session' = "up" /\ snapshot' = snapshot
        /\ IInv' /\ Spared(After(w, d, op))
        /\ \A x \in Words : Content(x)' = After(w, d, op)[x]
    BY <1>1, <1>3, BatchStep DEF UpdateKeyword
  <2>2. Contents' = After(w, d, op)
    BY <2>1 DEF Contents, After
  <2>3. Reopens' = Reopens /\ SealedCopy' \in Store!Copies(Contents', rewound')
    BY <2>1, <2>2, CopyMade
  <2>4. CASE DOMAIN CK # {}
    <3>1. rewound' = rewound
      BY <1>3, <2>4 DEF UpdateKeyword, UpdateEmptyCache, UpdateCached, UpdateCachedSwap,
            UpdateStored, UpdateNew, UpdateNewForDummy
    <3>2. Contents' = [Contents EXCEPT ![w] = Flip(@, d, op)]
      BY <2>2, <2>4 DEF After, Contents
    <3> QED BY <2>1, <2>3, <2>4, <3>1, <3>2
            DEF Store!Update, Store!Flip, Flip, SealedCopy, Contents
  <2>5. CASE DOMAIN CK = {}
    <3>1. UpdateEmptyCache(w, d, op)
      BY <1>3, <2>5 DEF UpdateKeyword, UpdateCached, UpdateCachedSwap, UpdateStored,
            UpdateNew, UpdateNewForDummy
    <3>2. rewound' \in {rewound, rewound \cup {w}} /\ DOMAIN CK' = {}
      BY <3>1 DEF UpdateEmptyCache, StoreBatch, Restrict, Put
    <3>3. Contents' = [Contents EXCEPT ![w] = Flip({}, d, op)]
      BY <2>2, <2>5 DEF After, Contents
    <3> QED BY <2>1, <2>3, <2>5, <3>2, <3>3
            DEF Store!Update, Store!Flip, Flip, SealedCopy, Contents
  <2> QED BY <2>4, <2>5
<1> QED BY <1>1, <1>2, <1>3

(* A search, a flush, a new dummy.                                         *)
LEMMA MoveImplements ==
  ASSUME IInv, Framed, Batched(Contents), rewound' = rewound
  PROVE  Store!Arrange
<1>1. IInv' /\ Spared(Contents) /\ \A x \in Words : Content(x)' = Content(x)
  BY BatchStep DEF Contents
<1> QED BY <1>1, ArrangeStep DEF Framed

LEMMA AppendImplements ==
  ASSUME IInv, AppendDummy
  PROVE  Store!Arrange
<1> DEFINE n == dummy_size
<1>1. /\ bitmaps' = Put(bitmaps, <<n, 0>>, {})
      /\ session = "up" /\ UNCHANGED <<session, snapshot, rewound>>
  BY DEF AppendDummy, WriteBitmaps
<1>2. n \in Nat
  BY DEF IInv, TypeOK
<1> HIDE DEF n
<1>3. ASSUME snapshot.taken, NEW w \in Words \cap DOMAIN snapshot.KVS
      PROVE  bitmaps'[<<w, snapshot.KVS[w]>>] = bitmaps[<<w, snapshot.KVS[w]>>]
  <2>1. <<w, snapshot.KVS[w]>> \in DOMAIN bitmaps /\ w # n
    BY <1>2, <1>3, KeyFacts DEF IInv, SnapshotStored
  <2> QED BY <1>1, <2>1 DEF Put
<1>4. Spared(Contents)
  BY <1>3 DEF Spared
<1> QED BY <1>1, <1>4, AppendDummyStep, AppendContents, ArrangeStep

(* The index is sealed as it is, unless it holds a word too long.          *)
LEMMA SealImplements ==
  ASSUME IInv, PInv, PersistSeal
  PROVE  Store!Seal
<1>1. /\ session = "sealing" /\ session' = "up"
      /\ snapshot' = Sealed /\ rewound' = {}
      /\ UNCHANGED <<KVS, CK, bitmaps>>
  BY DEF PersistSeal, enclave
<1> DEFINE K == DOMAIN KVS \ LongWords
<1>2. /\ snapshot'.taken /\ snapshot'.count = Cardinality(DOMAIN KVS)
      /\ snapshot'.KVS = [k \in K |-> KVS[k]]
  BY <1>1 DEF Sealed, Restrict
<1>3. Contents' = Contents
  BY <1>1 DEF Contents, Content, Load
<1>4. CASE Reopens'
  <2>1. Cardinality(K) = Cardinality(DOMAIN KVS)
    BY <1>2, <1>4 DEF Reopens, Restorable
  <2>2. K = DOMAIN KVS
    BY <2>1, FS_Subset DEF PInv
  <2>3. SealedCopy' = Contents
    BY <1>1, <1>2, <1>4, <2>2
       DEF SealedCopy, Contents, Content, Load, IInv, CacheCoherent
  <2> QED BY <1>1, <1>3, <1>4, <2>3 DEF Store!Seal, SealedCopy, Contents
<1>5. CASE ~Reopens'
  <2>1. LongWords # {}
    BY <1>2, <1>5 DEF Reopens, Restorable
  <2>2. SealedCopy' = [w \in Words |-> {}]
    BY <1>5 DEF SealedCopy
  <2> QED BY <1>1, <1>3, <1>5, <2>1, <2>2
          DEF Store!Seal, Store!NoPostings, SealedCopy, Contents
<1> QED BY <1>4, <1>5

(* The enclave is lost, with a part of its cache perhaps written.          *)
LEMMA LoseImplements ==
  ASSUME IInv, IInv', session # "down", LoseEnclave, Spared(Contents)
  PROVE  Store!Lose
<1>1. /\ session' = "down" /\ KVS' = Empty /\ CK' = Empty
      /\ snapshot' = snapshot /\ rewound' = rewound
  BY DEF LoseEnclave
<1>2. Reopens' = Reopens /\ SealedCopy' \in Store!Copies(Contents, rewound)
  BY <1>1, CopyMade
<1>3. DOMAIN KVS' = {} /\ DOMAIN CK' = {}
  BY <1>1 DEF Empty
<1>4. Contents' = [w \in Words |-> {}]
  BY <1>3 DEF Contents, Content
<1> QED BY <1>1, <1>2, <1>3, <1>4 DEF Store!Lose, Store!NoPostings, SealedCopy, Contents

LEMMA ReopenImplements ==
  ASSUME IInv, Reload
  PROVE  Store!Reopen
<1>1. /\ session = "down" /\ session' = "up" /\ Reopens
      /\ KVS' = snapshot.KVS /\ rewound' = {} /\ bitmaps' = bitmaps
  BY DEF Reload, Reopens
<1>2. snapshot'.KVS = snapshot.KVS /\ Reopens' = Reopens
  BY Reopened DEF Reopens, Restorable
<1>3. CacheCoherent'
  BY ReloadStep DEF IInv
<1>4. SealedCopy' = SealedCopy
  BY <1>1, <1>2 DEF SealedCopy
<1>5. Contents' = SealedCopy
  BY <1>1, <1>3 DEF Contents, Content, Load, SealedCopy, CacheCoherent
<1> QED BY <1>1, <1>2, <1>4, <1>5 DEF Store!Reopen, SealedCopy, Contents

(* What a user sees of the index, through any updates, searches, dummies,  *)
(* seals, crashes and reloads, is what PostingStore allows.                *)
THEOREM IndexImplementsStore == Spec => ImplementsPostingStore
<1>1. Init => Store!Init
  <2> SUFFICES ASSUME Init PROVE Store!Init
    OBVIOUS
  <2>1. session = "up" /\ CK = Empty /\ snapshot = NoSnapshot /\ rewound = {}
    BY DEF Init
  <2>2. DOMAIN CK = {} /\ ~Reopens
    BY <2>1 DEF Empty, NoSnapshot, Reopens
  <2>3. \A w \in Words : Content(w) = {}
    BY <2>1, InitIInv DEF NoPhantomPosting, Init
  <2> QED BY <2>1, <2>2, <2>3 DEF Store!Init, Store!NoPostings
<1>2. ASSUME IInv, PInv, [Next]_vars PROVE [Store!Next]_(Store!storeVars)
  <2>0. IInv'
    BY <1>2, NextIInv
  <2>1. ASSUME NEW w \in Words, NEW d \in Docs, NEW op \in {"ADD", "DEL"},
               UpdateKeyword(w, d, op)
        PROVE  [Store!Next]_(Store!storeVars)
    BY <1>2, <2>1, UpdateImplements DEF Store!Next
  <2>2. ASSUME NEW w \in Words, UpdateThrows(w) \/ SearchThrows(w)
        PROVE  Store!Lose
    <3>1. session # "down" /\ LoseEnclave /\ UNCHANGED <<bitmaps, snapshot>>
      BY <2>2 DEF UpdateThrows, UpdateNoCapacity, SearchThrows, LoseEnclave
    <3> QED BY <1>2, <2>0, <3>1, LoseImplements DEF Spared
  <2>3. ASSUME NEW w \in Words, Search(w) PROVE Store!Arrange
    BY <1>2, <2>3, SearchBatched, MoveImplements DEF Search
  <2>4. CASE AppendDummy
    BY <1>2, <2>4, AppendImplements DEF Store!Next
  <2>5. CASE PersistFlush
    BY <1>2, <2>5, FlushBatched, MoveImplements DEF PersistFlush, Store!Next
  <2>6. CASE PersistSeal
    BY <1>2, <2>6, SealImplements DEF Store!Next
  <2>7. CASE Crash
    BY <1>2, <2>0, <2>7, CrashStep, LoseImplements DEF Crash, Store!Next
  <2>8. CASE Reload
    BY <1>2, <2>8, ReopenImplements DEF Store!Next
  <2>9. CASE UNCHANGED vars
    BY <2>9 DEF vars, enclave, Store!storeVars, Content, Load, Reopens, Restorable
  <2> QED BY <1>2, <2>1, <2>2, <2>3, <2>4, <2>5, <2>6, <2>7, <2>8, <2>9
          DEF Next, Store!Next
<1> QED BY PoolInductive, <1>1, <1>2, PTL DEF Spec, ImplementsPostingStore, Store!Spec

(* With more dummies than cache places every acknowledged update is made:  *)
(* none is skipped, so each is an update of the abstract store.            *)
UpdatesTakeEffect ==
  [][\A w \in Words, d \in Docs, op \in {"ADD", "DEL"} :
       UpdateKeyword(w, d, op) => Store!Update(w, d, op)]_vars

THEOREM UpdatesAlwaysTakeEffect ==
  ASSUME PoolIsLarge
  PROVE  Spec => UpdatesTakeEffect
<1>1. ASSUME IInv, PInv, NEW w \in Words, NEW d \in Docs, NEW op \in {"ADD", "DEL"},
             UpdateKeyword(w, d, op)
      PROVE  Store!Update(w, d, op)
  <2>1. ~UpdateSkipped(w)
    BY <1>1, PickSucceeds DEF UpdateKeyword, UpdateSkipped
  <2> QED BY <1>1, <2>1, UpdateImplements
<1>2. IInv /\ PInv =>
        [\A w \in Words, d \in Docs, op \in {"ADD", "DEL"} :
           UpdateKeyword(w, d, op) => Store!Update(w, d, op)]_vars
  BY <1>1
<1> QED BY <1>2, PoolInductive, PTL DEF UpdatesTakeEffect
=============================================================================
