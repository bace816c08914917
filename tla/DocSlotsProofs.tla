--------------------------- MODULE DocSlotsProofs ---------------------------
(***************************************************************************)
(* Proofs about the documents of one database: they implement DocStore,    *)
(* the cache is bounded, and the versions stay in step until a sealed      *)
(* context is loaded; for any documents, contents and cache size.          *)
(*                                                                         *)
(* Updates, retrievals and flushes all end in StoreSlots, which moves      *)
(* contents from the cache to the server without changing any of them      *)
(* (StoreMoves); each action then shows what its cache held before.        *)
(***************************************************************************)
EXTENDS DocSlots, FiniteSetTheorems, TLAPS

(* A lost enclave has an empty cache, so that only the server counts.      *)
LostIsEmpty == session = "down" => DOMAIN doc_CK = {}

IInv ==
  /\ TypeOK /\ LostIsEmpty
  /\ CacheBounded /\ VersionsInStep /\ EmptyOnlyAsUploaded

(* A cache that a step may hand to StoreSlots.                             *)
Cache(ck) == ck \in [DOMAIN ck -> Content] /\ DOMAIN ck \subseteq DocIds

(* What a read would find with the cache ck.                               *)
With(ck, d) == IF d \in DOMAIN ck THEN ck[d] ELSE slots[d].content

docs == [d \in DocIds |-> Current(d)]
durable == [d \in DocIds |-> slots[d].content]

(* S has moved from the cache ck to the server: every document keeps its   *)
(* content, and the server changes exactly at S.                           *)
Moved(ck, ver, S) ==
  /\ slots' \in [DocIds -> [content : Content, version : Nat]]
  /\ doc_slot_version' \in [DocIds -> Nat]
  /\ doc_CK' \in [DOMAIN doc_CK' -> Content]
  /\ DOMAIN doc_CK' = DOMAIN ck \ S
  /\ docs' = [d \in DocIds |-> With(ck, d)]
  /\ durable' = [d \in DocIds |-> IF d \in S THEN docs'[d] ELSE durable[d]]
  /\ \A d \in DocIds :
       doc_slot_version'[d] - slots'[d].version =
         IF d \in S THEN 0 ELSE ver[d] - slots[d].version

-----------------------------------------------------------------------------
(* The content and version of a slot, and what a read of it finds.         *)
LEMMA SlotsTyped ==
  ASSUME TypeOK, NEW d \in DocIds
  PROVE  slots[d].content \in Content /\ slots[d].version \in Nat /\ Current(d) \in Content
BY DEF TypeOK, Current

(* Storing some of the cache leaves every document with its content, and   *)
(* changes the server exactly at what was stored.                          *)
LEMMA StoreMoves ==
  ASSUME TypeOK, NEW ck, Cache(ck), NEW ver \in [DocIds -> Nat],
         NEW S \in SUBSET DOMAIN ck, StoreSlots(ck, ver, S)
  PROVE  Moved(ck, ver, S)
<1>1. /\ slots' = [d \in DocIds |->
                     IF d \in S THEN [content |-> ck[d], version |-> ver[d] + 1]
                     ELSE slots[d]]
      /\ doc_slot_version' = [d \in DocIds |-> ver[d] + IF d \in S THEN 1 ELSE 0]
      /\ doc_CK' = [d \in DOMAIN ck \ S |-> ck[d]]
  BY DEF StoreSlots, WriteSlots, Restrict
<1>2. \A d \in DocIds : /\ slots[d] \in [content : Content, version : Nat]
                        /\ ver[d] \in Nat
  BY DEF TypeOK
<1>3. \A d \in DOMAIN ck : ck[d] \in Content /\ d \in DocIds
  BY DEF Cache
<1>4. slots' \in [DocIds -> [content : Content, version : Nat]]
  BY <1>1, <1>2, <1>3
<1>5. doc_slot_version' \in [DocIds -> Nat]
  BY <1>1, <1>2
<1>6. doc_CK' \in [DOMAIN doc_CK' -> Content] /\ DOMAIN doc_CK' = DOMAIN ck \ S
  BY <1>1, <1>3
<1>7. ASSUME NEW d \in DocIds PROVE Current(d)' = With(ck, d)
  BY <1>1, <1>6 DEF Current, With
<1>8. docs' = [d \in DocIds |-> With(ck, d)]
  BY <1>7 DEF docs
<1>9. ASSUME NEW d \in DocIds
      PROVE  slots'[d].content = IF d \in S THEN With(ck, d) ELSE slots[d].content
  BY <1>1 DEF With
<1>10. durable' = [d \in DocIds |-> IF d \in S THEN docs'[d] ELSE durable[d]]
  BY <1>8, <1>9 DEF durable
<1>11. ASSUME NEW d \in DocIds
       PROVE  doc_slot_version'[d] - slots'[d].version =
                IF d \in S THEN 0 ELSE ver[d] - slots[d].version
  <2>1. CASE d \in S
    BY <2>1, <1>1, <1>2
  <2>2. CASE d \notin S
    BY <2>2, <1>1, <1>2
  <2> QED BY <2>1, <2>2
<1> QED BY <1>4, <1>5, <1>6, <1>8, <1>10, <1>11 DEF Moved

(* Fetching changes no content.                                            *)
LEMMA FetchedHolds ==
  ASSUME TypeOK, NEW F \in SUBSET DocIds
  PROVE  /\ Cache(Fetched(F)) /\ DOMAIN Fetched(F) = DOMAIN doc_CK \cup F
         /\ \A d \in DocIds : With(Fetched(F), d) = Current(d)
<1>1. DOMAIN Fetched(F) = DOMAIN doc_CK \cup F /\ DOMAIN Fetched(F) \subseteq DocIds
  BY DEF Fetched, TypeOK
<1>2. \A d \in DOMAIN Fetched(F) : Fetched(F)[d] = Current(d)
  BY DEF Fetched
<1>3. Fetched(F) = [d \in DOMAIN Fetched(F) |-> Fetched(F)[d]]
  BY DEF Fetched
<1>4. Cache(Fetched(F))
  BY <1>1, <1>2, <1>3, SlotsTyped DEF Cache
<1>5. ASSUME NEW d \in DocIds PROVE With(Fetched(F), d) = Current(d)
  BY <1>1, <1>2 DEF With, Current
<1> QED BY <1>1, <1>4, <1>5

InStep == \A d \in DocIds : doc_slot_version[d] = slots[d].version

(* What every step of a live enclave leaves: well-typed documents, and a   *)
(* server that holds some of them as they now are.                         *)
Stored ==
  /\ slots' \in [DocIds -> [content : Content, version : Nat]]
  /\ doc_slot_version' \in [DocIds -> Nat]
  /\ doc_CK' \in [DOMAIN doc_CK' -> Content] /\ DOMAIN doc_CK' \subseteq DocIds
  /\ \E S \in SUBSET DocIds :
       durable' = [d \in DocIds |-> IF d \in S THEN docs'[d] ELSE durable[d]]

(* One read, one change and one store, of whichever document.              *)
LEMMA UpdateMoves ==
  ASSUME TypeOK, NEW d \in DocIds, NEW c \in Content, RunSlotUpdate(d, c)
  PROVE  /\ Stored /\ docs' = [docs EXCEPT ![d] = c]
         /\ InStep => InStep'
         /\ CacheBounded => CacheBounded'
<1>1. PICK read \in IF d \in DOMAIN doc_CK THEN DocIds \ {d} ELSE {d} :
        \E pick \in DOMAIN [Fetched({read, d} \ DOMAIN doc_CK) EXCEPT ![d] = c] :
          StoreSlots([Fetched({read, d} \ DOMAIN doc_CK) EXCEPT ![d] = c],
                     Repaired({read, d} \ DOMAIN doc_CK), {pick})
  BY DEF RunSlotUpdate
<1> DEFINE F == {read, d} \ DOMAIN doc_CK
           ck == [Fetched(F) EXCEPT ![d] = c]
           ver == Repaired(F)
<1>2. PICK pick \in DOMAIN ck : StoreSlots(ck, ver, {pick})
  BY <1>1
<1>3. F \in SUBSET DocIds /\ d \in DOMAIN doc_CK \cup F
  BY <1>1
<1>4. /\ Cache(Fetched(F)) /\ DOMAIN Fetched(F) = DOMAIN doc_CK \cup F
      /\ \A x \in DocIds : With(Fetched(F), x) = Current(x)
  BY <1>3, FetchedHolds
<1>5. DOMAIN ck = DOMAIN doc_CK \cup F /\ ck[d] = c
      /\ \A x \in DOMAIN ck \ {d} : ck[x] = Fetched(F)[x]
  BY <1>3, <1>4
<1>6. Cache(ck)
  BY <1>4, <1>5 DEF Cache
<1>7. \A x \in DocIds : With(ck, x) = IF x = d THEN c ELSE Current(x)
  BY <1>3, <1>4, <1>5 DEF With
<1>8. ver \in [DocIds -> Nat] /\ (InStep => \A x \in DocIds : ver[x] = slots[x].version)
  <2>1. \A x \in DocIds : slots[x].version \in Nat /\ doc_slot_version[x] \in Nat
    BY SlotsTyped DEF TypeOK
  <2> QED BY <2>1 DEF Repaired, InStep
<1>9. \/ DOMAIN ck = DOMAIN doc_CK \cup {read}
      \/ DOMAIN ck = DOMAIN doc_CK
  BY <1>1, <1>5
<1> HIDE DEF ck, ver, F
<1>10. Moved(ck, ver, {pick})
  <2>1. {pick} \in SUBSET DOMAIN ck
    BY <1>2
  <2>2. StoreSlots(ck, ver, {pick}) /\ Cache(ck) /\ ver \in [DocIds -> Nat]
    BY <1>2, <1>6, <1>8
  <2> QED BY <2>1, <2>2, StoreMoves
<1>11. docs' = [docs EXCEPT ![d] = c]
  BY <1>7, <1>10 DEF docs, Moved
<1>12. Stored
  <2>1. {pick} \in SUBSET DocIds /\ DOMAIN doc_CK' \subseteq DocIds
    BY <1>2, <1>6, <1>10 DEF Cache, Moved
  <2> QED BY <1>10, <2>1 DEF Stored, Moved
<1>13. ASSUME InStep PROVE InStep'
  <2> SUFFICES ASSUME NEW x \in DocIds
               PROVE  doc_slot_version'[x] = slots'[x].version
    BY DEF InStep
  <2>1. /\ doc_slot_version'[x] \in Nat /\ slots'[x].version \in Nat
        /\ ver[x] = slots[x].version /\ ver[x] \in Nat
    BY <1>8, <1>10, <1>13 DEF Moved
  <2>2. doc_slot_version'[x] - slots'[x].version = 0
    BY <1>10, <2>1 DEF Moved
  <2> QED BY <2>1, <2>2
<1>14. ASSUME CacheBounded PROVE CacheBounded'
  <2>1. IsFiniteSet(DOMAIN doc_CK) /\ IsFiniteSet(DOMAIN ck)
    BY <1>6, DocSlotsAssumption, FS_Subset DEF TypeOK, Cache
  <2>2. /\ Cardinality(DOMAIN doc_CK) \in Nat /\ Cardinality(DOMAIN ck) \in Nat
    BY <2>1, FS_CardinalityType
  <2>5. Cardinality(DOMAIN doc_CK \cup {read}) =
          IF read \in DOMAIN doc_CK THEN Cardinality(DOMAIN doc_CK)
          ELSE Cardinality(DOMAIN doc_CK) + 1
    BY <2>1, FS_AddElement
  <2>3. Cardinality(DOMAIN ck) <= Cardinality(DOMAIN doc_CK) + 1
    BY <1>9, <2>2, <2>5
  <2>4. Cardinality(DOMAIN ck \ {pick}) = Cardinality(DOMAIN ck) - 1
    BY <1>2, <2>1, FS_RemoveElement
  <2> QED BY <1>10, <1>14, <2>2, <2>3, <2>4, DocSlotsAssumption DEF CacheBounded, Moved
<1> QED BY <1>11, <1>12, <1>13, <1>14

(* A retrieval reads what every document holds, and stores the surplus.    *)
LEMMA RetrieveMoves ==
  ASSUME TypeOK, NEW A \in SUBSET DocIds, Retrieve(A)
  PROVE  /\ Stored /\ docs' = docs /\ last' = Returned([d \in A |-> docs[d]])
         /\ InStep => InStep'
         /\ CacheBounded'
<1>1. PICK B \in AccessPlans(A) :
        /\ last' = Returned(Restrict(Fetched(B), A))
        /\ \E S \in Spills(DOMAIN Fetched(B)) :
             StoreSlots(Fetched(B), doc_slot_version, S)
  BY DEF Retrieve
<1> DEFINE ck == Fetched(B)
<1>2. PICK S \in Spills(DOMAIN ck) : StoreSlots(ck, doc_slot_version, S)
  BY <1>1
<1>3. A \subseteq B /\ B \in SUBSET DocIds
  BY <1>1 DEF AccessPlans, Padding, TypeOK
<1>4. /\ Cache(ck) /\ DOMAIN ck = DOMAIN doc_CK \cup B
      /\ \A x \in DocIds : With(ck, x) = Current(x)
  BY <1>3, FetchedHolds
<1>5. Restrict(ck, A) = [d \in A |-> docs[d]]
  <2>1. \A d \in A : ck[d] = docs[d]
    BY <1>3, <1>4 DEF With, docs
  <2> QED BY <2>1 DEF Restrict
<1>6. S \in SUBSET DOMAIN ck /\ doc_slot_version \in [DocIds -> Nat]
  BY <1>2 DEF Spills, TypeOK
<1> HIDE DEF ck
<1>7. Moved(ck, doc_slot_version, S)
  BY <1>2, <1>4, <1>6, StoreMoves
<1>8. docs' = docs
  BY <1>4, <1>7 DEF docs, Moved
<1>9. Stored
  <2>1. S \in SUBSET DocIds /\ DOMAIN doc_CK' \subseteq DocIds
    BY <1>4, <1>6, <1>7 DEF Cache, Moved
  <2> QED BY <1>7, <2>1 DEF Stored, Moved
<1>10. ASSUME InStep PROVE InStep'
  <2> SUFFICES ASSUME NEW x \in DocIds
               PROVE  doc_slot_version'[x] = slots'[x].version
    BY DEF InStep
  <2>1. /\ doc_slot_version'[x] \in Nat /\ slots'[x].version \in Nat
        /\ doc_slot_version[x] = slots[x].version /\ doc_slot_version[x] \in Nat
    BY <1>6, <1>7, <1>10 DEF InStep, Moved
  <2>2. doc_slot_version'[x] - slots'[x].version = 0
    BY <1>7, <2>1 DEF Moved
  <2> QED BY <2>1, <2>2
<1>11. CacheBounded'
  <2>1. IsFiniteSet(DOMAIN ck) /\ IsFiniteSet(S)
    BY <1>4, <1>6, DocSlotsAssumption, FS_Subset DEF Cache
  <2>2. Cardinality(DOMAIN ck) \in Nat /\ DOMAIN ck \cap S = S
    BY <1>6, <2>1, FS_CardinalityType
  <2>3. Cardinality(DOMAIN ck \ S) = Cardinality(DOMAIN ck) - Cardinality(S)
    BY <2>1, <2>2, FS_Difference, ZenonT(60)
  <2>4. Cardinality(S) = IF Cardinality(DOMAIN ck) > doc_CK_max
                         THEN Cardinality(DOMAIN ck) - doc_CK_max ELSE 0
    BY <1>2 DEF Spills
  <2>5. Cardinality(DOMAIN ck \ S) <= doc_CK_max
    BY <2>2, <2>3, <2>4, DocSlotsAssumption
  <2> QED BY <1>7, <2>5 DEF CacheBounded, Moved
<1> QED BY <1>1, <1>5, <1>8, <1>9, <1>10, <1>11 DEF ck

-----------------------------------------------------------------------------
(* A request leaves the variables their shape.                             *)
LEMMA RequestTyped ==
  ASSUME TypeOK, Request, Stored, all_docs' \in SUBSET DocIds, blank' \subseteq DocIds,
         NEW A \in SUBSET DocIds, NEW f \in [A -> Content],
         last' = [op |-> "write", docs |-> f] \/ last' = [op |-> "read", docs |-> f]
  PROVE  TypeOK'
<1>1. session' \in {"up", "flushing", "down"} /\ resumed' \in BOOLEAN
  BY DEF TypeOK, Request
<1>2. \/ snapshot' = NoSnapshot
      \/ snapshot' \in [taken : {TRUE}, doc_slot_version : [DocIds -> Nat],
                        all_docs : SUBSET DocIds]
  BY DEF TypeOK, Request
<1>3. /\ last' = [op |-> last'.op, docs |-> last'.docs]
      /\ last'.op \in {"write", "read"} /\ last'.docs = f
  OBVIOUS
<1>4. /\ slots' \in [DocIds -> [content : Content, version : Nat]]
      /\ doc_slot_version' \in [DocIds -> Nat]
      /\ doc_CK' \in [DOMAIN doc_CK' -> Content] /\ DOMAIN doc_CK' \subseteq DocIds
  BY DEF Stored
<1> QED BY <1>1, <1>2, <1>3, <1>4 DEF TypeOK, Content, NoSnapshot, NoRequest

(* What the three updates have in common.                                  *)
Updated(d, c) ==
  /\ Request /\ RunSlotUpdate(d, c) /\ last' = Wrote(d, c)
  /\ all_docs' \subseteq all_docs \cup {d}
  /\ c = NoDoc => d \notin all_docs' \/ d \in blank'
  /\ blank' \subseteq blank \cup {d} /\ blank \ {d} \subseteq blank'

(* Inserts, deletions and replacements are updates in this sense.          *)
LEMMA UpdatesUpdate ==
  ASSUME TypeOK, \/ \E d \in DocIds, c \in Content : Insert(d, c)
                 \/ \E d \in DocIds : Delete(d)
                 \/ \E d \in DocIds, c \in Content : Replace(d, c)
  PROVE  \E d \in DocIds, c \in Content : Updated(d, c)
<1>1. CASE \E d \in DocIds, c \in Content : Insert(d, c)
  BY <1>1, DocSlotsAssumption DEF Insert, Updated, Uploaded, Content
<1>2. CASE \E d \in DocIds : Delete(d)
  BY <1>2 DEF Delete, Updated, Content
<1>3. CASE \E d \in DocIds, c \in Content : Replace(d, c)
  BY <1>3, DocSlotsAssumption DEF Replace, Updated, Uploaded, Content
<1> QED BY <1>1, <1>2, <1>3

(* A flush empties the cache and changes no document.                      *)
LEMMA FlushMoves ==
  ASSUME TypeOK, PersistFlush
  PROVE  /\ Stored /\ docs' = docs /\ DOMAIN doc_CK' = {}
         /\ InStep => InStep'
<1>1. Cache(doc_CK) /\ doc_slot_version \in [DocIds -> Nat]
  BY DEF TypeOK, Cache
<1>2. Moved(doc_CK, doc_slot_version, DOMAIN doc_CK)
  BY <1>1, StoreMoves DEF PersistFlush
<1>3. docs' = docs
  BY <1>2 DEF Moved, docs, With, Current
<1>4. DOMAIN doc_CK' = {} /\ Stored
  BY <1>1, <1>2 DEF Moved, Stored, Cache
<1>5. ASSUME InStep PROVE InStep'
  <2> SUFFICES ASSUME NEW x \in DocIds
               PROVE  doc_slot_version'[x] = slots'[x].version
    BY DEF InStep
  <2>1. /\ doc_slot_version'[x] \in Nat /\ slots'[x].version \in Nat
        /\ doc_slot_version[x] = slots[x].version /\ doc_slot_version[x] \in Nat
    BY <1>1, <1>2, <1>5 DEF InStep, Moved
  <2>2. doc_slot_version'[x] - slots'[x].version = 0
    BY <1>2, <2>1 DEF Moved
  <2> QED BY <2>1, <2>2
<1> QED BY <1>3, <1>4, <1>5

(* A crash takes every document back to its content on the server.         *)
LEMMA CrashMoves ==
  ASSUME TypeOK, Crash
  PROVE  /\ slots' \in [DocIds -> [content : Content, version : Nat]]
         /\ docs' = durable'
         /\ \E S \in SUBSET DocIds :
              durable' = [d \in DocIds |-> IF d \in S THEN docs[d] ELSE durable[d]]
<1>1. PICK S \in SUBSET DOMAIN doc_CK : WriteSlots(doc_CK, doc_slot_version, S)
  BY DEF Crash
<1>2. slots' = [d \in DocIds |->
                  IF d \in S
                  THEN [content |-> doc_CK[d], version |-> doc_slot_version[d] + 1]
                  ELSE slots[d]]
  BY <1>1 DEF WriteSlots
<1>3. /\ \A d \in DocIds : /\ slots[d] \in [content : Content, version : Nat]
                           /\ doc_slot_version[d] \in Nat
      /\ \A d \in DOMAIN doc_CK : doc_CK[d] \in Content
      /\ S \in SUBSET DocIds
  BY <1>1 DEF TypeOK
<1>4. slots' \in [DocIds -> [content : Content, version : Nat]]
  BY <1>1, <1>2, <1>3
<1>5. docs' = durable'
  BY DEF Crash, docs, durable, Current, Empty
<1>6. durable' = [d \in DocIds |-> IF d \in S THEN docs[d] ELSE durable[d]]
  BY <1>1, <1>2 DEF durable, docs, Current
<1> QED BY <1>3, <1>4, <1>5, <1>6

-----------------------------------------------------------------------------
(* The tombstones of a new database satisfy the invariant.                 *)
LEMMA InitInv == Init => IInv
<1> SUFFICES ASSUME Init PROVE IInv
  OBVIOUS
<1>1. TypeOK
  BY DEF Init, TypeOK, Empty, Content
<1>2. Cardinality(DOMAIN doc_CK) = 0
  BY FS_EmptySet DEF Init, Empty
<1> QED BY <1>1, <1>2, DocSlotsAssumption
    DEF Init, IInv, LostIsEmpty, CacheBounded, VersionsInStep,
        EmptyOnlyAsUploaded, Empty

(* An update keeps the invariant: what it empties it unlists, unless the   *)
(* upload was empty.                                                       *)
LEMMA UpdatedInv ==
  ASSUME IInv, NEW d \in DocIds, NEW c \in Content, Updated(d, c)
  PROVE  IInv'
<1>1. /\ Stored /\ docs' = [docs EXCEPT ![d] = c]
      /\ InStep => InStep'
      /\ CacheBounded => CacheBounded'
  BY UpdateMoves DEF IInv, Updated
<1>2. TypeOK'
  <2>1. all_docs' \in SUBSET DocIds /\ blank' \subseteq DocIds
    BY DEF IInv, TypeOK, Updated
  <2>2. [x \in {d} |-> c] \in [{d} -> Content] /\ {d} \in SUBSET DocIds
    OBVIOUS
  <2>3. last' = [op |-> "write", docs |-> [x \in {d} |-> c]]
    BY DEF Updated, Wrote
  <2> QED BY <1>1, <2>1, <2>2, <2>3, RequestTyped DEF IInv, Updated
<1>3. LostIsEmpty'
  BY DEF LostIsEmpty, Updated, Request
<1>4. CacheBounded' /\ VersionsInStep'
  BY <1>1 DEF IInv, VersionsInStep, InStep, Updated, Request
<1>5. EmptyOnlyAsUploaded'
  <2> SUFFICES ASSUME ~resumed', NEW x \in all_docs', Current(x)' = NoDoc
               PROVE  x \in blank'
    BY DEF EmptyOnlyAsUploaded
  <2>1. x \in DocIds /\ Current(x)' = IF x = d THEN c ELSE Current(x)
    BY <1>1 DEF docs, IInv, TypeOK, Updated
  <2>2. CASE x = d
    BY <2>1, <2>2 DEF Updated
  <2>3. CASE x # d
    BY <2>1, <2>3 DEF Updated, Request, IInv, EmptyOnlyAsUploaded
  <2> QED BY <2>2, <2>3
<1> QED BY <1>2, <1>3, <1>4, <1>5 DEF IInv

(* A retrieval, its padding and its spills keep the invariant.             *)
LEMMA RetrieveInv ==
  ASSUME IInv, NEW A \in SUBSET DocIds, Retrieve(A)
  PROVE  IInv'
<1>1. /\ Stored /\ docs' = docs /\ last' = Returned([d \in A |-> docs[d]])
      /\ InStep => InStep'
      /\ CacheBounded'
  BY RetrieveMoves DEF IInv
<1>2. Request /\ all_docs' = all_docs
  BY DEF Retrieve
<1>6. blank' = blank /\ blank' \subseteq DocIds
  BY DEF Retrieve, IInv, TypeOK
<1>3. TypeOK'
  <2>1. [d \in A |-> docs[d]] \in [A -> Content]
    BY SlotsTyped DEF docs, IInv
  <2> QED BY <1>1, <1>2, <1>6, <2>1, RequestTyped DEF IInv, TypeOK, Returned
<1>4. LostIsEmpty' /\ VersionsInStep'
  BY <1>1, <1>2 DEF IInv, LostIsEmpty, VersionsInStep, InStep, Request
<1>5. EmptyOnlyAsUploaded'
  <2>1. \A x \in DocIds : Current(x)' = Current(x)
    BY <1>1 DEF docs
  <2> QED BY <1>2, <1>6, <2>1 DEF IInv, TypeOK, EmptyOnlyAsUploaded, Request
<1> QED BY <1>1, <1>3, <1>4, <1>5 DEF IInv

(* Sealing the context changes no document.                                *)
LEMMA PersistSealInv == ASSUME IInv, PersistSeal PROVE IInv'
<1>1. TypeOK'
  BY DEF IInv, TypeOK, PersistSeal, enclave, NoRequest, NoSnapshot, Content
<1>2. \A d \in DocIds : Current(d)' = Current(d)
  BY DEF Current, PersistSeal, enclave
<1>3. /\ LostIsEmpty' /\ CacheBounded' /\ VersionsInStep'
      /\ EmptyOnlyAsUploaded'
  BY <1>2 DEF IInv, TypeOK, LostIsEmpty, CacheBounded, VersionsInStep,
              EmptyOnlyAsUploaded, PersistSeal, enclave
<1> QED BY <1>1, <1>3 DEF IInv

(* Flushing the cache keeps the versions in step.                          *)
LEMMA PersistFlushInv == ASSUME IInv, PersistFlush PROVE IInv'
<1>1. /\ Stored /\ docs' = docs /\ DOMAIN doc_CK' = {}
      /\ InStep => InStep'
  BY FlushMoves DEF IInv
<1>2. TypeOK'
  BY <1>1 DEF IInv, TypeOK, PersistFlush, Stored, NoRequest, NoSnapshot, Content
<1>3. CacheBounded'
  BY <1>1, FS_EmptySet, DocSlotsAssumption DEF CacheBounded
<1>4. LostIsEmpty' /\ VersionsInStep'
  BY <1>1 DEF IInv, LostIsEmpty, VersionsInStep, InStep, PersistFlush
<1>5. EmptyOnlyAsUploaded'
  <2>1. \A x \in DocIds : Current(x)' = Current(x)
    BY <1>1 DEF docs
  <2> QED BY <2>1 DEF IInv, TypeOK, EmptyOnlyAsUploaded, PersistFlush
<1> QED BY <1>2, <1>3, <1>4, <1>5 DEF IInv

(* What is left after a crash is on the server.                            *)
LEMMA CrashInv == ASSUME IInv, Crash PROVE IInv'
<1>1. slots' \in [DocIds -> [content : Content, version : Nat]]
  BY CrashMoves DEF IInv
<1>2. doc_CK' \in [DOMAIN doc_CK' -> Content] /\ DOMAIN doc_CK' = {}
  BY DEF Crash, Empty
<1>3. TypeOK'
  BY <1>1, <1>2 DEF IInv, TypeOK, Crash, NoRequest, NoSnapshot, Content
<1>4. CacheBounded'
  BY <1>2, FS_EmptySet, DocSlotsAssumption DEF CacheBounded
<1>5. LostIsEmpty' /\ VersionsInStep' /\ EmptyOnlyAsUploaded'
  BY <1>2 DEF LostIsEmpty, VersionsInStep, EmptyOnlyAsUploaded, Crash
<1> QED BY <1>3, <1>4, <1>5 DEF IInv

(* A loaded context is well typed; its versions may be stale.              *)
LEMMA ResumeInv == ASSUME IInv, Resume PROVE IInv'
<1>1. doc_CK' \in [DOMAIN doc_CK' -> Content] /\ DOMAIN doc_CK' = {}
  BY DEF Resume, Empty
<1>2. /\ snapshot.doc_slot_version \in [DocIds -> Nat]
      /\ snapshot.all_docs \subseteq DocIds
  <2>1. NoSnapshot.taken = FALSE
    BY DEF NoSnapshot
  <2>2. snapshot # NoSnapshot
    BY <2>1, Zenon DEF Resume
  <2>3. snapshot \in [taken : {TRUE}, doc_slot_version : [DocIds -> Nat],
                      all_docs : SUBSET DocIds]
    BY <2>2 DEF IInv, TypeOK
  <2> QED BY <2>3
<1>3. TypeOK'
  BY <1>1, <1>2 DEF IInv, TypeOK, Resume, NoRequest, NoSnapshot, Content
<1>4. CacheBounded'
  BY <1>1, FS_EmptySet, DocSlotsAssumption DEF CacheBounded
<1>5. LostIsEmpty' /\ VersionsInStep' /\ EmptyOnlyAsUploaded'
  BY DEF LostIsEmpty, VersionsInStep, EmptyOnlyAsUploaded, Resume
<1> QED BY <1>3, <1>4, <1>5 DEF IInv

-----------------------------------------------------------------------------
(* The invariant holds in every reachable state.                           *)
THEOREM SlotsInductive == Spec => []IInv
<1>1. ASSUME IInv, [Next]_vars PROVE IInv'
  <2>1. CASE \E d \in DocIds, c \in Content : Updated(d, c)
    BY <1>1, <2>1, UpdatedInv
  <2>2. CASE \E A \in SUBSET DocIds : Retrieve(A)
    BY <1>1, <2>2, RetrieveInv
  <2>3. CASE PersistSeal
    BY <1>1, <2>3, PersistSealInv
  <2>4. CASE PersistFlush
    BY <1>1, <2>4, PersistFlushInv
  <2>5. CASE Crash
    BY <1>1, <2>5, CrashInv
  <2>6. CASE Resume
    BY <1>1, <2>6, ResumeInv
  <2>7. CASE UNCHANGED vars
    BY <1>1, <2>7
    DEF vars, enclave, IInv, TypeOK, LostIsEmpty, CacheBounded, VersionsInStep,
        EmptyOnlyAsUploaded, Current, NoSnapshot, NoRequest
  <2> QED BY <1>1, <2>1, <2>2, <2>3, <2>4, <2>5, <2>6, <2>7, UpdatesUpdate DEF Next, IInv
<1> QED BY InitInv, <1>1, PTL DEF Spec

(* The shapes of the slots' variables, for any documents and contents.     *)
THEOREM SlotsTypeCorrect == Spec => []TypeOK
<1>1. IInv => TypeOK
  BY DEF IInv
<1> QED BY SlotsInductive, <1>1, PTL

(* No more than doc_CK_max documents stay decrypted (run_slot_update       *)
(* stores one for the one it fetches, RetrieveDocs stores the surplus).    *)
THEOREM SlotCacheAlwaysBounded == Spec => []CacheBounded
<1>1. IInv => CacheBounded
  BY DEF IInv
<1> QED BY SlotsInductive, <1>1, PTL

(* Stores, spills and flushes advance both copies of a version together,   *)
(* as long as no sealed context was loaded.                                *)
THEOREM VersionsAlwaysInStep == Spec => []VersionsInStep
<1>1. IInv => VersionsInStep
  BY DEF IInv
<1> QED BY SlotsInductive, <1>1, PTL

(* all_docs names an empty slot only for a document uploaded empty         *)
(* (handle_update), as long as no sealed context was loaded.               *)
THEOREM ListedDocsEmptyOnlyAsUploaded == Spec => []EmptyOnlyAsUploaded
<1>1. IInv => EmptyOnlyAsUploaded
  BY DEF IInv
<1> QED BY SlotsInductive, <1>1, PTL

(* Reads return the last content written and a crash rolls a document back *)
(* to a content it had: every step of the slots is a step of DocStore.     *)
THEOREM SlotsImplementDocStore == Spec => ImplementsDocStore
<1> USE DEF Store!Content
<1>1. Init => Store!Init
  BY DEF Init, Store!Init, Current, Empty, NoRequest, Store!NoRequest
<1>2. ASSUME IInv, [Next]_vars PROVE [Store!Next]_(Store!storeVars)
  <2>1. ASSUME NEW d \in DocIds, NEW c \in Content, Updated(d, c)
        PROVE  Store!Next
    <3>1. Stored /\ docs' = [docs EXCEPT ![d] = c]
      BY <1>2, <2>1, UpdateMoves DEF IInv, Updated
    <3>2. last' = [op |-> "write", docs |-> [x \in {d} |-> c]]
      BY <2>1 DEF Updated, Wrote
    <3>3. Store!Write(d, c)
      BY <3>1, <3>2 DEF Store!Write, Store!Sync, Stored, docs, durable
    <3> QED BY <3>3 DEF Store!Next, Content
  <2>2. ASSUME NEW A \in SUBSET DocIds, Retrieve(A)
        PROVE  Store!Next
    <3>1. Stored /\ docs' = docs /\ last' = Returned([d \in A |-> docs[d]])
      BY <1>2, <2>2, RetrieveMoves DEF IInv
    <3>2. Store!Read(A)
      BY <3>1 DEF Store!Read, Store!Sync, Stored, docs, durable, Returned
    <3> QED BY <3>2 DEF Store!Next
  <2>3. CASE PersistFlush
    <3>1. Stored /\ docs' = docs /\ last' = NoRequest
      BY <1>2, <2>3, FlushMoves DEF IInv, PersistFlush
    <3>2. Store!Flush
      BY <3>1 DEF Store!Flush, Store!Sync, Stored, docs, durable, NoRequest, Store!NoRequest
    <3> QED BY <3>2 DEF Store!Next
  <2>4. ASSUME docs' = docs, durable' = durable, last' = NoRequest
        PROVE  Store!Next
    <3>1. \E S \in SUBSET DocIds :
            durable' = [d \in DocIds |-> IF d \in S THEN docs'[d] ELSE durable[d]]
      <4> WITNESS {} \in SUBSET DocIds
      <4> QED BY <2>4 DEF durable
    <3>2. Store!Sync
      BY <3>1 DEF Store!Sync, docs, durable
    <3>3. Store!Flush
      BY <2>4, <3>2 DEF Store!Flush, docs, NoRequest, Store!NoRequest
    <3> QED BY <3>3 DEF Store!Next
  <2>5. CASE PersistSeal
    <3>1. docs' = docs /\ durable' = durable /\ last' = NoRequest
      BY <2>5 DEF PersistSeal, enclave, docs, durable, Current
    <3> QED BY <2>4, <3>1
  <2>6. CASE Crash
    <3>1. /\ docs' = durable' /\ last' = NoRequest
          /\ \E S \in SUBSET DocIds :
               durable' = [d \in DocIds |-> IF d \in S THEN docs[d] ELSE durable[d]]
      BY <1>2, <2>6, CrashMoves DEF IInv, Crash
    <3>2. Store!Lose
      BY <3>1 DEF Store!Lose, docs, durable, NoRequest, Store!NoRequest
    <3> QED BY <3>2 DEF Store!Next
  <2>7. CASE Resume
    <3>1. docs' = docs /\ durable' = durable /\ last' = NoRequest
      BY <1>2, <2>7 DEF IInv, LostIsEmpty, Resume, docs, durable, Current, Empty
    <3> QED BY <2>4, <3>1
  <2>8. CASE UNCHANGED vars
    BY <2>8 DEF vars, enclave, Store!storeVars, Current
  <2> QED BY <1>2, <2>1, <2>2, <2>3, <2>5, <2>6, <2>7, <2>8, UpdatesUpdate DEF Next, IInv
<1> QED BY SlotsInductive, <1>1, <1>2, PTL DEF Spec, ImplementsDocStore, Store!Spec
=============================================================================
