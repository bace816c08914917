------------------------------- MODULE DocSlots -------------------------------
(***************************************************************************)
(* The documents of one database (CryptoEnclave.cpp: run_slot_update,      *)
(* RetrieveDocs and what they call; the document part of handle_update and *)
(* of persist / load of the context).                                      *)
(*                                                                         *)
(* The server holds one encrypted slot per document number, written in     *)
(* place.  The enclave caches a few decrypted slots in doc_CK.  An update  *)
(* changes the cached slot and then stores one random cached slot, which   *)
(* need not be the one it changed; a retrieval loads what it needs plus    *)
(* padding and then stores random slots until doc_CK_max are left.         *)
(***************************************************************************)
EXTENDS Integers, FiniteSets, Functions

CONSTANTS
  DocIds,        \* 1..total_file_no
  Contents,      \* the bundles a slot can hold, of an index and a body
  Unindexed,     \* the contents with an empty index
  NoDoc,         \* the empty slot: index and body of no byte
  doc_CK_max,    \* capacity of the document cache
  retrieval_threshold,  \* a retrieval is padded to this many documents
  retrieval_limit,      \* a SELECT retrieves at most this many
  MaxVersion     \* bound: version of a slot

ASSUME DocSlotsAssumption ==
  /\ IsFiniteSet(DocIds) /\ \A d \in DocIds : DocIds \ {d} # {}
  /\ NoDoc \notin Contents /\ Unindexed \subseteq Contents
  /\ doc_CK_max \in Nat /\ retrieval_threshold \in Nat
  /\ retrieval_limit \in Nat /\ MaxVersion \in Nat

VARIABLES
  session,           \* "up", "flushing" (context sealed, slots not yet), "down"
  doc_CK,            \* document -> cached content
  doc_slot_version,  \* document -> version of its last store, as far as known
  all_docs,          \* documents that exist
  slots,             \* server: document -> content and version
  snapshot,          \* server: the sealed context
  last,              \* the last request, and the contents it wrote or returned
  resumed,           \* history: a sealed context was loaded
  blank              \* history: documents last uploaded with nothing in them

enclave == <<doc_CK, doc_slot_version, all_docs>>
vars == <<session, enclave, slots, snapshot, last, resumed, blank>>

Content == Contents \cup {NoDoc}
Indexed(c) == c \in Contents \ Unindexed
Empty == [d \in {} |-> NoDoc]

(* What a read of document d finds: the cached or the stored content.      *)
Current(d) == IF d \in DOMAIN doc_CK THEN doc_CK[d] ELSE slots[d].content

NoSnapshot == [taken |-> FALSE]
NoRequest == [op |-> "none"]
Wrote(d, c) == [op |-> "write", docs |-> [x \in {d} |-> c]]
Returned(f) == [op |-> "read", docs |-> f]

(* provision_all_doc_slot_tombstones                                       *)
Init ==
  /\ session = "up"
  /\ doc_CK = Empty /\ last = NoRequest
  /\ doc_slot_version = [d \in DocIds |-> 0]
  /\ all_docs = {}
  /\ slots = [d \in DocIds |-> [content |-> NoDoc, version |-> 0]]
  /\ snapshot = NoSnapshot
  /\ resumed = FALSE /\ blank = {}

-----------------------------------------------------------------------------
(* Mutant: the stored bundle is cached without being parsed.               *)
Fetched_Unparsed(F) ==
  [d \in DOMAIN doc_CK \cup F |->
     IF d \in DOMAIN doc_CK THEN doc_CK[d] ELSE slots[d]]

(* The cache with the documents F fetched into it.                         *)
Fetched(F) == [d \in DOMAIN doc_CK \cup F |-> Current(d)]

(* fetch_doc_slot_from_server takes over a higher version than its own.    *)
Repaired(F) ==
  [d \in DocIds |->
     IF d \in F /\ slots[d].version > doc_slot_version[d]
     THEN slots[d].version ELSE doc_slot_version[d]]

(* persist_cached_slot_to_server for the cached documents S: the server's  *)
(* slots under the next versions, starting from the cache ck and versions  *)
(* ver.                                                                    *)
WriteSlots(ck, ver, S) ==
  /\ \A d \in S : ver[d] < MaxVersion
  /\ slots' = [d \in DocIds |->
                 IF d \in S THEN [content |-> ck[d], version |-> ver[d] + 1]
                 ELSE slots[d]]

(* Mutant: the advanced version is not kept.                               *)
StoreSlots_VersionForgotten(ck, ver, S) ==
  /\ WriteSlots(ck, ver, S)
  /\ doc_slot_version' = ver
  /\ doc_CK' = Restrict(ck, DOMAIN ck \ S)

StoreSlots(ck, ver, S) ==
  /\ WriteSlots(ck, ver, S)
  /\ doc_slot_version' = [d \in DocIds |-> ver[d] + IF d \in S THEN 1 ELSE 0]
  /\ doc_CK' = Restrict(ck, DOMAIN ck \ S)

(* Mutant: the random slot is stored before the change is made.            *)
RunSlotUpdate_StoresFirst(d, c) ==
  \E read \in IF d \in DOMAIN doc_CK THEN DocIds \ {d} ELSE {d} :
    LET F  == {read, d} \ DOMAIN doc_CK
        ck == [Fetched(F) EXCEPT ![d] = c]
    IN  \E pick \in DOMAIN ck :
          /\ WriteSlots(Fetched(F), Repaired(F), {pick})
          /\ doc_slot_version' = [Repaired(F) EXCEPT ![pick] = @ + 1]
          /\ doc_CK' = Restrict(ck, DOMAIN ck \ {pick})

(* run_slot_update: when d is cached a decoy is read instead, so that the  *)
(* server always sees one read and one write.                              *)
RunSlotUpdate(d, c) ==
  \E read \in IF d \in DOMAIN doc_CK THEN DocIds \ {d} ELSE {d} :
    LET F  == {read, d} \ DOMAIN doc_CK
        ck == [Fetched(F) EXCEPT ![d] = c]
    IN  \E pick \in DOMAIN ck : StoreSlots(ck, Repaired(F), {pick})

Request == session = "up" /\ UNCHANGED <<session, snapshot, resumed>>

(* Inserts and replacements accept a file without index and body, which is *)
(* stored as the empty slot.                                               *)
Uploaded(d, c) == IF c = NoDoc THEN blank \cup {d} ELSE blank \ {d}

(* OP_INSERT, also of a number that is taken.                              *)
Insert(d, c) ==
  /\ Request /\ RunSlotUpdate(d, c)
  /\ all_docs' = all_docs \cup {d}
  /\ last' = Wrote(d, c) /\ blank' = Uploaded(d, c)

(* Mutant: the document stays listed.                                      *)
Delete_StaysListed(d) ==
  /\ Request /\ RunSlotUpdate(d, NoDoc)
  /\ UNCHANGED all_docs
  /\ last' = Wrote(d, NoDoc) /\ blank' = blank \ {d}

(* OP_DELETE, also of a document that does not exist.                      *)
Delete(d) ==
  /\ Request /\ RunSlotUpdate(d, NoDoc)
  /\ all_docs' = all_docs \ {d}
  /\ last' = Wrote(d, NoDoc) /\ blank' = blank \ {d}

(* OP_REPLACE: the slot is written first; "not found" is concluded from an *)
(* empty old index afterwards, and then only all_docs stays as it was.     *)
Replace(d, c) ==
  /\ Request /\ RunSlotUpdate(d, c)
  /\ all_docs' = IF Indexed(Current(d)) THEN all_docs \cup {d} ELSE all_docs
  /\ last' = Wrote(d, c) /\ blank' = Uploaded(d, c)

(* build_doc_access_plan (query mode): the documents asked for, padded up  *)
(* to retrieval_threshold with existing documents (with any document when  *)
(* there is none, with nothing when nothing was asked for).                *)
Padding(A) == IF all_docs = {} THEN DocIds ELSE IF A = {} THEN {} ELSE all_docs
AccessPlans(A) ==
  {B \in SUBSET (A \cup Padding(A)) :
     A \subseteq B /\ (B = A \/ Cardinality(B) <= retrieval_threshold)}

(* spill_doc_ck_if_needed: which cached documents go.                      *)
Spills(D) ==
  {S \in SUBSET D : Cardinality(S) = IF Cardinality(D) > doc_CK_max
                                     THEN Cardinality(D) - doc_CK_max ELSE 0}

(* RetrieveDocs.  Loading for a query does not repair doc_slot_version.    *)
Retrieve(A) ==
  /\ Request /\ Cardinality(A) <= retrieval_limit
  /\ \E B \in AccessPlans(A) :
       LET ck == Fetched(B)
       IN  /\ last' = Returned(Restrict(ck, A))
           /\ \E S \in Spills(DOMAIN ck) : StoreSlots(ck, doc_slot_version, S)
  /\ UNCHANGED <<all_docs, blank>>

-----------------------------------------------------------------------------
(* persist_active_context_to_storage: the context is sealed first, then    *)
(* the cached slots are stored, each advancing a version that the sealed   *)
(* context no longer gets to see.                                          *)
PersistSeal ==
  /\ session = "up" /\ session' = "flushing"
  /\ snapshot' = [taken |-> TRUE, doc_slot_version |-> doc_slot_version,
                  all_docs |-> all_docs]
  /\ last' = NoRequest
  /\ UNCHANGED <<enclave, slots, resumed, blank>>

PersistFlush ==
  /\ session = "flushing" /\ session' = "up"
  /\ StoreSlots(doc_CK, doc_slot_version, DOMAIN doc_CK)
  /\ last' = NoRequest
  /\ UNCHANGED <<all_docs, snapshot, resumed, blank>>

(* The enclave's memory is lost, perhaps in the middle of a flush or spill.*)
Crash ==
  /\ session # "down" /\ session' = "down"
  /\ \E S \in SUBSET DOMAIN doc_CK : WriteSlots(doc_CK, doc_slot_version, S)
  /\ doc_CK' = Empty /\ last' = NoRequest
  /\ doc_slot_version' = [d \in DocIds |-> 0]
  /\ all_docs' = {}
  /\ UNCHANGED <<snapshot, resumed, blank>>

(* load_active_context_from_storage                                        *)
Resume ==
  /\ session = "down" /\ session' = "up"
  /\ snapshot.taken
  /\ doc_slot_version' = snapshot.doc_slot_version
  /\ all_docs' = snapshot.all_docs
  /\ doc_CK' = Empty /\ last' = NoRequest
  /\ resumed' = TRUE
  /\ UNCHANGED <<slots, snapshot, blank>>

Next ==
  \/ \E d \in DocIds, c \in Content : Insert(d, c)
  \/ \E d \in DocIds : Delete(d)
  \/ \E d \in DocIds, c \in Content : Replace(d, c)
  \/ \E A \in SUBSET DocIds : Retrieve(A)
  \/ PersistSeal
  \/ PersistFlush
  \/ Crash
  \/ Resume

Spec == Init /\ [][Next]_vars

-----------------------------------------------------------------------------
(* Every variable has the shape of its C++ counterpart.                    *)
TypeOK ==
  /\ session \in {"up", "flushing", "down"}
  /\ doc_CK \in [DOMAIN doc_CK -> Content] /\ DOMAIN doc_CK \subseteq DocIds
  /\ doc_slot_version \in [DocIds -> Nat]
  /\ all_docs \subseteq DocIds
  /\ slots \in [DocIds -> [content : Content, version : Nat]]
  /\ snapshot = NoSnapshot \/
     snapshot \in [taken : {TRUE}, doc_slot_version : [DocIds -> Nat],
                   all_docs : SUBSET DocIds]
  /\ \/ last = NoRequest
     \/ /\ last = [op |-> last.op, docs |-> last.docs]
        /\ last.op \in {"write", "read"} /\ DOMAIN last.docs \subseteq DocIds
        /\ last.docs \in [DOMAIN last.docs -> Content]
  /\ resumed \in BOOLEAN /\ blank \subseteq DocIds

(* Between two requests no more than doc_CK_max documents are decrypted in *)
(* the enclave, although an update may fetch two and a retrieval a hundred.*)
CacheBounded == Cardinality(DOMAIN doc_CK) <= doc_CK_max

(* Documents behave as DocStore promises: every acknowledged write is      *)
(* made, every retrieval returns the last content written, wherever it     *)
(* lies, and a crash rolls a document back to a content it really had.     *)
Store == INSTANCE DocStore WITH
           docs <- [d \in DocIds |-> Current(d)],
           durable <- [d \in DocIds |-> slots[d].content]
ImplementsDocStore == Store!Spec

(* Until a sealed context is loaded, the enclave's version of a slot is    *)
(* the server's: both are advanced together, by updates, spills and        *)
(* flushes alike.                                                          *)
VersionsInStep ==
  ~resumed /\ session # "down" =>
    \A d \in DocIds : doc_slot_version[d] = slots[d].version

(* all_docs, which NOT queries and the padding draw from, names an empty   *)
(* slot only for a document that was uploaded empty (handle_update does    *)
(* not refuse one): no delete, no replacement that took the document for   *)
(* missing and no spill leaves a listed document emptied, until the        *)
(* enclave loses its context.                                              *)
EmptyOnlyAsUploaded ==
  ~resumed /\ session # "down" =>
    \A d \in all_docs : Current(d) = NoDoc => d \in blank

(* "Per-slot ciphertext version (monotonic on each store ...)"             *)
(* (data_type.h:145): no store gives a slot new content under a version it *)
(* already had, or a lower one.                                            *)
VersionMonotonic ==
  [][\A d \in DocIds :
       slots'[d] # slots[d] => slots'[d].version > slots[d].version]_slots
=============================================================================
