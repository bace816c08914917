------------------------------ MODULE DocUpdates ------------------------------
(***************************************************************************)
(* The update handler of the enclave (CryptoEnclave.cpp: handle_update),   *)
(* which keeps three views of a database in step: the slots of the         *)
(* documents (DocSlots), the postings of the keyword index (KeywordIndex)  *)
(* and all_docs, the documents that exist.                                 *)
(*                                                                         *)
(* Of the slots this module keeps what an update reads back, the index of  *)
(* a document: the set of its keywords.  Of the keyword index it keeps the *)
(* postings and whether the cache CK is empty ("cold"): an update that     *)
(* finds it so gives its keyword a fresh bitmap.                           *)
(*                                                                         *)
(* The handler does not always keep the views in step.  phantom, missing   *)
(* and unlisted are history; they name what it is known to get wrong.      *)
(***************************************************************************)
EXTENDS Integers, FiniteSets

CONSTANTS
  Words,
  Docs,
  NoDoc,       \* the slot of a document that does not exist
  MaxUpdates   \* bound: updates of a behaviour

ASSUME DocUpdatesAssumption ==
  /\ IsFiniteSet(Words) /\ IsFiniteSet(Docs)
  /\ \A W \in SUBSET Words : W # NoDoc
  /\ MaxUpdates \in Nat

VARIABLES
  session,   \* "up", "sealing", "down"
  slots,     \* document -> its keywords, as the enclave would read them
  durable,   \* document -> its keywords, as the server has them
  postings,  \* keyword -> the documents the index has for it
  all_docs,  \* the documents that exist
  cold,      \* CK is empty
  snapshot,  \* the sealed context (and the slots and history at the seal)
  named,     \* the postings under the labels the sealed context names
  updates,   \* counts the updates, for the bound
  reset,     \* history: keywords given a fresh bitmap since the seal
  phantom,   \* history: <<keyword, document>> posted and not in the document
  missing,   \* history: <<keyword, document>> in the document and not posted
  unlisted   \* history: documents all_docs is wrong about

documents == <<slots, durable>>
index == <<postings, all_docs, cold>>
seal == <<snapshot, named>>
history == <<reset, phantom, missing, unlisted>>
vars == <<session, documents, index, seal, updates, history>>

Content == {NoDoc} \cup SUBSET Words
Keywords(c) == IF c = NoDoc THEN {} ELSE c
Index(d) == Keywords(slots[d])

NoSnapshot == [taken |-> FALSE]

Init ==
  /\ session = "up"
  /\ slots = [d \in Docs |-> NoDoc] /\ durable = slots
  /\ postings = [w \in Words |-> {}] /\ all_docs = {} /\ cold = TRUE
  /\ snapshot = NoSnapshot /\ named = postings /\ updates = 0
  /\ reset = {} /\ phantom = {} /\ missing = {} /\ unlisted = {}

-----------------------------------------------------------------------------
(* What an UpdateKeywords over the keywords W may do besides its work: the *)
(* keywords it resets, and whether it leaves the cache empty.  Found empty *)
(* the cache stays empty and every keyword is reset; otherwise storing a   *)
(* cached keyword may empty it on the way.                                 *)
Passes(c, W) ==
  IF W = {} THEN {[reset |-> {}, cold |-> c]}
  ELSE IF c THEN {[reset |-> W, cold |-> TRUE]}
  ELSE {p \in [reset : (SUBSET W) \ {W}, cold : BOOLEAN] : p.reset # {} => p.cold}

Flip(bm, d, op) == IF op = "ADD" THEN bm \cup {d} ELSE bm \ {d}

(* Mutant: only the keywords of the update are kept.                       *)
Posted_Partial(post, W, p, d, op) ==
  [w \in W |->
     IF w \in p.reset THEN Flip({}, d, op) ELSE Flip(post[w], d, op)]

(* The postings after an UpdateKeywords of document d that ran as p.       *)
Posted(post, W, p, d, op) ==
  [w \in Words |->
     IF w \in p.reset THEN Flip({}, d, op)
     ELSE IF w \in W THEN Flip(post[w], d, op) ELSE post[w]]

(* The postings of other documents that the keywords R had when reset.     *)
Wiped(R, d) == {x \in R \X (Docs \ {d}) : x[1] \in Index(x[2])}

(* run_slot_update: the slot is changed, one cached slot is stored (for an *)
(* uncached one that changes nothing).                                     *)
WriteSlot(d, c) ==
  /\ slots' = [slots EXCEPT ![d] = c]
  /\ \E e \in Docs : durable' = [durable EXCEPT ![e] = slots'[e]]

(* A keyword that was reset climbs through the versions again: when it is  *)
(* stored, as an update, a swap or a flush may do to any keyword, the      *)
(* label the sealed context names may be the one that is written.          *)
StoreBitmaps(R, posts) ==
  /\ reset' = reset \cup IF snapshot.taken THEN R ELSE {}
  /\ named' \in {f \in [Words -> SUBSET Docs] : \A w \in Words :
                  \/ f[w] = named[w]
                  \/ w \in reset' /\ \E p \in posts : f[w] = p[w]}

Update ==
  /\ session = "up" /\ updates < MaxUpdates /\ updates' = updates + 1
  /\ UNCHANGED <<session, snapshot>>

(* OP_INSERT.  A number that is taken keeps its old postings.              *)
Insert(d, W) ==
  /\ Update /\ WriteSlot(d, W)
  /\ \E p \in Passes(cold, W) :
       /\ postings' = Posted(postings, W, p, d, "ADD")
       /\ cold' = p.cold /\ StoreBitmaps(p.reset, {postings, postings'})
       /\ phantom' = (phantom \cup ((Index(d) \ W) \X {d})) \ (p.reset \X Docs)
       /\ missing' = (missing \ (Words \X {d})) \cup Wiped(p.reset, d)
  /\ all_docs' = all_docs \cup {d} /\ unlisted' = unlisted \ {d}

(* OP_DELETE: the postings to remove are read from the slot.               *)
Delete(d) ==
  /\ Update /\ WriteSlot(d, NoDoc)
  /\ \E p \in Passes(cold, Index(d)) :
       /\ postings' = Posted(postings, Index(d), p, d, "DEL")
       /\ cold' = p.cold /\ StoreBitmaps(p.reset, {postings, postings'})
       /\ phantom' = (phantom \ (Index(d) \X {d})) \ (p.reset \X Docs)
       /\ missing' = (missing \ (Words \X {d})) \cup Wiped(p.reset, d)
  /\ all_docs' = all_docs \ {d} /\ unlisted' = unlisted \ {d}

(* OP_REPLACE of a document without keywords, or without content: the slot *)
(* is written, "not found" is concluded, and nothing else is done.         *)
ReplaceUnindexed(d, W) ==
  /\ Index(d) = {}
  /\ Update /\ WriteSlot(d, W)
  /\ missing' = missing \cup {x \in W \X {d} : d \notin postings[x[1]]}
  /\ unlisted' = unlisted \cup ({d} \ all_docs)
  /\ UNCHANGED <<index, named, reset, phantom>>

(* Mutant: the new keywords are added before the old ones are removed.     *)
Replace_AddsFirst(d, W) ==
  /\ Index(d) # {}
  /\ Update /\ WriteSlot(d, W)
  /\ \E p \in Passes(cold, W) : \E q \in Passes(p.cold, Index(d)) :
       LET added == Posted(postings, W, p, d, "ADD") IN
       /\ postings' = Posted(added, Index(d), q, d, "DEL")
       /\ cold' = q.cold
       /\ StoreBitmaps(p.reset \cup q.reset, {postings, added, postings'})
       /\ phantom' = (phantom \ (Index(d) \X {d})) \ ((p.reset \cup q.reset) \X Docs)
       /\ missing' = (missing \ (Words \X {d})) \cup Wiped(p.reset \cup q.reset, d)
  /\ all_docs' = all_docs \cup {d} /\ unlisted' = unlisted \ {d}

(* OP_REPLACE.                                                             *)
Replace(d, W) ==
  /\ Index(d) # {}
  /\ Update /\ WriteSlot(d, W)
  /\ \E p \in Passes(cold, Index(d)) : \E q \in Passes(p.cold, W) :
       LET removed == Posted(postings, Index(d), p, d, "DEL") IN
       /\ postings' = Posted(removed, W, q, d, "ADD")
       /\ cold' = q.cold
       /\ StoreBitmaps(p.reset \cup q.reset, {postings, removed, postings'})
       /\ phantom' = (phantom \ (Index(d) \X {d})) \ ((p.reset \cup q.reset) \X Docs)
       /\ missing' = (missing \ (Words \X {d})) \cup Wiped(p.reset \cup q.reset, d)
  /\ all_docs' = all_docs \cup {d} /\ unlisted' = unlisted \ {d}

(* A SELECT changes no view, but it may fill the cache of bitmaps, and the *)
(* retrieval of its documents may store any cached slots.                  *)
Select ==
  /\ session = "up"
  /\ \E b \in {cold, FALSE} : cold' = b
  /\ StoreBitmaps({}, {postings})
  /\ \E S \in SUBSET Docs :
       durable' = [d \in Docs |-> IF d \in S THEN slots[d] ELSE durable[d]]
  /\ UNCHANGED <<session, slots, postings, all_docs, snapshot, updates,
                 phantom, missing, unlisted>>

-----------------------------------------------------------------------------
(* persist_active_context_to_storage: CK is emptied, the context sealed,   *)
(* and then the cached slots are stored.                                   *)
PersistSeal ==
  /\ session = "up" /\ session' = "sealing"
  /\ cold' = TRUE /\ reset' = {}
  /\ snapshot' = [taken |-> TRUE, all_docs |-> all_docs, slots |-> slots,
                  phantom |-> phantom, missing |-> missing, unlisted |-> unlisted]
  /\ named' = postings
  /\ UNCHANGED <<documents, postings, all_docs, updates, phantom, missing, unlisted>>

PersistFlush ==
  /\ session = "sealing" /\ session' = "up"
  /\ durable' = slots
  /\ UNCHANGED <<slots, index, seal, updates, history>>

(* The enclave's memory is lost, perhaps in the middle of a flush.         *)
Crash ==
  /\ session # "down" /\ session' = "down"
  /\ \E S \in IF session = "sealing" THEN SUBSET Docs ELSE {{}} :
       durable' = [d \in Docs |-> IF d \in S THEN slots[d] ELSE durable[d]]
  /\ slots' = durable' /\ all_docs' = {} /\ cold' = TRUE
  /\ StoreBitmaps({}, {postings}) /\ postings' = [w \in Words |-> {}]
  /\ phantom' = {} /\ missing' = {} /\ unlisted' = {}
  /\ UNCHANGED <<snapshot, updates>>

(* Documents of the server that are not what they were at the seal.        *)
Changed == {d \in Docs : durable[d] # snapshot.slots[d]}
Gained == {x \in Words \X Docs :
             x[1] \in Index(x[2]) \ Keywords(snapshot.slots[x[2]])}
Lost == {x \in Words \X Docs :
           x[1] \in Keywords(snapshot.slots[x[2]]) \ Index(x[2])}

(* load_active_context_from_storage: the index returns to what the sealed  *)
(* labels hold, the documents stay what the server has.                    *)
Reload ==
  /\ session = "down" /\ session' = "up" /\ snapshot.taken
  /\ postings' = named /\ all_docs' = snapshot.all_docs /\ cold' = FALSE
  /\ phantom' = snapshot.phantom \cup Lost \cup (reset \X Docs)
  /\ missing' = snapshot.missing \cup Gained \cup (reset \X Docs)
  /\ unlisted' = snapshot.unlisted \cup Changed
  /\ UNCHANGED <<documents, seal, updates, reset>>

Next ==
  \/ \E d \in Docs, W \in SUBSET Words : Insert(d, W)
  \/ \E d \in Docs : Delete(d)
  \/ \E d \in Docs, W \in SUBSET Words : ReplaceUnindexed(d, W)
  \/ \E d \in Docs, W \in SUBSET Words : Replace(d, W)
  \/ Select
  \/ PersistSeal
  \/ PersistFlush
  \/ Crash
  \/ Reload

Spec == Init /\ [][Next]_vars

-----------------------------------------------------------------------------
Pairs == Words \X Docs

(* Every variable has the shape of its C++ counterpart.                    *)
TypeOK ==
  /\ session \in {"up", "sealing", "down"}
  /\ slots \in [Docs -> Content] /\ durable \in [Docs -> Content]
  /\ postings \in [Words -> SUBSET Docs] /\ all_docs \subseteq Docs
  /\ named \in [Words -> SUBSET Docs]
  /\ cold \in BOOLEAN /\ updates \in Nat
  /\ reset \subseteq Words /\ phantom \subseteq Pairs /\ missing \subseteq Pairs
  /\ unlisted \subseteq Docs
  /\ \/ snapshot = NoSnapshot
     \/ snapshot \in [taken : {TRUE}, all_docs : SUBSET Docs, slots : [Docs -> Content],
                      phantom : SUBSET Pairs, missing : SUBSET Pairs,
                      unlisted : SUBSET Docs]

(* Slots, postings and all_docs agree: a keyword's postings are the        *)
(* documents that contain it and all_docs the documents that have content, *)
(* but for the pairs and documents left behind by an INSERT of a taken     *)
(* number, a REPLACE of a document without keywords, an update that found  *)
(* the cache empty, or a crash.                                            *)
IndexExact ==
  session # "down" =>
    /\ \A w \in Words, d \in Docs :
         /\ d \in postings[w] /\ w \notin Index(d) => <<w, d>> \in phantom
         /\ w \in Index(d) /\ d \notin postings[w] => <<w, d>> \in missing
    /\ \A d \in Docs \ unlisted : d \in all_docs <=> slots[d] # NoDoc

(* Nothing is known to be wrong about a document.                          *)
Tracked(d) ==
  d \notin unlisted /\ \A w \in Words : <<w, d>> \notin phantom \cup missing
=============================================================================
