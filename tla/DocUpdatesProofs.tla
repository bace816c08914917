--------------------------- MODULE DocUpdatesProofs ---------------------------
(***************************************************************************)
(* DocUpdates for any sets of words and documents.                         *)
(*                                                                         *)
(* IndexExact is about the enclave's views as they stand.  A crash throws  *)
(* them away and Reload rebuilds them from what was sealed, so the         *)
(* invariant says the same of the sealed views too (SealedExact), but for  *)
(* the keywords whose labels have been written again since (reset).        *)
(***************************************************************************)
EXTENDS DocUpdates, Evaluation, WellFoundedInduction, TLAPS

USE DocUpdatesAssumption

-----------------------------------------------------------------------------
Exact(posts, content, ph, mi) ==
  \A w \in Words, d \in Docs :
    /\ d \in posts[w] /\ w \notin Keywords(content[d]) => <<w, d>> \in ph
    /\ w \in Keywords(content[d]) /\ d \notin posts[w] => <<w, d>> \in mi

Listed(listed, content, un) ==
  \A d \in Docs \ un : d \in listed <=> content[d] # NoDoc

SealedExact ==
  snapshot.taken =>
    /\ Listed(snapshot.all_docs, snapshot.slots, snapshot.unlisted)
    /\ Exact(named, snapshot.slots, snapshot.phantom \cup (reset \X Docs),
             snapshot.missing \cup (reset \X Docs))

Inv ==
  /\ TypeOK /\ SealedExact
  /\ session # "down" => Exact(postings, slots, phantom, missing) /\ Listed(all_docs, slots, unlisted)
  /\ session = "down" => slots = durable

LEMMA KeywordsFacts ==
  /\ \A c \in Content : Keywords(c) \subseteq Words
  /\ \A W \in SUBSET Words : Keywords(W) = W /\ W # NoDoc
  /\ Keywords(NoDoc) = {}
BY DEF Content, Keywords

LEMMA IndexWords ==
  ASSUME TypeOK, NEW d \in Docs
  PROVE  Index(d) \in SUBSET Words
BY KeywordsFacts DEF TypeOK, Index

-----------------------------------------------------------------------------
(* An UpdateKeywords resets only keywords it was given.                    *)
LEMMA PassesFacts ==
  ASSUME NEW c \in BOOLEAN, NEW W \in SUBSET Words, NEW p \in Passes(c, W)
  PROVE  p.reset \subseteq W /\ p.cold \in BOOLEAN
<1>1. CASE p = [reset |-> {}, cold |-> c]
  BY <1>1, Zenon
<1>2. CASE p = [reset |-> W, cold |-> TRUE]
  BY <1>2, Zenon
<1>3. CASE p \in [reset : (SUBSET W) \ {W}, cold : BOOLEAN]
  BY <1>3
<1> QED BY <1>1, <1>2, <1>3 DEF Passes

(* What an update of document d does to the postings of d, and to those of *)
(* the others.                                                             *)
PostedAs(q, post, W, R, d, op) ==
  /\ q \in [Words -> SUBSET Docs]
  /\ \A w \in Words, x \in Docs \ {d} : x \in q[w] <=> (x \in post[w] /\ w \notin R)
  /\ \A w \in Words :
       d \in q[w] <=> (w \in W /\ op = "ADD") \/ (w \notin W /\ d \in post[w])

LEMMA PostedFacts ==
  ASSUME NEW post \in [Words -> SUBSET Docs], NEW W \in SUBSET Words,
         NEW p, p.reset \subseteq W, NEW d \in Docs, NEW op \in {"ADD", "DEL"}
  PROVE  PostedAs(Posted(post, W, p, d, op), post, W, p.reset, d, op)
<1>1. \A w \in Words : /\ w \in p.reset => Posted(post, W, p, d, op)[w] = Flip({}, d, op)
                       /\ w \notin p.reset /\ w \in W =>
                            Posted(post, W, p, d, op)[w] = Flip(post[w], d, op)
                       /\ w \notin p.reset /\ w \notin W =>
                            Posted(post, W, p, d, op)[w] = post[w]
  BY DEF Posted
<1>2. \A S \in SUBSET Docs : /\ Flip(S, d, op) \in SUBSET Docs
                             /\ \A x \in Docs \ {d} : x \in Flip(S, d, op) <=> x \in S
                             /\ d \in Flip(S, d, op) <=> op = "ADD"
  BY DEF Flip
<1>3. Posted(post, W, p, d, op) \in [Words -> SUBSET Docs]
  <2>1. \A w \in Words : Posted(post, W, p, d, op)[w] \in SUBSET Docs
    BY <1>1, <1>2
  <2> QED BY <2>1 DEF Posted
<1>4. \A w \in Words, x \in Docs \ {d} :
        x \in Posted(post, W, p, d, op)[w] <=> (x \in post[w] /\ w \notin p.reset)
  BY <1>1, <1>2
<1>5. \A w \in Words :
        d \in Posted(post, W, p, d, op)[w] <=>
          (w \in W /\ op = "ADD") \/ (w \notin W /\ d \in post[w])
  BY <1>1, <1>2
<1> QED BY <1>3, <1>4, <1>5 DEF PostedAs

LEMMA WriteSlotFacts ==
  ASSUME TypeOK, NEW d \in Docs, NEW c \in Content, WriteSlot(d, c)
  PROVE  /\ slots' \in [Docs -> Content] /\ durable' \in [Docs -> Content]
         /\ slots'[d] = c /\ \A x \in Docs \ {d} : slots'[x] = slots[x]
<1>1. slots' = [slots EXCEPT ![d] = c] /\ slots \in [Docs -> Content]
  BY DEF WriteSlot, TypeOK
<1>2. PICK e \in Docs : durable' = [durable EXCEPT ![e] = slots'[e]]
  BY DEF WriteSlot
<1>3. slots' \in [Docs -> Content]
  BY <1>1
<1>4. durable' \in [Docs -> Content]
  BY <1>2, <1>3 DEF TypeOK
<1> QED BY <1>1, <1>3, <1>4

(* Bitmaps that are stored change only labels of keywords that were reset. *)
LEMMA StoreBitmapsSealed ==
  ASSUME Inv, NEW R \in SUBSET Words, NEW posts, StoreBitmaps(R, posts),
         UNCHANGED snapshot
  PROVE  /\ named' \in [Words -> SUBSET Docs] /\ reset' \subseteq Words
         /\ SealedExact'
<1>1. named' \in [Words -> SUBSET Docs]
  BY DEF StoreBitmaps
<1>2. reset' \subseteq Words /\ reset \subseteq reset'
  BY DEF StoreBitmaps, Inv, TypeOK
<1>3. \A w \in Words : named'[w] = named[w] \/ w \in reset'
  BY DEF StoreBitmaps
<1>4. SealedExact'
  <2> SUFFICES ASSUME snapshot.taken
               PROVE  Exact(named', snapshot.slots, snapshot.phantom \cup (reset' \X Docs),
                            snapshot.missing \cup (reset' \X Docs))
    BY DEF Inv, SealedExact
  <2>1. Exact(named, snapshot.slots, snapshot.phantom \cup (reset \X Docs),
              snapshot.missing \cup (reset \X Docs))
    BY DEF Inv, SealedExact
  <2> QED BY <1>2, <1>3, <2>1 DEF Exact
<1> QED BY <1>1, <1>2, <1>4

-----------------------------------------------------------------------------
(* An update of document d that resets the keywords R keeps index and      *)
(* slots in step if it says of d, and of what it wiped, what is wrong.     *)
LEMMA UpdateExact ==
  ASSUME Inv, session = "up", NEW d \in Docs, NEW c \in Content, WriteSlot(d, c),
         NEW R \in SUBSET Words,
         \A w \in Words, x \in Docs \ {d} :
           /\ x \in postings'[w] <=> (x \in postings[w] /\ w \notin R)
           /\ <<w, x>> \in phantom /\ w \notin R => <<w, x>> \in phantom'
           /\ <<w, x>> \in missing => <<w, x>> \in missing'
           /\ w \in R /\ w \in Index(x) => <<w, x>> \in missing',
         \A w \in Words :
           /\ d \in postings'[w] /\ w \notin Keywords(c) => <<w, d>> \in phantom'
           /\ w \in Keywords(c) /\ d \notin postings'[w] => <<w, d>> \in missing'
  PROVE  Exact(postings, slots, phantom, missing)'
<1>1. slots'[d] = c /\ \A x \in Docs \ {d} : slots'[x] = slots[x]
  BY WriteSlotFacts DEF Inv
<1>2. Exact(postings, slots, phantom, missing)
  BY DEF Inv
<1> SUFFICES ASSUME NEW w \in Words, NEW x \in Docs
             PROVE  /\ x \in postings'[w] /\ w \notin Keywords(slots'[x]) => <<w, x>> \in phantom'
                    /\ w \in Keywords(slots'[x]) /\ x \notin postings'[w] => <<w, x>> \in missing'
  BY DEF Exact
<1>3. CASE x = d
  BY <1>1, <1>3
<1>4. CASE x # d
  <2>1. Keywords(slots'[x]) = Index(x)
    BY <1>1, <1>4 DEF Index
  <2>2. /\ x \in postings[w] /\ w \notin Index(x) => <<w, x>> \in phantom
        /\ w \in Index(x) /\ x \notin postings[w] => <<w, x>> \in missing
    BY <1>2 DEF Exact, Index
  <2> QED BY <1>4, <2>1, <2>2
<1> QED BY <1>3, <1>4

LEMMA ListedUpdate ==
  ASSUME Inv, session = "up", NEW d \in Docs, NEW c \in Content, WriteSlot(d, c),
         \/ c # NoDoc /\ all_docs' = all_docs \cup {d}
         \/ c = NoDoc /\ all_docs' = all_docs \ {d},
         unlisted' = unlisted \ {d}
  PROVE  Listed(all_docs, slots, unlisted)'
<1>1. slots'[d] = c /\ \A x \in Docs \ {d} : slots'[x] = slots[x]
  BY WriteSlotFacts DEF Inv
<1> QED BY <1>1 DEF Inv, Listed

(* The history of an update stays within its types.                        *)
LEMMA HistoryType ==
  ASSUME TypeOK, NEW R \in SUBSET Words, NEW d \in Docs
  PROVE  Wiped(R, d) \subseteq Pairs /\ phantom \subseteq Pairs /\ missing \subseteq Pairs
BY DEF TypeOK, Wiped, Pairs

LEMMA InsertInv ==
  ASSUME Inv, NEW d \in Docs, NEW W \in SUBSET Words, Insert(d, W)
  PROVE  Inv'
<1>t. TypeOK /\ session = "up" /\ cold \in BOOLEAN
  BY DEF Insert, Update, Inv, TypeOK
<1>1. W \in Content /\ Keywords(W) = W /\ W # NoDoc /\ WriteSlot(d, W)
  BY KeywordsFacts DEF Insert, Content
<1>2. PICK p \in Passes(cold, W) :
        /\ postings' = Posted(postings, W, p, d, "ADD")
        /\ cold' = p.cold /\ StoreBitmaps(p.reset, {postings, postings'})
        /\ phantom' = (phantom \cup ((Index(d) \ W) \X {d})) \ (p.reset \X Docs)
        /\ missing' = (missing \ (Words \X {d})) \cup Wiped(p.reset, d)
  BY DEF Insert
<1>3. p.reset \subseteq W /\ p.cold \in BOOLEAN /\ Index(d) \in SUBSET Words
  BY <1>t, PassesFacts, IndexWords
<1>4. /\ postings' \in [Words -> SUBSET Docs]
      /\ \A w \in Words, x \in Docs \ {d} :
           x \in postings'[w] <=> (x \in postings[w] /\ w \notin p.reset)
      /\ \A w \in Words : d \in postings'[w] <=> w \in W \/ d \in postings[w]
  <2>1. postings \in [Words -> SUBSET Docs]
    BY <1>t DEF TypeOK
  <2>2. PostedAs(postings', postings, W, p.reset, d, "ADD")
    BY <1>2, <1>3, <2>1, PostedFacts
  <2> QED BY <2>2 DEF PostedAs
<1>5. \A w \in Words, x \in Docs \ {d} :
        /\ <<w, x>> \in phantom /\ w \notin p.reset => <<w, x>> \in phantom'
        /\ <<w, x>> \in missing => <<w, x>> \in missing'
        /\ w \in p.reset /\ w \in Index(x) => <<w, x>> \in missing'
  BY <1>2, <1>3 DEF Wiped
<1>6. \A w \in Words : d \in postings'[w] /\ w \notin W => <<w, d>> \in phantom'
  BY <1>t, <1>2, <1>3, <1>4 DEF Inv, Exact, Index
<1>7. Exact(postings, slots, phantom, missing)'
  BY <1>t, <1>1, <1>3, <1>4, <1>5, <1>6, UpdateExact
<1>8. Listed(all_docs, slots, unlisted)'
  BY <1>t, <1>1, ListedUpdate DEF Insert
<1>9. session' = session /\ snapshot' = snapshot
  BY DEF Insert, Update
<1>10. named' \in [Words -> SUBSET Docs] /\ reset' \subseteq Words /\ SealedExact'
  BY <1>2, <1>3, <1>9, StoreBitmapsSealed
<1>11. slots' \in [Docs -> Content] /\ durable' \in [Docs -> Content]
  BY <1>t, <1>1, WriteSlotFacts
<1>12. phantom' \subseteq Pairs /\ missing' \subseteq Pairs
  BY <1>t, <1>2, <1>3, HistoryType DEF Pairs
<1>13. cold' \in BOOLEAN
  BY <1>2, <1>3, Zenon
<1>14. updates' \in Nat /\ all_docs' \subseteq Docs /\ unlisted' \subseteq Docs
  BY <1>t DEF Insert, Update, TypeOK
<1>15. TypeOK'
  BY <1>t, <1>4, <1>9, <1>10, <1>11, <1>12, <1>13, <1>14 DEF TypeOK
<1> QED BY <1>t, <1>7, <1>8, <1>9, <1>10, <1>15 DEF Inv

LEMMA DeleteInv ==
  ASSUME Inv, NEW d \in Docs, Delete(d)
  PROVE  Inv'
<1>t. TypeOK /\ session = "up" /\ cold \in BOOLEAN
  BY DEF Delete, Update, Inv, TypeOK
<1>1. NoDoc \in Content /\ Keywords(NoDoc) = {} /\ WriteSlot(d, NoDoc)
  BY KeywordsFacts DEF Delete, Content
<1>2. PICK p \in Passes(cold, Index(d)) :
        /\ postings' = Posted(postings, Index(d), p, d, "DEL")
        /\ cold' = p.cold /\ StoreBitmaps(p.reset, {postings, postings'})
        /\ phantom' = (phantom \ (Index(d) \X {d})) \ (p.reset \X Docs)
        /\ missing' = (missing \ (Words \X {d})) \cup Wiped(p.reset, d)
  BY DEF Delete
<1>3. Index(d) \in SUBSET Words /\ p.reset \subseteq Index(d) /\ p.cold \in BOOLEAN
  BY <1>t, PassesFacts, IndexWords
<1>4. /\ postings' \in [Words -> SUBSET Docs]
      /\ \A w \in Words, x \in Docs \ {d} :
           x \in postings'[w] <=> (x \in postings[w] /\ w \notin p.reset)
      /\ \A w \in Words : d \in postings'[w] <=> w \notin Index(d) /\ d \in postings[w]
  <2>1. postings \in [Words -> SUBSET Docs]
    BY <1>t DEF TypeOK
  <2>2. PostedAs(postings', postings, Index(d), p.reset, d, "DEL")
    BY <1>2, <1>3, <2>1, PostedFacts
  <2> QED BY <2>2 DEF PostedAs
<1>5. \A w \in Words, x \in Docs \ {d} :
        /\ <<w, x>> \in phantom /\ w \notin p.reset => <<w, x>> \in phantom'
        /\ <<w, x>> \in missing => <<w, x>> \in missing'
        /\ w \in p.reset /\ w \in Index(x) => <<w, x>> \in missing'
  BY <1>2, <1>3 DEF Wiped
<1>6. \A w \in Words : d \in postings'[w] => <<w, d>> \in phantom'
  BY <1>t, <1>2, <1>3, <1>4 DEF Inv, Exact, Index
<1>7. Exact(postings, slots, phantom, missing)'
  BY <1>t, <1>1, <1>3, <1>4, <1>5, <1>6, UpdateExact
<1>8. Listed(all_docs, slots, unlisted)'
  BY <1>t, <1>1, ListedUpdate DEF Delete
<1>9. session' = session /\ snapshot' = snapshot
  BY DEF Delete, Update
<1>10. named' \in [Words -> SUBSET Docs] /\ reset' \subseteq Words /\ SealedExact'
  BY <1>2, <1>3, <1>9, StoreBitmapsSealed
<1>11. slots' \in [Docs -> Content] /\ durable' \in [Docs -> Content]
  BY <1>t, <1>1, WriteSlotFacts
<1>12. phantom' \subseteq Pairs /\ missing' \subseteq Pairs
  BY <1>t, <1>2, <1>3, HistoryType
<1>13. cold' \in BOOLEAN
  BY <1>2, <1>3, Zenon
<1>14. updates' \in Nat /\ all_docs' \subseteq Docs /\ unlisted' \subseteq Docs
  BY <1>t DEF Delete, Update, TypeOK
<1>15. TypeOK'
  BY <1>t, <1>4, <1>9, <1>10, <1>11, <1>12, <1>13, <1>14 DEF TypeOK
<1> QED BY <1>t, <1>7, <1>8, <1>9, <1>10, <1>15 DEF Inv

(* The old keywords are taken out and the new ones put in.                 *)
LEMMA ReplaceInv ==
  ASSUME Inv, NEW d \in Docs, NEW W \in SUBSET Words, Replace(d, W)
  PROVE  Inv'
<1>t. TypeOK /\ session = "up" /\ cold \in BOOLEAN
  BY DEF Replace, Update, Inv, TypeOK
<1>1. W \in Content /\ Keywords(W) = W /\ W # NoDoc /\ WriteSlot(d, W)
  BY KeywordsFacts DEF Replace, Content
<1>2. PICK p \in Passes(cold, Index(d)) : \E q \in Passes(p.cold, W) :
        LET removed == Posted(postings, Index(d), p, d, "DEL") IN
        /\ postings' = Posted(removed, W, q, d, "ADD")
        /\ cold' = q.cold
        /\ StoreBitmaps(p.reset \cup q.reset, {postings, removed, postings'})
        /\ phantom' = (phantom \ (Index(d) \X {d})) \ ((p.reset \cup q.reset) \X Docs)
        /\ missing' = (missing \ (Words \X {d})) \cup Wiped(p.reset \cup q.reset, d)
  BY DEF Replace
<1>r. PICK removed : removed = Posted(postings, Index(d), p, d, "DEL")
  OBVIOUS
<1>3. PICK q \in Passes(p.cold, W) :
        /\ postings' = Posted(removed, W, q, d, "ADD")
        /\ cold' = q.cold
        /\ StoreBitmaps(p.reset \cup q.reset, {postings, removed, postings'})
        /\ phantom' = (phantom \ (Index(d) \X {d})) \ ((p.reset \cup q.reset) \X Docs)
        /\ missing' = (missing \ (Words \X {d})) \cup Wiped(p.reset \cup q.reset, d)
  BY <1>2, <1>r
<1>4. Index(d) \in SUBSET Words /\ p.reset \subseteq Index(d) /\ p.cold \in BOOLEAN
  BY <1>t, PassesFacts, IndexWords
<1>5. q.reset \subseteq W /\ q.cold \in BOOLEAN
  BY <1>4, PassesFacts
<1>6. PICK R \in SUBSET Words : R = p.reset \cup q.reset
  BY <1>4, <1>5
<1>7. /\ postings' \in [Words -> SUBSET Docs]
      /\ \A w \in Words, x \in Docs \ {d} :
           x \in postings'[w] <=> (x \in postings[w] /\ w \notin R)
      /\ \A w \in Words :
           d \in postings'[w] <=> w \in W \/ (w \notin Index(d) /\ d \in postings[w])
  <2>1. postings \in [Words -> SUBSET Docs]
    BY <1>t DEF TypeOK
  <2>2. PostedAs(removed, postings, Index(d), p.reset, d, "DEL")
    BY <1>r, <1>4, <2>1, PostedFacts
  <2>3. removed \in [Words -> SUBSET Docs]
    BY <2>2 DEF PostedAs
  <2>4. PostedAs(postings', removed, W, q.reset, d, "ADD")
    BY <1>3, <1>5, <2>3, PostedFacts
  <2> QED BY <1>6, <2>2, <2>4 DEF PostedAs
<1>8. /\ phantom' = (phantom \ (Index(d) \X {d})) \ (R \X Docs)
      /\ missing' = (missing \ (Words \X {d})) \cup Wiped(R, d)
  BY <1>3, <1>6
<1>9. \A w \in Words, x \in Docs \ {d} :
        /\ <<w, x>> \in phantom /\ w \notin R => <<w, x>> \in phantom'
        /\ <<w, x>> \in missing => <<w, x>> \in missing'
        /\ w \in R /\ w \in Index(x) => <<w, x>> \in missing'
  BY <1>8 DEF Wiped
<1>10. \A w \in Words : d \in postings'[w] /\ w \notin W => <<w, d>> \in phantom'
  BY <1>t, <1>4, <1>5, <1>6, <1>7, <1>8 DEF Inv, Exact, Index
<1>11. Exact(postings, slots, phantom, missing)'
  BY <1>t, <1>1, <1>7, <1>9, <1>10, UpdateExact
<1>12. Listed(all_docs, slots, unlisted)'
  BY <1>t, <1>1, ListedUpdate DEF Replace
<1>13. session' = session /\ snapshot' = snapshot
  BY DEF Replace, Update
<1>14. named' \in [Words -> SUBSET Docs] /\ reset' \subseteq Words /\ SealedExact'
  BY <1>3, <1>6, <1>13, StoreBitmapsSealed
<1>15. slots' \in [Docs -> Content] /\ durable' \in [Docs -> Content]
  BY <1>t, <1>1, WriteSlotFacts
<1>16. phantom' \subseteq Pairs /\ missing' \subseteq Pairs
  BY <1>t, <1>8, HistoryType
<1>17. cold' \in BOOLEAN
  BY <1>3, <1>5, Zenon
<1>18. updates' \in Nat /\ all_docs' \subseteq Docs /\ unlisted' \subseteq Docs
  BY <1>t DEF Replace, Update, TypeOK
<1>19. TypeOK'
  BY <1>t, <1>7, <1>13, <1>14, <1>15, <1>16, <1>17, <1>18 DEF TypeOK
<1> QED BY <1>t, <1>11, <1>12, <1>13, <1>14, <1>19 DEF Inv

(* The slot is written and the index left as it was.                       *)
LEMMA ReplaceUnindexedInv ==
  ASSUME Inv, NEW d \in Docs, NEW W \in SUBSET Words, ReplaceUnindexed(d, W)
  PROVE  Inv'
<1>t. TypeOK /\ session = "up"
  BY DEF ReplaceUnindexed, Update, Inv
<1>1. W \in Content /\ Keywords(W) = W /\ W # NoDoc /\ WriteSlot(d, W)
  BY KeywordsFacts DEF ReplaceUnindexed, Content
<1>2. /\ Index(d) = {}
      /\ missing' = missing \cup {x \in W \X {d} : d \notin postings[x[1]]}
      /\ unlisted' = unlisted \cup ({d} \ all_docs)
      /\ UNCHANGED <<postings, all_docs, cold, named, reset, phantom, session, snapshot>>
  BY DEF ReplaceUnindexed, index, Update
<1>3. slots'[d] = W /\ \A x \in Docs \ {d} : slots'[x] = slots[x]
  BY <1>t, <1>1, WriteSlotFacts
<1>4. \A w \in Words : w \in W /\ d \notin postings[w] => <<w, d>> \in missing'
  BY <1>2
<1>5. \A w \in Words : d \in postings[w] => <<w, d>> \in phantom
  BY <1>t, <1>2 DEF Inv, Exact, Index
<1>6. Exact(postings, slots, phantom, missing)'
  BY <1>t, <1>1, <1>2, <1>4, <1>5, UpdateExact
<1>7. Listed(all_docs, slots, unlisted)'
  BY <1>t, <1>1, <1>2, <1>3 DEF Inv, Listed
<1>8. SealedExact'
  BY <1>2 DEF Inv, SealedExact, Exact, Listed
<1>9. slots' \in [Docs -> Content] /\ durable' \in [Docs -> Content]
  BY <1>t, <1>1, WriteSlotFacts
<1>10. missing' \subseteq Pairs
  BY <1>t, <1>2 DEF TypeOK, Pairs
<1>11. updates' \in Nat
  BY <1>t DEF ReplaceUnindexed, Update, TypeOK
<1>12. TypeOK'
  BY <1>t, <1>2, <1>9, <1>10, <1>11 DEF TypeOK
<1> QED BY <1>t, <1>2, <1>6, <1>7, <1>8, <1>12 DEF Inv

LEMMA SelectInv ==
  ASSUME Inv, Select
  PROVE  Inv'
<1>t. TypeOK
  BY DEF Inv
<1>1. /\ session = "up" /\ StoreBitmaps({}, {postings})
      /\ UNCHANGED <<session, slots, postings, all_docs, snapshot, updates,
                     phantom, missing, unlisted>>
  BY DEF Select
<1>2. named' \in [Words -> SUBSET Docs] /\ reset' \subseteq Words /\ SealedExact'
  BY <1>1, StoreBitmapsSealed
<1>3. durable' \in [Docs -> Content]
  BY <1>t DEF Select, TypeOK
<1>4. cold' \in BOOLEAN
  BY <1>t, Zenon DEF Select, TypeOK
<1>5. TypeOK'
  BY <1>t, <1>1, <1>2, <1>3, <1>4 DEF TypeOK
<1> QED BY <1>1, <1>2, <1>5 DEF Inv, Exact, Listed

(* What is sealed is what the enclave has.                                 *)
LEMMA PersistSealInv ==
  ASSUME Inv, PersistSeal
  PROVE  Inv'
<1>t. TypeOK
  BY DEF Inv
<1>1. /\ session = "up" /\ session' = "sealing" /\ cold' = TRUE /\ reset' = {}
      /\ named' = postings
      /\ UNCHANGED <<slots, durable, postings, all_docs, updates, phantom, missing, unlisted>>
  BY DEF PersistSeal, documents
<1>2. /\ snapshot'.taken = TRUE /\ snapshot'.all_docs = all_docs /\ snapshot'.slots = slots
      /\ snapshot'.phantom = phantom /\ snapshot'.missing = missing
      /\ snapshot'.unlisted = unlisted
  BY DEF PersistSeal
<1>3. snapshot' \in [taken : {TRUE}, all_docs : SUBSET Docs, slots : [Docs -> Content],
                     phantom : SUBSET Pairs, missing : SUBSET Pairs, unlisted : SUBSET Docs]
  BY <1>t DEF PersistSeal, TypeOK
<1>4. Exact(postings, slots, phantom, missing) /\ Listed(all_docs, slots, unlisted)
  BY <1>1 DEF Inv
<1>5. SealedExact'
  BY <1>1, <1>2, <1>4 DEF SealedExact, Exact, Listed
<1>6. TypeOK'
  BY <1>t, <1>1, <1>3 DEF TypeOK
<1>7. Exact(postings, slots, phantom, missing)' /\ Listed(all_docs, slots, unlisted)'
  BY <1>1, <1>4 DEF Exact, Listed
<1> QED BY <1>1, <1>5, <1>6, <1>7 DEF Inv

LEMMA PersistFlushInv ==
  ASSUME Inv, PersistFlush
  PROVE  Inv'
BY DEF Inv, PersistFlush, index, seal, history, TypeOK, SealedExact, Exact, Listed

LEMMA CrashInv ==
  ASSUME Inv, Crash
  PROVE  Inv'
<1>t. TypeOK
  BY DEF Inv
<1>1. /\ session' = "down" /\ slots' = durable' /\ all_docs' = {} /\ cold' = TRUE
      /\ StoreBitmaps({}, {postings}) /\ postings' = [w \in Words |-> {}]
      /\ phantom' = {} /\ missing' = {} /\ unlisted' = {}
      /\ UNCHANGED <<snapshot, updates>>
  BY DEF Crash
<1>2. named' \in [Words -> SUBSET Docs] /\ reset' \subseteq Words /\ SealedExact'
  BY <1>1, StoreBitmapsSealed
<1>3. PICK S : durable' = [d \in Docs |-> IF d \in S THEN slots[d] ELSE durable[d]]
  BY DEF Crash
<1>4. durable' \in [Docs -> Content]
  BY <1>t, <1>3 DEF TypeOK
<1>5. TypeOK'
  BY <1>t, <1>1, <1>2, <1>4 DEF TypeOK
<1> QED BY <1>1, <1>2, <1>5 DEF Inv

(* The sealed index against the documents of the server: what differs is   *)
(* what has changed since.                                                 *)
LEMMA ReloadInv ==
  ASSUME Inv, Reload
  PROVE  Inv'
<1>t. TypeOK
  BY DEF Inv
<1>1. /\ session = "down" /\ session' = "up" /\ snapshot.taken
      /\ postings' = named /\ all_docs' = snapshot.all_docs /\ cold' = FALSE
      /\ phantom' = snapshot.phantom \cup Lost \cup (reset \X Docs)
      /\ missing' = snapshot.missing \cup Gained \cup (reset \X Docs)
      /\ unlisted' = snapshot.unlisted \cup Changed
      /\ UNCHANGED <<slots, durable, snapshot, named, updates, reset>>
      /\ slots = durable
  BY DEF Reload, documents, seal, Inv
<1>2. snapshot \in [taken : {TRUE}, all_docs : SUBSET Docs, slots : [Docs -> Content],
                    phantom : SUBSET Pairs, missing : SUBSET Pairs, unlisted : SUBSET Docs]
  <2>1. ~NoSnapshot.taken
    BY Zenon DEF NoSnapshot
  <2> QED BY <1>t, <1>1, <2>1 DEF TypeOK
<1>3. /\ Listed(snapshot.all_docs, snapshot.slots, snapshot.unlisted)
      /\ Exact(named, snapshot.slots, snapshot.phantom \cup (reset \X Docs),
               snapshot.missing \cup (reset \X Docs))
  BY <1>1 DEF Inv, SealedExact
<1>4. Listed(snapshot.all_docs, slots, snapshot.unlisted \cup Changed)
  BY <1>1, <1>3 DEF Listed, Changed
<1>5. ASSUME NEW w \in Words, NEW d \in Docs
      PROVE  /\ d \in named[w] /\ w \notin Index(d) =>
                  <<w, d>> \in snapshot.phantom \cup Lost \cup (reset \X Docs)
             /\ w \in Index(d) /\ d \notin named[w] =>
                  <<w, d>> \in snapshot.missing \cup Gained \cup (reset \X Docs)
  <2> DEFINE K == Keywords(snapshot.slots[d])
  <2>1. /\ w \in K /\ w \notin Index(d) => <<w, d>> \in Lost
        /\ w \in Index(d) /\ w \notin K => <<w, d>> \in Gained
    BY DEF Lost, Gained
  <2>2. /\ d \in named[w] /\ w \notin K => <<w, d>> \in snapshot.phantom \cup (reset \X Docs)
        /\ w \in K /\ d \notin named[w] => <<w, d>> \in snapshot.missing \cup (reset \X Docs)
    BY <1>3 DEF Exact
  <2> HIDE DEF K
  <2> QED BY <2>1, <2>2
<1>6. Exact(postings, slots, phantom, missing)'
  BY <1>1, <1>5 DEF Exact, Index
<1>7. Listed(all_docs, slots, unlisted)'
  BY <1>1, <1>4 DEF Listed
<1>8. SealedExact'
  BY <1>1, <1>3 DEF SealedExact, Exact, Listed
<1>9. phantom' \subseteq Pairs /\ missing' \subseteq Pairs /\ unlisted' \subseteq Docs
  BY <1>t, <1>1, <1>2 DEF TypeOK, Pairs, Lost, Gained, Changed
<1>10. TypeOK'
  BY <1>t, <1>1, <1>2, <1>9 DEF TypeOK
<1> QED BY <1>1, <1>6, <1>7, <1>8, <1>10 DEF Inv

THEOREM InitInv == Init => Inv
<1> SUFFICES ASSUME Init PROVE Inv
  OBVIOUS
<1>1. NoDoc \in Content
  BY DEF Content
<1>2. ~NoSnapshot.taken
  BY Zenon DEF NoSnapshot
<1>3. Exact(postings, slots, phantom, missing) /\ Listed(all_docs, slots, unlisted)
  BY KeywordsFacts DEF Init, Exact, Listed
<1>4. TypeOK
  <2>1. cold \in BOOLEAN
    BY Zenon DEF Init
  <2> QED BY <1>1, <2>1 DEF Init, TypeOK
<1>5. session = "up" /\ SealedExact
  BY <1>2 DEF Init, SealedExact
<1> QED BY <1>3, <1>4, <1>5 DEF Inv

THEOREM AlwaysInv == Spec => []Inv
<1>1. Inv /\ [Next]_vars => Inv'
  <2> SUFFICES ASSUME Inv, [Next]_vars PROVE Inv'
    OBVIOUS
  <2>1. CASE UNCHANGED vars
    BY <2>1 DEF vars, documents, index, seal, history, Inv, TypeOK, SealedExact, Exact, Listed
  <2> QED BY <2>1, InsertInv, DeleteInv, ReplaceInv, ReplaceUnindexedInv, SelectInv,
             PersistSealInv, PersistFlushInv, CrashInv, ReloadInv DEF Next
<1> QED BY <1>1, InitInv, PTL DEF Spec

(* Every variable keeps its type.                                          *)
THEOREM UpdatesTypeCorrect == Spec => []TypeOK
<1>1. Inv => TypeOK
  BY DEF Inv
<1> QED BY <1>1, AlwaysInv, PTL

(* Slots, postings and all_docs agree, but for what the history variables  *)
(* name: for any number of keywords and documents, whatever is updated,    *)
(* sealed, lost and reloaded.                                              *)
THEOREM IndexAlwaysExact == Spec => []IndexExact
<1>1. Inv => IndexExact
  BY DEF Inv, Exact, Listed, IndexExact, Index
<1> QED BY <1>1, AlwaysInv, PTL

-----------------------------------------------------------------------------
(* Where the updates of this module come from.  handle_update has the      *)
(* keyword index run an update for each keyword of a batch; this module    *)
(* makes one step of them, with Passes and Posted for what may come of it. *)
(* PostingStore is what the keyword index does, update by update (see      *)
(* KeywordIndexProofs), and no batch of its updates does anything else.    *)
Store == INSTANCE PostingStore WITH
  LongWords <- {}, open <- session = "up", index <- postings,
  openable <- snapshot.taken, sealed <- named, rewound <- reset

(* What is so when, from the postings post, the cache c, the sealed labels *)
(* na and the resets rs on, the keywords W were updated for document d.    *)
Ran(post, c, na, rs, W, d, op) ==
  \E p \in Passes(c, W) :
    /\ postings = Posted(post, W, p, d, op) /\ cold = p.cold
    /\ reset \subseteq rs \cup p.reset
    /\ \A w \in Words : \/ named[w] = na[w]
                        \/ /\ snapshot.taken /\ w \in rs \cup p.reset
                           /\ named[w] \in {post[w], postings[w]}

(* One more keyword, found by the cache as the others left it.             *)
LEMMA PassesJoin ==
  ASSUME NEW c \in BOOLEAN, NEW W \in SUBSET Words, NEW p \in Passes(c, W),
         NEW w \in Words \ W, NEW k \in BOOLEAN, p.cold => k
  PROVE  [reset |-> p.reset \cup (IF p.cold THEN {w} ELSE {}), cold |-> k]
           \in Passes(c, W \cup {w})
<1> DEFINE R == p.reset \cup (IF p.cold THEN {w} ELSE {})
<1>1. W \cup {w} # {} /\ w \notin W
  OBVIOUS
<1>2. CASE c
  <2>1. W = {} => p = [reset |-> {}, cold |-> TRUE]
    BY <1>2, Zenon DEF Passes
  <2>2. W # {} => p = [reset |-> W, cold |-> TRUE]
    BY <1>2, Zenon DEF Passes
  <2>3. p.cold /\ p.reset = W
    BY <2>1, <2>2
  <2>4. k = TRUE /\ R = W \cup {w}
    BY <2>3
  <2> QED BY <1>1, <1>2, <2>4 DEF Passes
<1>3. CASE ~c
  <2>1. CASE W = {}
    <3>1. p = [reset |-> {}, cold |-> c]
      BY <2>1, Zenon DEF Passes
    <3>2. ~p.cold /\ p.reset = {}
      BY <3>1, <1>3
    <3>3. R = {}
      BY <3>2
    <3> QED BY <1>1, <1>3, <3>3 DEF Passes
  <2>2. CASE W # {}
    <3>1. p.reset \in (SUBSET W) \ {W} /\ p.cold \in BOOLEAN /\ (p.reset # {} => p.cold)
      BY <2>2, <1>3 DEF Passes
    <3>2. R \in (SUBSET (W \cup {w})) \ {W \cup {w}}
      <4>1. R \subseteq W \cup {w}
        BY <3>1
      <4>2. ~p.cold => w \notin R
        BY <3>1, <1>1
      <4>3. p.cold => \E v \in W : v \notin R
        BY <3>1, <1>1
      <4> QED BY <4>1, <4>2, <4>3
    <3>3. R # {} => k
      BY <3>1
    <3>4. [reset |-> R, cold |-> k] \in [reset : (SUBSET (W \cup {w})) \ {W \cup {w}}, cold : BOOLEAN]
      BY <3>2
    <3> HIDE DEF R
    <3> QED BY <1>1, <1>3, <3>3, <3>4 DEF Passes
  <2> QED BY <2>1, <2>2
<1> QED BY <1>2, <1>3

(* Before the first keyword nothing has been done.                         *)
LEMMA NothingRan ==
  ASSUME TypeOK, NEW d, NEW op
  PROVE  Ran(postings, cold, named, reset, {}, d, op)
<1> DEFINE p == [reset |-> {}, cold |-> cold]
<1>1. p \in Passes(cold, {})
  BY DEF Passes
<1>2. postings = [w \in Words |-> postings[w]]
  BY DEF TypeOK
<1>3. Posted(postings, {}, p, d, op) = postings
  BY <1>2 DEF Posted
<1> QED BY <1>1, <1>3 DEF Ran

(* A batch of updates (UpdateKeywords), run one by one, comes to what this *)
(* module takes it for: a keyword is flipped or, where the cache was empty *)
(* by then, started anew, and only the sealed copies of such keywords are  *)
(* touched.                                                                *)
THEOREM UpdatesAsInStore ==
  ASSUME NEW post \in [Words -> SUBSET Docs], NEW c \in BOOLEAN, NEW na, NEW rs,
         NEW d \in Docs, NEW op \in {"ADD", "DEL"},
         NEW W \in SUBSET Words, NEW w \in Words \ W,
         TypeOK, TypeOK', Ran(post, c, na, rs, W, d, op), Store!Update(w, d, op)
  PROVE  Ran(post, c, na, rs, W \cup {w}, d, op)'
<1>1. PICK p \in Passes(c, W) :
        /\ postings = Posted(post, W, p, d, op) /\ cold = p.cold
        /\ reset \subseteq rs \cup p.reset
        /\ \A v \in Words : \/ named[v] = na[v]
                            \/ /\ snapshot.taken /\ v \in rs \cup p.reset
                               /\ named[v] \in {post[v], postings[v]}
  BY DEF Ran
<1>2. p.reset \subseteq W /\ cold' \in BOOLEAN /\ snapshot'.taken = snapshot.taken
  BY PassesFacts DEF TypeOK, Store!Update
<1>3. /\ cold => cold'
      /\ reset' \subseteq reset \cup (IF cold THEN {w} ELSE {})
      /\ postings' = [postings EXCEPT ![w] = Flip(IF cold THEN {} ELSE @, d, op)]
  BY DEF Store!Update, Store!Flip, Flip
<1>4. \A v \in Words : \/ named'[v] = named[v]
                       \/ snapshot.taken /\ v \in reset' /\ named'[v] = postings'[v]
  BY DEF Store!Update, Store!Copies
<1> DEFINE q == [reset |-> p.reset \cup (IF p.cold THEN {w} ELSE {}), cold |-> cold']
<1>5. q \in Passes(c, W \cup {w})
  BY <1>1, <1>2, <1>3, PassesJoin
<1>6. /\ q.reset \subseteq W \cup {w} /\ (w \in q.reset <=> cold)
      /\ q.reset \ {w} = p.reset
      /\ q.cold = cold'
  BY <1>1, <1>2
<1> HIDE DEF q
<1>7. postings' = Posted(post, W \cup {w}, q, d, op)
  <2>1. DOMAIN postings' = Words /\ postings' = [v \in Words |-> postings'[v]]
    BY DEF TypeOK
  <2>2. \A v \in Words : postings'[v] = Posted(post, W \cup {w}, q, d, op)[v]
    <3> TAKE v \in Words
    <3>1. CASE v = w
      <4>1. postings'[w] = Flip(IF cold THEN {} ELSE post[w], d, op)
        BY <1>1, <1>2, <1>3 DEF TypeOK, Posted
      <4> QED BY <3>1, <4>1, <1>6 DEF Posted
    <3>2. CASE v # w
      <4>1. postings'[v] = Posted(post, W, p, d, op)[v]
        BY <1>1, <1>3, <3>2 DEF TypeOK
      <4>2. (v \in q.reset <=> v \in p.reset) /\ (v \in W \cup {w} <=> v \in W)
        BY <1>6, <3>2
      <4> QED BY <4>1, <4>2 DEF Posted
    <3> QED BY <3>1, <3>2
  <2> QED BY <2>1, <2>2 DEF Posted
<1>8. reset' \subseteq rs \cup q.reset
  BY <1>1, <1>3, <1>6
<1>9. \A v \in Words : \/ named'[v] = na[v]
                       \/ /\ snapshot'.taken /\ v \in rs \cup q.reset
                          /\ named'[v] \in {post[v], postings'[v]}
  <2> TAKE v \in Words
  <2>1. CASE named'[v] # named[v]
    BY <2>1, <1>4, <1>8, <1>2
  <2>2. CASE named'[v] = named[v] /\ named[v] # na[v]
    <3>1. snapshot.taken /\ v \in rs \cup q.reset /\ named[v] \in {post[v], postings[v]}
      BY <1>1, <1>6, <2>2
    <3>2. v # w => postings'[v] = postings[v]
      BY <1>3 DEF TypeOK
    <3>3. v = w => postings[v] = post[v]
      BY <1>1, <1>2 DEF Posted
    <3> QED BY <3>1, <3>2, <3>3, <2>2, <1>2
  <2> QED BY <2>1, <2>2
<1> QED BY <1>5, <1>6, <1>7, <1>8, <1>9 DEF Ran

-----------------------------------------------------------------------------
LEMMA Least ==
  ASSUME NEW S, S \subseteq Nat, S # {}
  PROVE  \E n \in S : \A m \in S : n <= m
<1> DEFINE R == {ss \in Nat \X Nat : ss[1] < ss[2]}
<1>1. IsWellFoundedOn(R, Nat)
  BY NatLessThanWellFounded DEF OpToRel
<1> HIDE DEF R
<1>2. PICK n \in S : \A m \in S : ~(<<m, n>> \in R)
  BY <1>1, WFMin
<1>3. \A m \in S : ~(m < n)
  BY <1>2 DEF R
<1> QED BY <1>3

(* States of the machine, and a run of k turns from one to another.        *)
States == [pos : Nat, stk : Seq(SUBSET Docs)]
At(n, stk) == [pos |-> n, stk |-> stk]
Push(v, stk) == <<v>> \o stk

Turn(req, P, A, m1, m2) == m2 = Step(req, m1, P, A)

Turns(req, P, A, f, k) ==
  f \in [0..k -> States] /\ \A i \in 1..k : f[i] = Step(req, f[i - 1], P, A)

Runs(req, P, A, m1, k, m2) ==
  k \in Nat /\ \E f : Turns(req, P, A, f, k) /\ f[0] = m1 /\ f[k] = m2

LEMMA RunOne ==
  ASSUME NEW req, NEW P, NEW A, NEW m1 \in States, NEW m2 \in States,
         Turn(req, P, A, m1, m2)
  PROVE  Runs(req, P, A, m1, 1, m2)
<1> DEFINE f == [i \in 0..1 |-> IF i = 0 THEN m1 ELSE m2]
<1>1. f \in [0..1 -> States] /\ f[0] = m1 /\ f[1] = m2
  OBVIOUS
<1> HIDE DEF f
<1>2. \A i \in 1..1 : i = 1 /\ i - 1 = 0
  OBVIOUS
<1>3. \A i \in 1..1 : f[i] = Step(req, f[i - 1], P, A)
  BY <1>1, <1>2, Zenon DEF Turn
<1> QED BY <1>1, <1>3 DEF Runs, Turns

LEMMA RunOn ==
  ASSUME NEW req, NEW P, NEW A, NEW m1, NEW m2, NEW m3, NEW k, NEW l,
         Runs(req, P, A, m1, k, m2), Runs(req, P, A, m2, l, m3)
  PROVE  Runs(req, P, A, m1, k + l, m3)
<1>0. k \in Nat /\ l \in Nat
  BY DEF Runs
<1>1. PICK f : Turns(req, P, A, f, k) /\ f[0] = m1 /\ f[k] = m2
  BY DEF Runs
<1>2. PICK g : Turns(req, P, A, g, l) /\ g[0] = m2 /\ g[l] = m3
  BY DEF Runs
<1> DEFINE h == [i \in 0..(k + l) |-> IF i <= k THEN f[i] ELSE g[i - k]]
<1>3. h \in [0..(k + l) -> States]
  <2> SUFFICES ASSUME NEW i \in 0..(k + l) PROVE (IF i <= k THEN f[i] ELSE g[i - k]) \in States
    OBVIOUS
  <2>1. CASE i <= k
    <3>1. i \in 0..k
      BY <1>0, <2>1
    <3> QED BY <1>1, <2>1, <3>1 DEF Turns
  <2>2. CASE ~(i <= k)
    <3>1. i - k \in 0..l
      BY <1>0, <2>2
    <3> QED BY <1>2, <2>2, <3>1 DEF Turns
  <2> QED BY <2>1, <2>2
<1>4. \A i \in 0..(k + l) : (i <= k => h[i] = f[i]) /\ (i >= k => h[i] = g[i - k])
  <2> TAKE i \in 0..(k + l)
  <2>1. i <= k => h[i] = f[i]
    OBVIOUS
  <2>2. CASE i = k
    <3>1. i - k = 0 /\ h[i] = f[k]
      BY <1>0, <2>1, <2>2
    <3> QED BY <1>1, <1>2, <2>1, <3>1
  <2>3. i > k => h[i] = g[i - k]
    BY <1>0
  <2> HIDE DEF h
  <2> QED BY <1>0, <2>1, <2>2, <2>3
<1> HIDE DEF h
<1>5. \A i \in 1..(k + l) : h[i] = Step(req, h[i - 1], P, A)
  <2> TAKE i \in 1..(k + l)
  <2>0. i \in 0..(k + l) /\ i - 1 \in 0..(k + l)
    BY <1>0
  <2>1. CASE i <= k
    <3>1. i \in 1..k /\ i - 1 <= k
      BY <1>0, <2>1
    <3>2. h[i] = f[i] /\ h[i - 1] = f[i - 1]
      BY <1>4, <2>0, <2>1, <3>1
    <3> QED BY <1>1, <3>1, <3>2, Zenon DEF Turns
  <2>2. CASE ~(i <= k)
    <3>1. i - k \in 1..l /\ i >= k /\ i - 1 >= k /\ (i - 1) - k = (i - k) - 1
      BY <1>0, <2>2
    <3>2. h[i] = g[i - k] /\ h[i - 1] = g[(i - k) - 1]
      BY <1>4, <2>0, <3>1
    <3>3. PICK j \in 1..l : j = i - k
      BY <3>1
    <3>4. g[j] = Step(req, g[j - 1], P, A)
      BY <1>2 DEF Turns
    <3> QED BY <3>2, <3>3, <3>4, Zenon
  <2> QED BY <2>1, <2>2
<1>6. h[0] = m1 /\ h[k + l] = m3
  <2>1. 0 \in 0..(k + l) /\ k + l \in 0..(k + l) /\ 0 <= k /\ k + l >= k /\ (k + l) - k = l
    BY <1>0
  <2>2. h[0] = f[0] /\ h[k + l] = g[(k + l) - k]
    BY <1>4, <2>1
  <2> QED BY <1>1, <1>2, <2>1, <2>2, Zenon
<1>7. k + l \in Nat
  BY <1>0
<1> QED BY <1>3, <1>5, <1>6, <1>7, Zenon DEF Runs, Turns

-----------------------------------------------------------------------------
(* c stands in the code behind its first o cells.                          *)
Within(c, e, o) == o + Len(c) <= Len(e) /\ \A i \in 1..Len(c) : e[o + i] = c[i]

SameOn(D, v, S) == \A d \in D : d \in v <=> d \in S

(* Wherever c stands, the machine pushes one bitmap for it, and of the     *)
(* documents D it has those of S.                                          *)
Pushes(c, terms, P, A, D, S) ==
  \A e \in Seq(Nat), o \in Nat, stk \in Seq(SUBSET Docs) : Within(c, e, o) =>
    \E k \in 1..Len(c), v \in SUBSET Docs :
      /\ SameOn(D, v, S)
      /\ Runs([terms |-> terms, bool_expr |-> e], P, A,
              At(o + 1, stk), k, At(o + Len(c) + 1, Push(v, stk)))

LEMMA PushedState ==
  ASSUME NEW n \in Nat, NEW v \in SUBSET Docs, NEW stk \in Seq(SUBSET Docs)
  PROVE  /\ Push(v, stk) \in Seq(SUBSET Docs) /\ Len(Push(v, stk)) = 1 + Len(stk)
         /\ (Push(v, stk))[1] = v /\ Tail(Push(v, stk)) = stk
         /\ At(n, stk) \in States /\ At(n, Push(v, stk)) \in States
<1>1. Push(v, stk) \in Seq(SUBSET Docs)
  BY DEF Push
<1>2. At(n, stk) \in States /\ At(n, Push(v, stk)) \in States
  BY <1>1 DEF At, States
<1> QED BY <1>1, <1>2 DEF Push

(* A turn of the machine, by its token.                                    *)
LEMMA Tokens ==
  /\ OP_TERM # OP_AND /\ OP_TERM # OP_OR /\ OP_TERM # OP_NOT
  /\ OP_AND # OP_OR /\ OP_AND # OP_NOT /\ OP_OR # OP_NOT
BY DEF OP_TERM, OP_AND, OP_OR, OP_NOT

LEMMA StepWord ==
  ASSUME NEW req, NEW n, ~(n > Len(req.bool_expr)), req.bool_expr[n] = OP_TERM, NEW stk, NEW P, NEW A
  PROVE  Turn(req, P, A, At(n, stk), At(n + 2, Push(P[req.terms[req.bool_expr[n + 1] + 1]], stk)))
<1>1. At(n, stk).pos = n /\ At(n, stk).stk = stk
  BY DEF At
<1> QED BY <1>1, Tokens, Zenon DEF Turn, Step, At, Push

LEMMA StepAnd ==
  ASSUME NEW req, NEW n, ~(n > Len(req.bool_expr)), req.bool_expr[n] = OP_AND, NEW stk, NEW P, NEW A
  PROVE  Turn(req, P, A, At(n, stk), At(n + 1, Push(stk[2] \cap stk[1], Tail(Tail(stk)))))
<1>1. At(n, stk).pos = n /\ At(n, stk).stk = stk
  BY DEF At
<1> QED BY <1>1, Tokens, Zenon DEF Turn, Step, At, Push

LEMMA StepOr ==
  ASSUME NEW req, NEW n, ~(n > Len(req.bool_expr)), req.bool_expr[n] = OP_OR, NEW stk, NEW P, NEW A
  PROVE  Turn(req, P, A, At(n, stk), At(n + 1, Push(stk[2] \cup stk[1], Tail(Tail(stk)))))
<1>1. At(n, stk).pos = n /\ At(n, stk).stk = stk
  BY DEF At
<1> QED BY <1>1, Tokens, Zenon DEF Turn, Step, At, Push

LEMMA StepNot ==
  ASSUME NEW req, NEW n, ~(n > Len(req.bool_expr)), req.bool_expr[n] = OP_NOT, NEW stk, NEW P, NEW A
  PROVE  Turn(req, P, A, At(n, stk), At(n + 1, Push(A \ stk[1], Tail(stk))))
<1>1. At(n, stk).pos = n /\ At(n, stk).stk = stk
  BY DEF At
<1> QED BY <1>1, Tokens, Zenon DEF Turn, Step, At, Push

LEMMA PushWord ==
  ASSUME NEW terms \in Seq(Words), NEW n \in 1..Len(terms),
         NEW P \in [Words -> SUBSET Docs], NEW A \in SUBSET Docs, NEW D, NEW S,
         SameOn(D, P[terms[n]], S)
  PROVE  Pushes(<<OP_TERM, n - 1>>, terms, P, A, D, S)
<1> DEFINE c == <<OP_TERM, n - 1>>
           v == P[terms[n]]
<1> SUFFICES ASSUME NEW e \in Seq(Nat), NEW o \in Nat, NEW stk \in Seq(SUBSET Docs), Within(c, e, o)
             PROVE  \E k \in 1..Len(c) :
                      Runs([terms |-> terms, bool_expr |-> e], P, A,
                           At(o + 1, stk), k, At(o + Len(c) + 1, Push(v, stk)))
  BY DEF Pushes
<1> DEFINE req == [terms |-> terms, bool_expr |-> e]
<1>1. Len(c) = 2 /\ c[1] = OP_TERM /\ c[2] = n - 1
  OBVIOUS
<1>2. o + 2 <= Len(e) /\ e[o + 1] = OP_TERM /\ e[o + 2] = n - 1
  BY <1>1 DEF Within
<1>a. req.bool_expr = e /\ req.terms = terms
  OBVIOUS
<1>3. v \in SUBSET Docs
  OBVIOUS
<1> HIDE DEF v, c, req
<1>4. Turn(req, P, A, At(o + 1, stk), At(o + 3, Push(v, stk)))
  <2>1. ~(o + 1 > Len(e)) /\ (o + 1) + 1 = o + 2 /\ (o + 1) + 2 = o + 3 /\ (n - 1) + 1 = n
    BY <1>2
  <2>2. P[terms[(n - 1) + 1]] = v
    BY <2>1, Zenon DEF v
  <2>3. PICK p : p = o + 1
    OBVIOUS
  <2>4. Turn(req, P, A, At(p, stk), At(p + 2, Push(P[req.terms[req.bool_expr[p + 1] + 1]], stk)))
    <3>1. ~(p > Len(req.bool_expr)) /\ req.bool_expr[p] = OP_TERM
      BY <1>2, <1>a, <2>1, <2>3, Zenon
    <3> QED BY <3>1, StepWord, Zenon
  <2> QED BY <1>2, <1>a, <2>1, <2>2, <2>3, <2>4, Zenon
<1>5. At(o + 1, stk) \in States /\ At(o + 3, Push(v, stk)) \in States
  <2>1. o + 1 \in Nat /\ o + 3 \in Nat
    OBVIOUS
  <2> QED BY <1>3, <2>1, PushedState, Zenon
<1>6. Runs(req, P, A, At(o + 1, stk), 1, At(o + 3, Push(v, stk)))
  BY <1>4, <1>5, RunOne
<1>7. o + Len(c) + 1 = o + 3 /\ 1 \in 1..Len(c)
  BY <1>1
<1> QED BY <1>6, <1>7, Zenon DEF req

LEMMA WithinParts ==
  ASSUME NEW b \in Seq(Nat), NEW c \in Seq(Nat), NEW e \in Seq(Nat), NEW o \in Nat,
         Within(b \o c, e, o)
  PROVE  Within(b, e, o) /\ Within(c, e, o + Len(b))
<1>1. /\ Len(b \o c) = Len(b) + Len(c)
      /\ \A i \in 1..Len(b) : (b \o c)[i] = b[i]
      /\ \A i \in 1..Len(c) : (b \o c)[Len(b) + i] = c[i]
  OBVIOUS
<1>2. \A i \in 1..Len(b) : i \in 1..Len(b \o c)
  BY <1>1
<1>3. \A i \in 1..Len(c) : Len(b) + i \in 1..Len(b \o c) /\ o + (Len(b) + i) = (o + Len(b)) + i
  BY <1>1
<1>4. Len(b) \in Nat /\ Len(c) \in Nat
  OBVIOUS
<1>5. Within(b, e, o)
  <2>1. o + Len(b) <= Len(e)
    BY <1>1, <1>4 DEF Within
  <2>2. \A i \in 1..Len(b) : e[o + i] = b[i]
    BY <1>1, <1>2, Zenon DEF Within
  <2> QED BY <2>1, <2>2 DEF Within
<1>6. Within(c, e, o + Len(b))
  <2>1. (o + Len(b)) + Len(c) <= Len(e)
    BY <1>1, <1>4 DEF Within
  <2>2. \A i \in 1..Len(c) : e[(o + Len(b)) + i] = c[i]
    BY <1>1, <1>3, Zenon DEF Within
  <2> QED BY <2>1, <2>2 DEF Within
<1> QED BY <1>5, <1>6

LEMMA TwoRuns ==
  ASSUME NEW b \in Seq(Nat), NEW c \in Seq(Nat), NEW terms, NEW P, NEW A, NEW D, NEW S,
         NEW e \in Seq(Nat), NEW o \in Nat, NEW stk \in Seq(SUBSET Docs), Within(b \o c, e, o),
         Pushes(b, terms, P, A, D, S)
  PROVE  \E k \in 1..Len(b), v \in SUBSET Docs :
           /\ SameOn(D, v, S)
           /\ Runs([terms |-> terms, bool_expr |-> e], P, A,
                   At(o + 1, stk), k, At(o + Len(b) + 1, Push(v, stk)))
BY WithinParts, Zenon DEF Pushes

LEMMA Appended ==
  ASSUME NEW b \in Seq(Nat), NEW c \in Seq(Nat)
  PROVE  Len(b \o c) = Len(b) + Len(c)
OBVIOUS

LEMMA PushNot ==
  ASSUME NEW c \in Seq(Nat), NEW terms, NEW P, NEW A \in SUBSET Docs, NEW D, NEW S, NEW E,
         Pushes(c, terms, P, A, D, S), SameOn(D, A, E)
  PROVE  Pushes(c \o <<OP_NOT>>, terms, P, A, D, E \ S)
<1> DEFINE b == <<OP_NOT>>
<1> SUFFICES ASSUME NEW e \in Seq(Nat), NEW o \in Nat, NEW stk \in Seq(SUBSET Docs), Within(c \o b, e, o)
             PROVE  \E k \in 1..Len(c \o b), v \in SUBSET Docs :
                      /\ SameOn(D, v, E \ S)
                      /\ Runs([terms |-> terms, bool_expr |-> e], P, A,
                              At(o + 1, stk), k, At(o + Len(c \o b) + 1, Push(v, stk)))
  BY DEF Pushes
<1> DEFINE req == [terms |-> terms, bool_expr |-> e]
<1>0. b \in Seq(Nat) /\ Len(b) = 1 /\ b[1] = OP_NOT
  <2>1. OP_NOT \in Nat
    BY DEF OP_NOT
  <2> QED BY <2>1
<1>a. req.bool_expr = e
  OBVIOUS
<1> HIDE DEF b
<1>1. b \in Seq(Nat) /\ Len(b) = 1 /\ b[1] = OP_NOT /\ Len(c \o b) = Len(c) + 1
  <2>1. c \in Seq(Nat) /\ b \in Seq(Nat)
    BY <1>0, Zenon
  <2>2. Len(c \o b) = Len(c) + Len(b)
    BY <2>1, Appended, Zenon
  <2> QED BY <1>0, <2>2
<1>2. PICK k \in 1..Len(c), v \in SUBSET Docs :
        SameOn(D, v, S) /\ Runs(req, P, A, At(o + 1, stk), k, At(o + Len(c) + 1, Push(v, stk)))
  BY <1>1, TwoRuns, ZenonT(60)
<1>3. PICK n \in Nat : n = o + Len(c) + 1
  OBVIOUS
<1>4. n <= Len(e) /\ e[n] = OP_NOT
  <2>1. Within(b, e, o + Len(c))
    BY <1>1, WithinParts
  <2> QED BY <1>1, <1>3, <2>1 DEF Within
<1> HIDE DEF req
<1>5. PICK s \in Seq(SUBSET Docs) : s = Push(v, stk)
  BY PushedState
<1>6. s[1] = v /\ Tail(s) = stk
  BY <1>5, PushedState
<1>7. Turn(req, P, A, At(n, s), At(n + 1, Push(A \ v, stk)))
  <2>1. ~(n > Len(e))
    BY <1>4
  <2>2. Turn(req, P, A, At(n, s), At(n + 1, Push(A \ s[1], Tail(s))))
    <3>1. ~(n > Len(req.bool_expr)) /\ req.bool_expr[n] = OP_NOT
      BY <1>4, <1>a, <2>1, Zenon
    <3> QED BY <3>1, StepNot, Zenon
  <2> QED BY <1>6, <2>2, Zenon
<1>8. At(n, s) \in States /\ At(n + 1, Push(A \ v, stk)) \in States
  <2>1. n + 1 \in Nat /\ A \ v \in SUBSET Docs
    OBVIOUS
  <2> QED BY <2>1, PushedState, Zenon
<1>9. Runs(req, P, A, At(n, s), 1, At(n + 1, Push(A \ v, stk)))
  BY <1>7, <1>8, RunOne, Zenon
<1>10. Runs(req, P, A, At(o + 1, stk), k + 1, At(n + 1, Push(A \ v, stk)))
  BY <1>2, <1>3, <1>5, <1>9, RunOn, Zenon
<1>11. k + 1 \in 1..Len(c \o b) /\ n + 1 = o + Len(c \o b) + 1
  BY <1>1, <1>3
<1>12. SameOn(D, A \ v, E \ S)
  BY <1>2 DEF SameOn
<1>13. A \ v \in SUBSET Docs
  OBVIOUS
<1> QED BY <1>10, <1>11, <1>12, <1>13, Zenon DEF req

LEMMA PushBoth ==
  ASSUME NEW b \in Seq(Nat), NEW c \in Seq(Nat), NEW terms, NEW P, NEW A, NEW D, NEW R, NEW S,
         Pushes(b, terms, P, A, D, R), Pushes(c, terms, P, A, D, S)
  PROVE  /\ Pushes((b \o c) \o <<OP_AND>>, terms, P, A, D, R \cap S)
         /\ Pushes((b \o c) \o <<OP_OR>>, terms, P, A, D, R \cup S)
<1> SUFFICES ASSUME NEW op \in {OP_AND, OP_OR}, NEW T,
                    op = OP_AND => T = R \cap S, op = OP_OR => T = R \cup S
             PROVE  Pushes((b \o c) \o <<op>>, terms, P, A, D, T)
  <2>1. OP_AND # OP_OR
    BY Tokens
  <2> QED BY <2>1
<1> DEFINE a == <<op>>
           bc == b \o c
           code == bc \o a
<1> SUFFICES ASSUME NEW e \in Seq(Nat), NEW o \in Nat, NEW stk \in Seq(SUBSET Docs), Within(code, e, o)
             PROVE  \E k \in 1..Len(code), v \in SUBSET Docs :
                      /\ SameOn(D, v, T)
                      /\ Runs([terms |-> terms, bool_expr |-> e], P, A,
                              At(o + 1, stk), k, At(o + Len(code) + 1, Push(v, stk)))
  BY DEF Pushes
<1> DEFINE req == [terms |-> terms, bool_expr |-> e]
<1>1. /\ bc \in Seq(Nat) /\ Len(bc) = Len(b) + Len(c)
      /\ a \in Seq(Nat) /\ Len(a) = 1 /\ a[1] = op
  BY DEF OP_AND, OP_OR
<1>2. Len(code) = Len(bc) + 1
  BY <1>1
<1>3. Within(bc, e, o) /\ Within(a, e, o + Len(bc))
  <2> HIDE DEF a, bc
  <2> QED BY <1>1, WithinParts DEF code
<1>4. Within(b, e, o) /\ Within(c, e, o + Len(b))
  BY <1>3, WithinParts
<1>5. req.bool_expr = e
  OBVIOUS
<1> HIDE DEF a, bc, code, req
<1>6. PICK k \in 1..Len(b), v \in SUBSET Docs :
        SameOn(D, v, R) /\ Runs(req, P, A, At(o + 1, stk), k, At(o + Len(b) + 1, Push(v, stk)))
  BY <1>4, Zenon DEF Pushes, req
<1>7. PICK t \in Seq(SUBSET Docs) : t = Push(v, stk)
  BY PushedState
<1>8. PICK p \in Nat : p = o + Len(b)
  OBVIOUS
<1>9. PICK l \in 1..Len(c), w \in SUBSET Docs :
        SameOn(D, w, S) /\ Runs(req, P, A, At(p + 1, t), l, At(p + Len(c) + 1, Push(w, t)))
  BY <1>4, <1>8, Zenon DEF Pushes, req
<1>10. PICK n \in Nat : n = p + Len(c) + 1
  OBVIOUS
<1>11. PICK s \in Seq(SUBSET Docs) : s = Push(w, t)
  BY PushedState
<1>12. s[1] = w /\ s[2] = v /\ Tail(Tail(s)) = stk
  <2>1. s[1] = w /\ Tail(s) = t /\ t[1] = v /\ Tail(t) = stk /\ Len(t) = 1 + Len(stk)
    BY <1>7, <1>11, PushedState
  <2>2. Tail(s)[1] = s[2]
    <3>1. Len(s) = 1 + Len(t)
      BY <1>11, PushedState
    <3> QED BY <2>1, <3>1
  <2> QED BY <2>1, <2>2
<1>13. ~(n > Len(e)) /\ e[n] = op
  <2>1. n = (o + Len(bc)) + 1
    BY <1>1, <1>8, <1>10
  <2>2. (o + Len(bc)) + 1 <= Len(e) /\ 1 \in 1..Len(a)
    BY <1>1, <1>3 DEF Within
  <2>3. e[(o + Len(bc)) + 1] = a[1]
    BY <1>3, <2>2, Zenon DEF Within
  <2> QED BY <1>1, <2>1, <2>2, <2>3
<1> DEFINE u == IF op = OP_AND THEN v \cap w ELSE v \cup w
<1>14. u \in SUBSET Docs
  OBVIOUS
<1>15. Turn(req, P, A, At(n, s), At(n + 1, Push(u, stk)))
  <2>1. ~(n > Len(req.bool_expr)) /\ req.bool_expr[n] = op
    BY <1>5, <1>13, Zenon
  <2>2. CASE op = OP_AND
    <3>1. Turn(req, P, A, At(n, s), At(n + 1, Push(s[2] \cap s[1], Tail(Tail(s)))))
      BY <2>1, <2>2, StepAnd, Zenon
    <3> QED BY <1>12, <2>2, <3>1, Zenon
  <2>3. CASE op = OP_OR
    <3>1. Turn(req, P, A, At(n, s), At(n + 1, Push(s[2] \cup s[1], Tail(Tail(s)))))
      BY <2>1, <2>3, StepOr, Zenon
    <3> QED BY <1>12, <2>3, <3>1, Tokens, Zenon
  <2> QED BY <2>2, <2>3
<1>16. SameOn(D, u, T)
  BY <1>6, <1>9, Tokens DEF SameOn
<1> HIDE DEF u
<1>17. At(n, s) \in States /\ At(n + 1, Push(u, stk)) \in States
  <2>1. n + 1 \in Nat
    OBVIOUS
  <2> QED BY <1>14, <2>1, PushedState, Zenon
<1>18. Runs(req, P, A, At(n, s), 1, At(n + 1, Push(u, stk)))
  BY <1>15, <1>17, RunOne, Zenon
<1>19. Runs(req, P, A, At(o + 1, stk), k + l, At(n, s))
  <2>1. Runs(req, P, A, At(o + 1, stk), k, At(p + 1, t))
    BY <1>6, <1>7, <1>8, Zenon
  <2>2. Runs(req, P, A, At(p + 1, t), l, At(n, s))
    BY <1>9, <1>10, <1>11, Zenon
  <2> QED BY <2>1, <2>2, RunOn, Zenon
<1>20. Runs(req, P, A, At(o + 1, stk), (k + l) + 1, At(n + 1, Push(u, stk)))
  BY <1>18, <1>19, RunOn, Zenon
<1>21. (k + l) + 1 \in 1..Len(code) /\ n + 1 = o + Len(code) + 1
  BY <1>1, <1>2, <1>8, <1>10
<1> QED BY <1>14, <1>16, <1>20, <1>21, Zenon DEF req

-----------------------------------------------------------------------------
(* The loop of handle_select.                                              *)
IsLoop(f, req, P, A) ==
  f = [i \in 0..Len(req.bool_expr) |->
        IF i = 0 THEN [pos |-> 1, stk |-> <<>>] ELSE Step(req, f[i - 1], P, A)]

LEMMA LoopUnique ==
  ASSUME NEW req, req.bool_expr \in Seq(Nat), NEW P, NEW A, NEW f, IsLoop(f, req, P, A)
  PROVE  Matches(req, P, A) = Head(f[Len(req.bool_expr)].stk)
<1> DEFINE n == Len(req.bool_expr)
           c == CHOOSE h : IsLoop(h, req, P, A)
<1>0. n \in Nat
  OBVIOUS
<1>1. Matches(req, P, A) = Head(c[n].stk)
  BY Zenon DEF Matches, IsLoop
<1>2. IsLoop(c, req, P, A)
  BY Zenon
<1> HIDE DEF c, n
<1> DEFINE Bad == {i \in 0..n : c[i] # f[i]}
<1> SUFFICES ASSUME Bad # {} PROVE FALSE
  BY <1>0, <1>1 DEF n
<1>3. Bad \subseteq Nat
  OBVIOUS
<1> HIDE DEF Bad
<1>4. PICK m \in Bad : \A k \in Bad : m <= k
  BY <1>3, Least
<1>5. m \in 0..n /\ c[m] # f[m]
  BY <1>4 DEF Bad
<1>6. /\ c[m] = IF m = 0 THEN [pos |-> 1, stk |-> <<>>] ELSE Step(req, c[m - 1], P, A)
      /\ f[m] = IF m = 0 THEN [pos |-> 1, stk |-> <<>>] ELSE Step(req, f[m - 1], P, A)
  BY <1>2, <1>5, Zenon DEF IsLoop, n
<1>7. m # 0
  BY <1>5, <1>6, Zenon
<1>8. m - 1 \in 0..n /\ ~(m <= m - 1)
  BY <1>0, <1>5, <1>7
<1>9. c[m - 1] = f[m - 1]
  BY <1>4, <1>8 DEF Bad
<1> QED BY <1>5, <1>6, <1>7, <1>9, Zenon

(* What the loop leaves of code that pushes one bitmap.                    *)
LEMMA Pushed ==
  ASSUME NEW c \in Seq(Nat), NEW terms, NEW P, NEW A, NEW D, NEW S,
         Pushes(c, terms, P, A, D, S)
  PROVE  SameOn(D, Matches([terms |-> terms, bool_expr |-> c], P, A), S)
<1> DEFINE req == [terms |-> terms, bool_expr |-> c]
           n == Len(c)
<1>0. n \in Nat
  OBVIOUS
<1>1. Within(c, c, 0) /\ <<>> \in Seq(SUBSET Docs)
  <2>1. \A i \in 1..Len(c) : 0 + i = i
    OBVIOUS
  <2> QED BY <2>1 DEF Within
<1>2. PICK k \in 1..n, v \in SUBSET Docs :
        SameOn(D, v, S) /\ Runs(req, P, A, At(0 + 1, <<>>), k, At(0 + n + 1, Push(v, <<>>)))
  BY <1>1, Zenon DEF Pushes
<1>3. req.bool_expr = c
  OBVIOUS
<1> HIDE DEF req
<1>4. PICK f : Turns(req, P, A, f, k) /\ f[0] = At(0 + 1, <<>>) /\ f[k] = At(0 + n + 1, Push(v, <<>>))
  BY <1>2 DEF Runs
<1> DEFINE g == [i \in 0..n |-> IF i <= k THEN f[i] ELSE f[k]]
<1>5. 0 + n + 1 > Len(c) /\ 0 + 1 = 1
  OBVIOUS
<1>6. Step(req, f[k], P, A) = f[k]
  <2>1. f[k].pos > Len(req.bool_expr)
    BY <1>3, <1>4, <1>5 DEF At
  <2> QED BY <2>1, Zenon DEF Step
<1>7. \A i \in 0..n : g[i] = IF i = 0 THEN [pos |-> 1, stk |-> <<>>] ELSE Step(req, g[i - 1], P, A)
  <2> TAKE i \in 0..n
  <2>1. CASE i = 0
    <3>1. g[i] = f[0]
      BY <2>1
    <3> QED BY <1>4, <1>5, <2>1, <3>1, Zenon DEF At
  <2>2. CASE i # 0 /\ i <= k
    <3>1. i \in 1..k /\ g[i] = f[i] /\ g[i - 1] = f[i - 1]
      BY <2>2
    <3> QED BY <1>4, <2>2, <3>1, Zenon DEF Turns
  <2>3. CASE ~(i <= k)
    <3>1. i # 0 /\ g[i] = f[k] /\ g[i - 1] = f[k]
      BY <2>3
    <3> QED BY <1>6, <3>1, Zenon
  <2> QED BY <2>1, <2>2, <2>3
<1>8. g[n] = f[k]
  OBVIOUS
<1>9. g = [i \in 0..n |-> g[i]]
  OBVIOUS
<1> HIDE DEF g
<1>10. IsLoop(g, req, P, A)
  BY <1>3, <1>7, <1>9, Zenon DEF IsLoop
<1>11. Matches(req, P, A) = Head(g[n].stk)
  BY <1>3, <1>10, LoopUnique
<1>12. Head(g[n].stk) = v
  <2>1. f[k].stk = Push(v, <<>>)
    BY <1>4 DEF At
  <2>2. Head(Push(v, <<>>)) = v
    BY DEF Push
  <2> QED BY <1>8, <2>1, <2>2, Zenon
<1> QED BY <1>2, <1>11, <1>12, Zenon DEF req

-----------------------------------------------------------------------------
(* Expressions, as a list in which each is a word or is made of earlier    *)
(* ones: its postfix code, and the documents it means if the words have    *)
(* the documents T and the documents E exist.                              *)
Expressions(q, terms, T, E) ==
  \A i \in DOMAIN q :
    \/ \E n \in DOMAIN terms : q[i] = [code |-> <<OP_TERM, n - 1>>, docs |-> T[terms[n]]]
    \/ \E j \in 1..(i - 1) : q[i] = [code |-> q[j].code \o <<OP_NOT>>, docs |-> E \ q[j].docs]
    \/ \E j, k \in 1..(i - 1) :
         q[i] = [code |-> (q[j].code \o q[k].code) \o <<OP_AND>>, docs |-> q[j].docs \cap q[k].docs]
    \/ \E j, k \in 1..(i - 1) :
         q[i] = [code |-> (q[j].code \o q[k].code) \o <<OP_OR>>, docs |-> q[j].docs \cup q[k].docs]

Coded(x, terms, P, A, D) == x.code \in Seq(Nat) /\ Pushes(x.code, terms, P, A, D, x.docs)

LEMMA ExpressionsCoded ==
  ASSUME NEW terms \in Seq(Words), NEW P \in [Words -> SUBSET Docs], NEW A \in SUBSET Docs,
         NEW D, NEW T, NEW E, \A w \in Words : SameOn(D, P[w], T[w]), SameOn(D, A, E),
         NEW n \in Nat, NEW q, DOMAIN q = 1..n, Expressions(q, terms, T, E)
  PROVE  \A i \in 1..n : Coded(q[i], terms, P, A, D)
<1> DEFINE Bad == {i \in 1..n : ~Coded(q[i], terms, P, A, D)}
<1> SUFFICES ASSUME Bad # {} PROVE FALSE
  OBVIOUS
<1>1. Bad \subseteq Nat
  OBVIOUS
<1> HIDE DEF Bad
<1>2. PICK m \in Bad : \A k \in Bad : m <= k
  BY <1>1, Least
<1>3. m \in 1..n /\ ~Coded(q[m], terms, P, A, D)
  BY <1>2 DEF Bad
<1>4. \A j \in 1..(m - 1) : Coded(q[j], terms, P, A, D)
  <2> TAKE j \in 1..(m - 1)
  <2>1. j \in 1..n /\ ~(m <= j)
    BY <1>3
  <2> QED BY <1>2, <2>1 DEF Bad
<1>a. \A op \in {OP_TERM, OP_AND, OP_OR, OP_NOT} : op \in Nat
  BY DEF OP_TERM, OP_AND, OP_OR, OP_NOT
<1>5. ASSUME NEW k \in DOMAIN terms,
             q[m] = [code |-> <<OP_TERM, k - 1>>, docs |-> T[terms[k]]]
      PROVE  FALSE
  <2>1. k \in 1..Len(terms) /\ terms[k] \in Words /\ k - 1 \in Nat
    OBVIOUS
  <2>2. Pushes(<<OP_TERM, k - 1>>, terms, P, A, D, T[terms[k]])
    BY <2>1, PushWord
  <2>3. <<OP_TERM, k - 1>> \in Seq(Nat)
    BY <1>a, <2>1
  <2>4. q[m].code = <<OP_TERM, k - 1>> /\ q[m].docs = T[terms[k]]
    BY <1>5
  <2> QED BY <1>3, <2>2, <2>3, <2>4, Zenon DEF Coded
<1>6. ASSUME NEW j \in 1..(m - 1),
             q[m] = [code |-> q[j].code \o <<OP_NOT>>, docs |-> E \ q[j].docs]
      PROVE  FALSE
  <2>1. PICK c \in Seq(Nat) : c = q[j].code /\ Pushes(c, terms, P, A, D, q[j].docs)
    BY <1>4, Zenon DEF Coded
  <2>2. Pushes(c \o <<OP_NOT>>, terms, P, A, D, E \ q[j].docs)
    BY <2>1, PushNot
  <2>3. c \o <<OP_NOT>> \in Seq(Nat)
    BY <1>a
  <2>4. q[m].code = q[j].code \o <<OP_NOT>> /\ q[m].docs = E \ q[j].docs
    BY <1>6, SMTT(60)
  <2> QED BY <1>3, <2>1, <2>2, <2>3, <2>4, Zenon DEF Coded
<1>7. ASSUME NEW j \in 1..(m - 1), NEW k \in 1..(m - 1),
             \/ q[m] = [code |-> (q[j].code \o q[k].code) \o <<OP_AND>>,
                        docs |-> q[j].docs \cap q[k].docs]
             \/ q[m] = [code |-> (q[j].code \o q[k].code) \o <<OP_OR>>,
                        docs |-> q[j].docs \cup q[k].docs]
      PROVE  FALSE
  <2>1. PICK b \in Seq(Nat) : b = q[j].code /\ Pushes(b, terms, P, A, D, q[j].docs)
    BY <1>4, Zenon DEF Coded
  <2>2. PICK c \in Seq(Nat) : c = q[k].code /\ Pushes(c, terms, P, A, D, q[k].docs)
    BY <1>4, Zenon DEF Coded
  <2>3. /\ Pushes((b \o c) \o <<OP_AND>>, terms, P, A, D, q[j].docs \cap q[k].docs)
        /\ Pushes((b \o c) \o <<OP_OR>>, terms, P, A, D, q[j].docs \cup q[k].docs)
    BY <2>1, <2>2, PushBoth
  <2>4. (b \o c) \o <<OP_AND>> \in Seq(Nat) /\ (b \o c) \o <<OP_OR>> \in Seq(Nat)
    BY <1>a
  <2>5. \/ q[m].code = (q[j].code \o q[k].code) \o <<OP_AND>> /\ q[m].docs = q[j].docs \cap q[k].docs
        \/ q[m].code = (q[j].code \o q[k].code) \o <<OP_OR>> /\ q[m].docs = q[j].docs \cup q[k].docs
    <3>1. PICK x, y : x = (q[j].code \o q[k].code) \o <<OP_AND>> /\ y = (q[j].code \o q[k].code) \o <<OP_OR>>
      OBVIOUS
    <3>2. \/ q[m] = [code |-> x, docs |-> q[j].docs \cap q[k].docs]
          \/ q[m] = [code |-> y, docs |-> q[j].docs \cup q[k].docs]
      BY <1>7, <3>1, Zenon
    <3>3. \/ q[m].code = x /\ q[m].docs = q[j].docs \cap q[k].docs
          \/ q[m].code = y /\ q[m].docs = q[j].docs \cup q[k].docs
      BY <3>2
    <3> QED BY <3>1, <3>3, Zenon
  <2> QED BY <1>3, <2>1, <2>2, <2>3, <2>4, <2>5, Zenon DEF Coded
<1> QED BY <1>3, <1>5, <1>6, <1>7, Zenon DEF Expressions

(* The code of an expression of any size evaluates to what the expression  *)
(* means, on all documents of which the index is right for every word:     *)
(* what the index has wrong about others has no influence on them.         *)
THEOREM MachineExact ==
  ASSUME NEW terms \in Seq(Words), NEW P \in [Words -> SUBSET Docs], NEW A \in SUBSET Docs,
         NEW D, NEW T, NEW E, \A w \in Words : SameOn(D, P[w], T[w]), SameOn(D, A, E),
         NEW n \in Nat, NEW q, DOMAIN q = 1..n, Expressions(q, terms, T, E)
  PROVE  \A i \in 1..n : SameOn(D, Matches([terms |-> terms, bool_expr |-> q[i].code], P, A), q[i].docs)
<1> SUFFICES ASSUME NEW i \in 1..n
             PROVE  SameOn(D, Matches([terms |-> terms, bool_expr |-> q[i].code], P, A), q[i].docs)
  OBVIOUS
<1>1. Coded(q[i], terms, P, A, D)
  BY ExpressionsCoded
<1> QED BY <1>1, Pushed, Zenon DEF Coded

(* A query finds a document, of which the index is not known to have       *)
(* something wrong, exactly if the document's own keywords satisfy it.     *)
QueriesExact ==
  session # "down" =>
    \A terms \in Seq(Words), n \in Nat :
      \A q \in [1..n -> [code : Seq(Nat), docs : SUBSET Docs]] :
        Expressions(q, terms, [w \in Words |-> {d \in Docs : w \in Index(d)}],
                    {d \in Docs : slots[d] # NoDoc}) =>
          \A i \in 1..n, d \in Docs : Tracked(d) =>
            (d \in Matches([terms |-> terms, bool_expr |-> q[i].code], postings, all_docs)
               <=> d \in q[i].docs)

LEMMA ExactAnswers == TypeOK /\ IndexExact => QueriesExact
<1> SUFFICES ASSUME TypeOK, IndexExact, session # "down" PROVE QueriesExact
  BY DEF QueriesExact
<1> DEFINE T == [w \in Words |-> {d \in Docs : w \in Index(d)}]
           E == {d \in Docs : slots[d] # NoDoc}
           D == {d \in Docs : Tracked(d)}
<1> SUFFICES ASSUME NEW terms \in Seq(Words), NEW n \in Nat,
                    NEW q \in [1..n -> [code : Seq(Nat), docs : SUBSET Docs]],
                    Expressions(q, terms, T, E), NEW i \in 1..n
             PROVE  SameOn(D, Matches([terms |-> terms, bool_expr |-> q[i].code], postings, all_docs),
                           q[i].docs)
  BY DEF QueriesExact, SameOn
<1>1. \A w \in Words : SameOn(D, postings[w], T[w])
  BY DEF SameOn, Tracked, IndexExact
<1>2. SameOn(D, all_docs, E)
  BY DEF SameOn, Tracked, IndexExact
<1>3. postings \in [Words -> SUBSET Docs] /\ all_docs \in SUBSET Docs /\ DOMAIN q = 1..n
  BY DEF TypeOK
<1> HIDE DEF T, E, D
<1> QED BY <1>1, <1>2, <1>3, MachineExact

(* In every state, for a query of any size: what handle_select finds is    *)
(* what the expression means.                                              *)
THEOREM QueriesAnsweredExactly == Spec => []QueriesExact
<1>1. Spec => [](TypeOK /\ IndexExact)
  BY UpdatesTypeCorrect, IndexAlwaysExact, PTL
<1> QED BY <1>1, ExactAnswers, PTL
=============================================================================
