------------------------- MODULE EnclaveContextsProofs -------------------------
(***************************************************************************)
(* EnclaveContexts for any number of clients, databases and updates and    *)
(* any size of the cache.                                                  *)
(*                                                                         *)
(* The cache is keyed by client, and what the properties ask is about      *)
(* databases.  They hold when the two cannot be told apart (clients that   *)
(* keep to the database they created, OneEdbPerClient; the run             *)
(* contexts_foreign shows that they fail otherwise): Owned says so of      *)
(* every context in the enclave and on disk, and where the newest one is.  *)
(***************************************************************************)
EXTENDS EnclaveContexts, FiniteSetTheorems, TLAPS

USE EnclaveContextsAssumption

-----------------------------------------------------------------------------
(* What is said of a cache, an active context and snapshots is said of any *)
(* three values, so that it can be said between the steps of               *)
(* ecall_schedule_context too.                                             *)

(* A context in the enclave is its creator's and knows every update.       *)
Current(x) ==
  /\ x \in Ctx /\ x.edb \in Edbs /\ x.client \in Clients
  /\ creator[x.edb] = x.client /\ x.log = acked[x.edb]

Cache(i) ==
  /\ i \in [DOMAIN i -> Ctx] /\ DOMAIN i \subseteq Clients
  /\ \A c \in DOMAIN i : Current(i[c]) /\ i[c].client = c

(* A sealed context is its creator's and knows nothing of its own.         *)
Sealed(s) ==
  /\ s \in [Edbs -> Ctx]
  /\ \A e \in Edbs : s[e] # NoCtx =>
       /\ s[e].edb = e /\ s[e].client = creator[e] /\ creator[e] \in Clients
       /\ s[e].log \subseteq acked[e]

(* What is not in the enclave is on disk, up to date.                      *)
Kept(a, i, s) ==
  \A e \in Edbs : a.edb # e /\ (\A c \in DOMAIN i : i[c].edb # e) => s[e].log = acked[e]

Owned(a, i, s) ==
  /\ a \in Ctx /\ (a # NoCtx => Current(a) /\ a.client \notin DOMAIN i)
  /\ Cache(i) /\ Sealed(s) /\ Kept(a, i, s)

(* A client creates one database and is connected to no other.             *)
Creators ==
  /\ \A e, f \in Edbs : creator[e] = creator[f] /\ creator[e] # NoClient => e = f
  /\ \A e \in Edbs : e >= next_db_id => creator[e] = NoClient
  /\ \A c \in DOMAIN edb_id_map : creator[edb_id_map[c]] = c

Inv == TypeOK /\ Creators /\ Owned(active, inactive, snapshots)

LEMMA ContextDistinct == NoCtx.edb \notin Edbs /\ NoCtx.client \notin Clients /\ NoCtx.log = {}
BY DEF NoCtx, Edbs

LEMMA DropFacts ==
  ASSUME NEW i, NEW k
  PROVE  /\ DOMAIN Drop(i, k) = DOMAIN i \ {k}
         /\ \A c \in DOMAIN i \ {k} : Drop(i, k)[c] = i[c]
BY DEF Drop, Restrict

LEMMA DropCache ==
  ASSUME NEW i, NEW k, Cache(i)
  PROVE  Cache(Drop(i, k))
<1> DEFINE j == Drop(i, k)
<1>1. DOMAIN j = DOMAIN i \ {k} /\ \A c \in DOMAIN j : j[c] = i[c]
  BY DropFacts
<1>2. j = [c \in DOMAIN j |-> j[c]]
  BY DEF Drop, Restrict
<1> HIDE DEF j
<1>3. Cache(j)
  BY <1>1, <1>2 DEF Cache
<1> QED BY <1>3 DEF j

(* Sealing the victim of an eviction loses nothing.                        *)
LEMMA SealOwned ==
  ASSUME NEW i, NEW s, Owned(NoCtx, i, s), NEW v \in DOMAIN i,
         NEW t, t = [s EXCEPT ![i[v].edb] = i[v]]
  PROVE  /\ Owned(NoCtx, Drop(i, v), t)
         /\ \A e \in Edbs : s[e].log \subseteq t[e].log
<1> DEFINE j == Drop(i, v)
<1>1. DOMAIN j = DOMAIN i \ {v} /\ \A c \in DOMAIN j : j[c] = i[c]
  BY DropFacts
<1>2. Cache(j)
  BY DropCache DEF Owned
<1> HIDE DEF j
<1>3. PICK x : x = i[v]
  OBVIOUS
<1>4. Current(x)
  BY <1>3 DEF Owned, Cache
<1>5. /\ s \in [Edbs -> Ctx] /\ t = [s EXCEPT ![x.edb] = x] /\ x.edb \in Edbs /\ x \in Ctx
      /\ t[x.edb] = x /\ \A e \in Edbs \ {x.edb} : t[e] = s[e]
  BY <1>3, <1>4 DEF Owned, Sealed, Current
<1>6. Sealed(t)
  <2>1. t \in [Edbs -> Ctx]
    BY <1>5
  <2>2. ASSUME NEW e \in Edbs, t[e] # NoCtx
        PROVE  /\ t[e].edb = e /\ t[e].client = creator[e] /\ creator[e] \in Clients
               /\ t[e].log \subseteq acked[e]
    <3>1. CASE e = x.edb
      BY <1>4, <1>5, <3>1 DEF Current
    <3>2. CASE e # x.edb
      BY <1>5, <2>2, <3>2 DEF Owned, Sealed
    <3> QED BY <3>1, <3>2
  <2> QED BY <2>1, <2>2 DEF Sealed
<1>7. Kept(NoCtx, j, t)
  <2> SUFFICES ASSUME NEW e \in Edbs, \A c \in DOMAIN j : j[c].edb # e
               PROVE  t[e].log = acked[e]
    BY DEF Kept
  <2>1. CASE e = x.edb
    BY <1>4, <1>5, <2>1 DEF Current
  <2>2. CASE e # x.edb
    <3>1. \A c \in DOMAIN i : i[c].edb # e
      BY <1>1, <1>3, <2>2
    <3> QED BY <1>5, <2>2, <3>1, ContextDistinct DEF Owned, Kept
  <2> QED BY <2>1, <2>2
<1>8. \A e \in Edbs : s[e].log \subseteq t[e].log
  <2> SUFFICES ASSUME NEW e \in Edbs PROVE s[e].log \subseteq t[e].log
    OBVIOUS
  <2>1. CASE e = x.edb
    <3>1. t[e].log = acked[e]
      BY <1>4, <1>5, <2>1 DEF Current
    <3>2. s[e] = NoCtx \/ s[e].log \subseteq acked[e]
      BY DEF Owned, Sealed
    <3> QED BY <3>1, <3>2, ContextDistinct
  <2> QED BY <1>5, <2>1
<1>9. Owned(NoCtx, j, t)
  BY <1>2, <1>6, <1>7 DEF Owned
<1> QED BY <1>8, <1>9 DEF j

(* What a step of the scheduler may do to the snapshots and the enclave.   *)
Evicted(ev) ==
  /\ Owned(NoCtx, ev.inactive, ev.snapshots)
  /\ \A e \in Edbs : snapshots[e].log \subseteq ev.snapshots[e].log

LEMMA CachedOwned ==
  ASSUME Inv
  PROVE  Owned(NoCtx, Cached, snapshots)
<1> DEFINE k == active.client
           j == Put(inactive, k, active)
<1>1. CASE active = NoCtx
  BY <1>1 DEF Cached, Inv
<1>2. CASE active # NoCtx
  <2>1. Current(active) /\ k \notin DOMAIN inactive /\ k \in Clients
    BY <1>2 DEF Inv, Owned, Current
  <2>2. /\ DOMAIN j = DOMAIN inactive \cup {k} /\ j[k] = active
        /\ \A c \in DOMAIN inactive : j[c] = inactive[c]
    <3> HIDE DEF k
    <3>1. DOMAIN j = DOMAIN inactive \cup {k} /\ j[k] = active
      BY DEF Put
    <3>2. \A c \in DOMAIN inactive \ {k} : j[c] = inactive[c]
      BY DEF Put
    <3> QED BY <2>1, <3>1, <3>2
  <2>3. j = [c \in DOMAIN j |-> j[c]]
    BY DEF Put
  <2>4. active.client = k
    OBVIOUS
  <2> HIDE DEF j, k
  <2>5. Cache(j)
    BY <2>1, <2>2, <2>3, <2>4 DEF Cache, Inv, Owned, Current
  <2>6. Kept(NoCtx, j, snapshots)
    <3> SUFFICES ASSUME NEW e \in Edbs, \A c \in DOMAIN j : j[c].edb # e
                 PROVE  snapshots[e].log = acked[e]
      BY DEF Kept
    <3>1. active.edb # e /\ \A c \in DOMAIN inactive : inactive[c].edb # e
      BY <2>2
    <3> QED BY <3>1 DEF Inv, Owned, Kept
  <2>7. NoCtx \in Ctx
    BY DEF NoCtx, Ctx, EnclaveContextsAssumption
  <2>8. Owned(NoCtx, j, snapshots)
    BY <2>5, <2>6, <2>7 DEF Inv, Owned
  <2> QED BY <1>2, <2>8 DEF Cached, j, k
<1> QED BY <1>1, <1>2

LEMMA EvictionOwned ==
  ASSUME Inv, NEW ev \in Evictions
  PROVE  Evicted(ev)
<1>1. Owned(NoCtx, Cached, snapshots)
  BY CachedOwned
<1>2. CASE ev = [inactive |-> Cached, snapshots |-> snapshots]
  BY <1>1, <1>2 DEF Evicted
<1>3. ASSUME NEW v \in DOMAIN Cached,
             ev = [inactive |-> Drop(Cached, v),
                   snapshots |-> [snapshots EXCEPT ![Cached[v].edb] = Cached[v]]]
      PROVE  Evicted(ev)
  <2>1. /\ Owned(NoCtx, Drop(Cached, v), ev.snapshots)
        /\ \A e \in Edbs : snapshots[e].log \subseteq ev.snapshots[e].log
    BY <1>1, <1>3, SealOwned
  <2> QED BY <1>3, <2>1 DEF Evicted
<1> QED BY <1>2, <1>3 DEF Evictions

(* What is brought up for the creator of e is the newest context of e: the *)
(* cached one cannot be another database's, and if there is none the       *)
(* sealed one is up to date.                                               *)
Right(b, c, e) ==
  /\ b # NoCtx => b.edb = e /\ b.client = c
  /\ b = NoCtx => acked[e] = {}

LEMMA BroughtUpOwned ==
  ASSUME Creators, NEW i, NEW s, Owned(NoCtx, i, s),
         NEW c \in Clients, NEW e \in Edbs, creator[e] = c,
         NEW b, b = IF c \in DOMAIN i THEN i[c] ELSE s[e]
  PROVE  Owned(b, Drop(i, c), s) /\ Right(b, c, e)
<1> DEFINE j == Drop(i, c)
<1>1. DOMAIN j = DOMAIN i \ {c} /\ \A k \in DOMAIN j : j[k] = i[k]
  BY DropFacts
<1>2. Cache(j) /\ Sealed(s)
  BY DropCache DEF Owned
<1> HIDE DEF j
<1>3. \A k \in DOMAIN i : /\ i[k] \in Ctx /\ i[k].edb \in Edbs /\ i[k].client = k
                          /\ creator[i[k].edb] = k /\ i[k].log = acked[i[k].edb]
  BY DEF Owned, Cache, Current
<1>4. \A k \in DOMAIN i : i[k].edb = e => k = c
  BY <1>3
<1>5. NoClient \notin Clients /\ NoCtx.client = NoClient
  BY EnclaveContextsAssumption DEF NoCtx
<1>6. CASE c \in DOMAIN i
  <2>1. i[c].edb = e
    BY <1>3, <1>5, <1>6 DEF Creators
  <2>2. Current(b) /\ b.edb = e /\ b.client = c /\ b \in Ctx /\ b # NoCtx
    BY <1>3, <1>5, <1>6, <2>1 DEF Current
  <2>3. Kept(b, j, s)
    <3> SUFFICES ASSUME NEW f \in Edbs, f # e, \A k \in DOMAIN j : j[k].edb # f
                 PROVE  s[f].log = acked[f]
      BY <2>2 DEF Kept
    <3>1. \A k \in DOMAIN i : i[k].edb # f
      BY <1>1, <2>1
    <3> QED BY <3>1, ContextDistinct DEF Owned, Kept
  <2> QED BY <1>1, <1>2, <2>2, <2>3 DEF Owned, Right, j
<1>7. CASE c \notin DOMAIN i
  <2>1. b = s[e] /\ j = [k \in DOMAIN i |-> i[k]] /\ DOMAIN j = DOMAIN i
    BY <1>1, <1>7 DEF j, Drop, Restrict
  <2>2. \A k \in DOMAIN i : i[k].edb # e
    BY <1>4, <1>7
  <2>3. s[e].log = acked[e]
    BY <2>2, ContextDistinct DEF Owned, Kept
  <2>4. b \in Ctx
    BY <2>1 DEF Owned, Sealed
  <2>5. b # NoCtx => Current(b) /\ b.edb = e /\ b.client = c /\ b.client \notin DOMAIN j
    BY <1>7, <2>1, <2>3, <2>4 DEF Owned, Sealed, Current
  <2>6. Kept(b, j, s)
    <3> SUFFICES ASSUME NEW f \in Edbs, \A k \in DOMAIN j : j[k].edb # f
                 PROVE  s[f].log = acked[f]
      BY DEF Kept
    <3>1. \A k \in DOMAIN i : i[k].edb # f
      BY <1>1, <2>1
    <3> QED BY <3>1, ContextDistinct DEF Owned, Kept
  <2>7. Right(b, c, e)
    BY <2>1, <2>3, <2>5, ContextDistinct DEF Right
  <2> QED BY <1>2, <2>4, <2>5, <2>6, <2>7 DEF Owned, j
<1> QED BY <1>6, <1>7

(* ecall_schedule_context for the creator of a database.                   *)
Scheduled(o, c, e) ==
  /\ Owned(o.active, o.inactive, o.snapshots) /\ Right(o.active, c, e)
  /\ \A f \in Edbs : snapshots[f].log \subseteq o.snapshots[f].log

LEMMA ScheduleOwned ==
  ASSUME Inv, NEW c \in Clients, NEW e \in Edbs, creator[e] = c,
         NEW o \in Outcomes(c, e, FALSE)
  PROVE  Scheduled(o, c, e)
<1>1. CASE /\ active.client = c /\ active.edb = e
           /\ o = [active |-> active, inactive |-> inactive, snapshots |-> snapshots]
  <2>1. active # NoCtx
    BY <1>1, ContextDistinct
  <2> QED BY <1>1, <2>1 DEF Scheduled, Right, Inv
<1>2. ASSUME NEW ev \in Evictions,
             o = [active |-> BroughtUp(ev, c, e, FALSE), inactive |-> Drop(ev.inactive, c),
                  snapshots |-> ev.snapshots]
      PROVE  Scheduled(o, c, e)
  <2>1. Evicted(ev)
    BY EvictionOwned
  <2>2. PICK b : b = IF c \in DOMAIN ev.inactive THEN ev.inactive[c] ELSE ev.snapshots[e]
    OBVIOUS
  <2>3. o.active = b /\ o.inactive = Drop(ev.inactive, c) /\ o.snapshots = ev.snapshots
    BY <1>2, <2>2 DEF BroughtUp
  <2>4. Owned(b, Drop(ev.inactive, c), ev.snapshots) /\ Right(b, c, e)
    BY <2>1, <2>2, BroughtUpOwned DEF Evicted, Inv
  <2> QED BY <2>1, <2>3, <2>4 DEF Scheduled, Evicted
<1> QED BY <1>1, <1>2 DEF Outcomes

-----------------------------------------------------------------------------
(* Every step keeps the invariant.                                         *)

Rest ==
  /\ edb_id_map \in [DOMAIN edb_id_map -> Edbs] /\ DOMAIN edb_id_map \subseteq Clients
  /\ next_db_id \in 1..(MaxEdbs + 1)
  /\ creator \in [Edbs -> Clients \cup {NoClient}]
  /\ updates \in 0..MaxUpdates
  /\ acked \in [Edbs -> SUBSET Updates]

LEMMA InvFromOwned ==
  ASSUME Rest', Creators', Owned(active, inactive, snapshots)'
  PROVE  Inv'
<1>1. active' \in Ctx /\ snapshots' \in [Edbs -> Ctx] /\ DOMAIN inactive' \subseteq Clients
  BY DEF Owned, Sealed, Cache
<1>2. inactive' \in [DOMAIN inactive' -> Ctx \ {NoCtx}]
  <2>1. \A c \in DOMAIN inactive' : inactive'[c] \in Ctx /\ inactive'[c] # NoCtx
    BY ContextDistinct DEF Owned, Cache, Current
  <2>2. inactive' = [c \in DOMAIN inactive' |-> inactive'[c]]
    BY DEF Owned, Cache
  <2> QED BY <2>1, <2>2
<1> QED BY <1>1, <1>2 DEF Inv, TypeOK, Rest

LEMMA OwnedStays ==
  ASSUME NEW a, NEW i, NEW s, Owned(a, i, s), UNCHANGED <<creator, acked>>
  PROVE  Owned(a, i, s)'
BY DEF Owned, Cache, Sealed, Kept, Current

LEMMA PutMap ==
  ASSUME NEW c \in Clients, NEW e \in Edbs, Rest, edb_id_map' = Put(edb_id_map, c, e)
  PROVE  /\ edb_id_map' \in [DOMAIN edb_id_map' -> Edbs] /\ DOMAIN edb_id_map' \subseteq Clients
         /\ \A k \in DOMAIN edb_id_map' :
              (k = c /\ edb_id_map'[k] = e)
                \/ (k \in DOMAIN edb_id_map /\ edb_id_map'[k] = edb_id_map[k])
BY DEF Put, Rest

LEMMA InvRest == Inv => Rest
BY DEF Inv, TypeOK, Rest

THEOREM InitInv == Init => Inv
<1> SUFFICES ASSUME Init PROVE Inv
  OBVIOUS
<1> USE DEF Init
<1>1. NoCtx \in Ctx
  BY EnclaveContextsAssumption DEF NoCtx, Ctx
<1>2. Cache(inactive)
  BY DEF Cache, Empty
<1>3. Owned(active, inactive, snapshots)
  BY <1>1, <1>2, ContextDistinct DEF Owned, Sealed, Kept
<1>4. Creators
  BY DEF Creators
<1>5. Rest
  BY EnclaveContextsAssumption DEF Rest, Edbs
<1>6. inactive \in [DOMAIN inactive -> Ctx \ {NoCtx}] /\ DOMAIN inactive \subseteq Clients
  BY DEF Empty
<1> QED BY <1>1, <1>3, <1>4, <1>5, <1>6 DEF Inv, TypeOK, Rest

(* Whoever is connected is the creator of the database.                    *)
LEMMA ConnectedCreator ==
  ASSUME Inv, NEW c \in DOMAIN edb_id_map
  PROVE  c \in Clients /\ edb_id_map[c] \in Edbs /\ creator[edb_id_map[c]] = c
BY DEF Inv, TypeOK, Creators

LEMMA SelectInv ==
  ASSUME Inv, NEW c \in Clients, Select(c)
  PROVE  Inv' /\ \A f \in Edbs : snapshots[f].log \subseteq snapshots'[f].log
<1> DEFINE e == edb_id_map[c]
<1>1. e \in Edbs /\ creator[e] = c
  BY ConnectedCreator DEF Select
<1>2. PICK o \in Outcomes(c, e, FALSE) :
        active' = o.active /\ inactive' = o.inactive /\ snapshots' = o.snapshots
  BY DEF Select, Schedule
<1>3. Scheduled(o, c, e)
  BY <1>1, <1>2, ScheduleOwned
<1>4. Owned(o.active, o.inactive, o.snapshots)'
  BY <1>3, OwnedStays DEF Select, Scheduled
<1>5. Rest' /\ Creators'
  BY InvRest DEF Select, Rest, Creators, Inv
<1>6. Inv'
  BY <1>2, <1>4, <1>5, InvFromOwned
<1> QED BY <1>2, <1>3, <1>6 DEF Scheduled

LEMMA ResumeInv ==
  ASSUME OneEdbPerClient, Inv, NEW c \in Clients, NEW e \in Edbs, Resume(c, e)
  PROVE  Inv' /\ \A f \in Edbs : snapshots[f].log \subseteq snapshots'[f].log
<1>1. creator[e] = c
  BY DEF Resume
<1>2. PICK o \in Outcomes(c, e, FALSE) :
        active' = o.active /\ inactive' = o.inactive /\ snapshots' = o.snapshots
  BY DEF Resume, Schedule
<1>3. Scheduled(o, c, e)
  BY <1>1, <1>2, ScheduleOwned
<1>4. Owned(o.active, o.inactive, o.snapshots)'
  BY <1>3, OwnedStays DEF Resume, Scheduled
<1>5. Rest'
  BY InvRest, PutMap DEF Resume, Rest
<1>6. Creators'
  BY <1>1, InvRest, PutMap DEF Resume, Creators, Inv
<1>7. Inv'
  BY <1>2, <1>4, <1>5, <1>6, InvFromOwned
<1> QED BY <1>2, <1>3, <1>7 DEF Scheduled

(* The update goes into the only context of its database.                  *)
LEMMA UpdateInv ==
  ASSUME Inv, NEW c \in Clients, Update(c)
  PROVE  Inv' /\ \A f \in Edbs : snapshots[f].log \subseteq snapshots'[f].log
<1>1. PICK e \in Edbs : e = edb_id_map[c] /\ creator[e] = c
  BY ConnectedCreator DEF Update
<1>2. PICK o \in Outcomes(c, e, FALSE) :
        /\ inactive' = o.inactive /\ snapshots' = o.snapshots
        /\ IF o.active = NoCtx
           THEN active' = NoCtx /\ UNCHANGED <<updates, acked>>
           ELSE /\ active' = [o.active EXCEPT !.log = @ \cup {<<c, updates + 1>>}]
                /\ updates' = updates + 1
                /\ acked' = [acked EXCEPT ![e] = @ \cup {<<c, updates + 1>>}]
  BY <1>1 DEF Update
<1>3. Scheduled(o, c, e)
  BY <1>1, <1>2, ScheduleOwned
<1>4. PICK a, i, s : a = o.active /\ i = o.inactive /\ s = o.snapshots
  OBVIOUS
<1>5. Owned(a, i, s) /\ Right(a, c, e)
  BY <1>3, <1>4 DEF Scheduled
<1>6. UNCHANGED <<edb_id_map, next_db_id, creator>> /\ updates < MaxUpdates
  BY DEF Update
<1>7. Creators'
  BY <1>6 DEF Creators, Inv
<1>8. CASE a = NoCtx
  <2>1. Owned(a, i, s)'
    BY <1>2, <1>4, <1>5, <1>6, <1>8, OwnedStays
  <2>2. Rest'
    BY <1>2, <1>4, <1>6, <1>8, InvRest DEF Rest
  <2>3. active' = a /\ inactive' = i /\ snapshots' = s
    BY <1>2, <1>4, <1>8
  <2>4. Inv'
    BY <1>7, <2>1, <2>2, <2>3, InvFromOwned
  <2> QED BY <1>2, <1>3, <2>4 DEF Scheduled
<1>9. CASE a # NoCtx
  <2> DEFINE u == <<c, updates + 1>>
  <2>1. Current(a) /\ a.edb = e /\ a.client = c /\ c \notin DOMAIN i
    BY <1>5, <1>9 DEF Owned, Right
  <2>2. u \in Updates /\ updates + 1 \in 0..MaxUpdates
    BY <1>6, EnclaveContextsAssumption, InvRest DEF Rest, Updates
  <2>3. active' = [a EXCEPT !.log = @ \cup {u}] /\ inactive' = i /\ snapshots' = s
    BY <1>2, <1>4, <1>9
  <2>4. acked \in [Edbs -> SUBSET Updates] /\ acked' = [acked EXCEPT ![e] = @ \cup {u}]
    BY <1>2, <1>4, <1>9, InvRest DEF Rest
  <2>5. Rest'
    <3>1. acked' \in [Edbs -> SUBSET Updates]
      BY <2>2, <2>4
    <3>2. updates' \in 0..MaxUpdates
      BY <1>2, <1>4, <1>9, <2>2
    <3> QED BY <1>6, <3>1, <3>2, InvRest DEF Rest
  <2> HIDE DEF u
  <2>6. PICK v : v = u
    OBVIOUS
  <2>7. /\ acked'[e] = acked[e] \cup {v}
        /\ \A f \in Edbs \ {e} : acked'[f] = acked[f]
    BY <2>4, <2>6
  <2>8. /\ active' \in Ctx /\ active'.client = c /\ active'.edb = e
        /\ active'.log = a.log \cup {v}
    BY <2>1, <2>2, <2>3, <2>6 DEF Current, Ctx
  <2>9. active' # NoCtx /\ Current(active)'
    BY <1>1, <1>6, <2>1, <2>7, <2>8, ContextDistinct DEF Current
  <2>10. \A k \in DOMAIN i : i[k].edb # e
    BY <1>1, <1>5, <2>1 DEF Owned, Cache, Current
  <2>11. Cache(i)'
    BY <1>5, <1>6, <2>7, <2>10 DEF Owned, Cache, Current
  <2>12. Sealed(s)'
    BY <1>5, <1>6, <2>7 DEF Owned, Sealed
  <2>13. \A f \in Edbs : f # e /\ (\A k \in DOMAIN i : i[k].edb # f) => s[f].log = acked'[f]
    BY <1>5, <2>1, <2>7 DEF Owned, Kept
  <2>14. Kept(active, i, s)'
    BY <2>8, <2>13 DEF Kept
  <2>15. Owned(active, inactive, snapshots)'
    BY <2>1, <2>3, <2>8, <2>9, <2>11, <2>12, <2>14 DEF Owned
  <2>16. Inv'
    BY <1>7, <2>5, <2>15, InvFromOwned
  <2> QED BY <1>2, <1>3, <2>16 DEF Scheduled
<1> QED BY <1>8, <1>9

(* SHUTDOWN seals the context it has brought up.                           *)
LEMMA ShutdownInv ==
  ASSUME Inv, NEW c \in Clients, Shutdown(c)
  PROVE  Inv' /\ \A f \in Edbs : snapshots[f].log \subseteq snapshots'[f].log
<1>1. PICK e \in Edbs : e = edb_id_map[c] /\ creator[e] = c
  BY ConnectedCreator DEF Shutdown
<1>2. PICK o \in Outcomes(c, e, FALSE) :
        /\ active' = o.active /\ inactive' = o.inactive
        /\ IF o.active = NoCtx THEN snapshots' = o.snapshots
           ELSE snapshots' \in Persisted(o, e)
  BY <1>1 DEF Shutdown
<1>3. Scheduled(o, c, e)
  BY <1>1, <1>2, ScheduleOwned
<1>4. PICK a, i, s : a = o.active /\ i = o.inactive /\ s = o.snapshots
  OBVIOUS
<1>5. Owned(a, i, s) /\ Right(a, c, e)
  BY <1>3, <1>4 DEF Scheduled
<1>6. UNCHANGED <<edb_id_map, next_db_id, creator, updates, acked>>
  BY DEF Shutdown
<1>7. Rest' /\ Creators'
  BY <1>6, InvRest DEF Rest, Creators, Inv
<1>8. PICK t : t = snapshots'
  OBVIOUS
<1>9. Sealed(t) /\ Kept(a, i, t) /\ \A f \in Edbs : s[f].log \subseteq t[f].log
  <2>1. CASE a = NoCtx
    BY <1>2, <1>4, <1>5, <1>8, <2>1 DEF Owned
  <2>2. CASE a # NoCtx
    <3>1. Current(a) /\ a.edb = e
      BY <1>5, <2>2 DEF Owned, Right
    <3>2. t = [s EXCEPT ![e] = a]
      BY <1>2, <1>4, <1>8, <2>2, <3>1 DEF Persisted
    <3>3. s \in [Edbs -> Ctx] /\ t \in [Edbs -> Ctx] /\ t[e] = a
          /\ \A f \in Edbs \ {e} : t[f] = s[f]
      BY <1>5, <3>1, <3>2 DEF Owned, Sealed, Current
    <3>4. Sealed(t)
      BY <1>5, <3>1, <3>3 DEF Owned, Sealed, Current
    <3>5. Kept(a, i, t)
      BY <1>5, <3>1, <3>3 DEF Owned, Kept
    <3>6. s[e].log \subseteq t[e].log
      BY <1>5, <3>1, <3>3, ContextDistinct DEF Owned, Sealed, Current
    <3> QED BY <3>3, <3>4, <3>5, <3>6
  <2> QED BY <2>1, <2>2
<1>10. Owned(a, i, t)
  BY <1>5, <1>9 DEF Owned
<1>11. Owned(a, i, t)'
  BY <1>6, <1>10, OwnedStays
<1>12. Inv'
  BY <1>2, <1>4, <1>7, <1>8, <1>11, InvFromOwned
<1> QED BY <1>3, <1>4, <1>8, <1>9, <1>12 DEF Scheduled

(* The server has lost what was not sealed, and nothing else is expected.  *)
LEMMA RestartInv ==
  ASSUME Inv, Restart
  PROVE  Inv' /\ \A f \in Edbs : snapshots[f].log \subseteq snapshots'[f].log
<1>1. /\ active' = NoCtx /\ inactive' = Empty /\ snapshots' = snapshots
      /\ UNCHANGED <<next_db_id, creator, updates>>
      /\ edb_id_map' = [c \in {} |-> 0]
      /\ acked' = [e \in Edbs |-> snapshots[e].log]
  BY DEF Restart
<1>2. snapshots \in [Edbs -> Ctx]
  BY DEF Inv, TypeOK
<1>3. Rest'
  <2>1. \A e \in Edbs : snapshots[e].log \in SUBSET Updates
    BY <1>2 DEF Ctx
  <2> QED BY <1>1, <2>1, InvRest DEF Rest
<1>4. Creators'
  BY <1>1 DEF Creators, Inv
<1>5. NoCtx \in Ctx
  BY EnclaveContextsAssumption DEF NoCtx, Ctx
<1>6. Cache(Empty)'
  BY DEF Cache, Empty
<1>7. Sealed(snapshots)'
  BY <1>1 DEF Inv, Owned, Sealed
<1>8. Kept(active, inactive, snapshots)'
  BY <1>1 DEF Kept
<1>9. Owned(active, inactive, snapshots)'
  BY <1>1, <1>5, <1>6, <1>7, <1>8 DEF Owned
<1> QED BY <1>1, <1>3, <1>4, <1>9, InvFromOwned

(* A new client finds no context of its own in the enclave, and a new      *)
(* database none on disk.                                                  *)
LEMMA CreateInv ==
  ASSUME OneEdbPerClient, Inv, NEW c \in Clients, Create(c)
  PROVE  Inv' /\ \A f \in Edbs : snapshots[f].log \subseteq snapshots'[f].log
<1>1. PICK e \in Edbs : e = next_db_id /\ creator[e] = NoClient
  BY DEF Create, Inv, TypeOK, Creators, Edbs
<1>2. c # NoClient /\ \A f \in Edbs : creator[f] # c
  BY EnclaveContextsAssumption DEF Create, Inv, TypeOK, Range
<1>3. PICK o \in Outcomes(c, e, TRUE) :
        /\ active' = [o.active EXCEPT !.log = {}]
        /\ inactive' = o.inactive /\ snapshots' = o.snapshots
  BY <1>1 DEF Create
<1>4. ~(active.client = c /\ active.edb = e)
  BY <1>1, <1>2, ContextDistinct DEF Inv, Owned, Current
<1>5. PICK ev \in Evictions :
        o = [active |-> BroughtUp(ev, c, e, TRUE), inactive |-> Drop(ev.inactive, c),
             snapshots |-> ev.snapshots]
  BY <1>4 DEF Outcomes
<1>6. Evicted(ev)
  BY EvictionOwned
<1>7. PICK i, s : i = ev.inactive /\ s = ev.snapshots
  OBVIOUS
<1>8. Owned(NoCtx, i, s) /\ Cache(i)
  BY <1>6, <1>7 DEF Evicted, Owned
<1>9. c \notin DOMAIN i /\ \A k \in DOMAIN i : i[k].edb # e
  BY <1>1, <1>2, <1>8, EnclaveContextsAssumption DEF Cache, Current
<1>10. s[e].log = acked[e] /\ s[e] = NoCtx
  BY <1>1, <1>8, <1>9, ContextDistinct, EnclaveContextsAssumption DEF Owned, Kept, Sealed
<1>11. PICK x : x = [client |-> c, edb |-> e, log |-> {}]
  OBVIOUS
<1>12. active' = x /\ inactive' = Drop(i, c) /\ snapshots' = s
  BY <1>3, <1>5, <1>7, <1>9, <1>11, SMTT(30) DEF BroughtUp
<1>13. /\ creator' = [creator EXCEPT ![e] = c] /\ next_db_id' = e + 1
       /\ edb_id_map' = Put(edb_id_map, c, e) /\ UNCHANGED <<updates, acked>>
  BY <1>1 DEF Create
<1>14. creator \in [Edbs -> Clients \cup {NoClient}]
  BY DEF Inv, TypeOK
<1>15. creator'[e] = c /\ \A f \in Edbs \ {e} : creator'[f] = creator[f]
  BY <1>13, <1>14
<1>16. Rest'
  <2>1. next_db_id' \in 1..(MaxEdbs + 1)
    BY <1>13, EnclaveContextsAssumption DEF Edbs
  <2>2. edb_id_map' \in [DOMAIN edb_id_map' -> Edbs] /\ DOMAIN edb_id_map' \subseteq Clients
    BY <1>13, InvRest, PutMap
  <2>3. creator' \in [Edbs -> Clients \cup {NoClient}]
    BY <1>13, <1>14
  <2> QED BY <1>13, <2>1, <2>2, <2>3, InvRest DEF Rest
<1>17. Creators'
  <2>1. \A f, g \in Edbs : creator'[f] = creator'[g] /\ creator'[f] # NoClient => f = g
    BY <1>2, <1>15 DEF Inv, Creators
  <2>2. \A f \in Edbs : f >= e + 1 => f >= e /\ f # e
    BY DEF Edbs
  <2>3. \A f \in Edbs : f >= e + 1 => creator'[f] = NoClient
    BY <1>1, <1>15, <2>2 DEF Inv, Creators
  <2>4. \A k \in DOMAIN edb_id_map : edb_id_map[k] # e
    BY <1>1, EnclaveContextsAssumption, ConnectedCreator
  <2>5. \A k \in DOMAIN edb_id_map : creator'[edb_id_map[k]] = k
    BY <1>15, <2>4, ConnectedCreator
  <2>6. \A k \in DOMAIN edb_id_map' : creator'[edb_id_map'[k]] = k
    BY <1>13, <1>15, <2>5, InvRest, PutMap
  <2> QED BY <1>13, <2>1, <2>3, <2>6 DEF Creators
<1>18. acked'[e] = {} /\ acked' = acked
  BY <1>10, <1>13, ContextDistinct
<1>19. x \in Ctx /\ x.client = c /\ x.edb = e /\ x.log = {}
  BY <1>1, <1>11 DEF Ctx, Edbs
<1>20. Current(x)'
  BY <1>15, <1>18, <1>19 DEF Current
<1>21. Cache(i)'
  BY <1>8, <1>9, <1>15, <1>18 DEF Cache, Current
<1>22. PICK j : j = Drop(i, c) /\ DOMAIN j = DOMAIN i /\ \A k \in DOMAIN i : j[k] = i[k]
  <2>1. DOMAIN Drop(i, c) = DOMAIN i \ {c}
    BY DropFacts
  <2>2. \A k \in DOMAIN i \ {c} : Drop(i, c)[k] = i[k]
    BY DropFacts
  <2> QED BY <1>9, <2>1, <2>2
<1>23. Cache(j)'
  BY <1>9, <1>21, <1>22 DEF Cache, Drop, Restrict
<1>24. Sealed(s)'
  BY <1>8, <1>10, <1>15, <1>18 DEF Owned, Sealed
<1>25. \A f \in Edbs : f # e /\ (\A k \in DOMAIN i : i[k].edb # f) => s[f].log = acked[f]
  BY <1>8, ContextDistinct DEF Owned, Kept
<1>26. Kept(x, j, s)'
  BY <1>18, <1>19, <1>22, <1>25 DEF Kept
<1>27. Owned(x, j, s)'
  BY <1>9, <1>19, <1>20, <1>22, <1>23, <1>24, <1>26 DEF Owned
<1>28. Inv'
  BY <1>12, <1>16, <1>17, <1>22, <1>27, InvFromOwned
<1> QED BY <1>6, <1>7, <1>12, <1>28 DEF Evicted

LEMMA StepInv ==
  ASSUME OneEdbPerClient, Inv, [Next]_vars
  PROVE  Inv' /\ \A f \in Edbs : snapshots[f].log \subseteq snapshots'[f].log
<1>1. CASE UNCHANGED vars
  <2>1. Inv'
    BY <1>1 DEF vars, Inv, TypeOK, Creators, Owned, Cache, Sealed, Kept, Current
  <2> QED BY <1>1, <2>1 DEF vars
<1> QED BY <1>1, CreateInv, SelectInv, ResumeInv, UpdateInv, ShutdownInv, RestartInv DEF Next

THEOREM AlwaysInv ==
  ASSUME OneEdbPerClient
  PROVE  Spec => []Inv
<1>1. Inv /\ [Next]_vars => Inv'
  BY StepInv
<1> QED BY <1>1, InitInv, PTL DEF Spec

-----------------------------------------------------------------------------
(* Every variable keeps its type.                                          *)
THEOREM ContextsTypeCorrect ==
  ASSUME OneEdbPerClient
  PROVE  Spec => []TypeOK
<1>1. Inv => TypeOK
  BY DEF Inv
<1> QED BY <1>1, AlwaysInv, PTL

(* What a request of c may be served with.                                 *)
LEMMA ServedRight ==
  ASSUME Inv, NEW c \in DOMAIN edb_id_map, NEW o \in Outcomes(c, edb_id_map[c], FALSE)
  PROVE  /\ Right(o.active, c, edb_id_map[c])
         /\ o.active # NoCtx => o.active.log = acked[edb_id_map[c]]
<1>1. PICK e \in Edbs : e = edb_id_map[c] /\ creator[e] = c /\ c \in Clients
  BY ConnectedCreator
<1>2. Scheduled(o, c, e)
  BY <1>1, ScheduleOwned
<1> QED BY <1>1, <1>2 DEF Scheduled, Right, Owned, Current

(* Whatever was evicted for it, a request is served with the context of    *)
(* the database its client is connected to.                                *)
THEOREM AlwaysServedByOwnContext ==
  ASSUME OneEdbPerClient
  PROVE  Spec => []ServedByOwnContext
<1>1. Inv => ServedByOwnContext
  <2> SUFFICES ASSUME Inv, NEW c \in DOMAIN edb_id_map, NEW x \in Served(c)
               PROVE  x.edb = edb_id_map[c]
    BY DEF ServedByOwnContext
  <2>1. PICK o \in Outcomes(c, edb_id_map[c], FALSE) : x = o.active /\ x # NoCtx
    BY DEF Served
  <2> QED BY <2>1, ServedRight DEF Right
<1> QED BY <1>1, AlwaysInv, PTL

(* That context has every update that was acknowledged.                    *)
THEOREM AlwaysServedUpToDate ==
  ASSUME OneEdbPerClient
  PROVE  Spec => []ServedUpToDate
<1>1. Inv => ServedUpToDate
  BY ServedRight, ZenonT(60) DEF ServedUpToDate, Served
<1> QED BY <1>1, AlwaysInv, PTL

(* No database whose updates were acknowledged is left without a context   *)
(* to bring up, whatever is evicted, sealed or lost with the server.       *)
THEOREM ClientNeverStranded ==
  ASSUME OneEdbPerClient
  PROVE  Spec => []NeverStranded
<1>1. Inv => NeverStranded
  BY ServedRight DEF NeverStranded, Right
<1> QED BY <1>1, AlwaysInv, PTL

(* The active context and those in the cache are of different databases.   *)
THEOREM AlwaysOneContextPerEdb ==
  ASSUME OneEdbPerClient
  PROVE  Spec => []OneContextPerEdb
<1>1. Inv => OneContextPerEdb
  BY DEF OneContextPerEdb, Inv, Owned, Cache, Current, Creators
<1> QED BY <1>1, AlwaysInv, PTL

(* Sealing never replaces a context by an older one.                       *)
THEOREM SealsNeverForget ==
  ASSUME OneEdbPerClient
  PROVE  Spec => SealNeverForgets
<1>1. Inv /\ [Next]_vars => [\A e \in Edbs : snapshots[e].log \subseteq snapshots'[e].log]_vars
  BY StepInv
<1> QED BY <1>1, AlwaysInv, PTL DEF Spec, SealNeverForgets

-----------------------------------------------------------------------------
(* The size of the cache, however clients and databases are related.       *)
CacheSize == IsFiniteSet(DOMAIN inactive) /\ CacheBounded

Bounded(i) ==
  IsFiniteSet(DOMAIN i) /\ Cardinality(DOMAIN i) <= kInactiveContextCacheMax

LEMMA DropBounded ==
  ASSUME NEW i, NEW k, Bounded(i)
  PROVE  Bounded(Drop(i, k))
<1>1. DOMAIN Drop(i, k) \subseteq DOMAIN i
  BY DropFacts
<1>2. IsFiniteSet(DOMAIN Drop(i, k))
  BY <1>1, FS_Subset DEF Bounded
<1>3. Cardinality(DOMAIN Drop(i, k)) <= Cardinality(DOMAIN i)
  BY <1>1, FS_Subset DEF Bounded
<1>4. Cardinality(DOMAIN Drop(i, k)) \in Nat /\ Cardinality(DOMAIN i) \in Nat
  BY <1>2, FS_CardinalityType DEF Bounded
<1> QED BY <1>2, <1>3, <1>4, EnclaveContextsAssumption DEF Bounded

LEMMA EvictionBounded ==
  ASSUME CacheSize, NEW ev \in Evictions
  PROVE  Bounded(ev.inactive)
<1> DEFINE D == DOMAIN inactive
           C == DOMAIN Cached
<1>1. PICK k : C \in {D, D \cup {k}}
  BY DEF Cached, Put
<1>2. IsFiniteSet(D) /\ Cardinality(D) \in Nat /\ Cardinality(D) <= kInactiveContextCacheMax
  BY FS_CardinalityType DEF CacheSize, CacheBounded
<1>3. IsFiniteSet(D \cup {k}) /\ Cardinality(D \cup {k}) <= Cardinality(D) + 1
  <2>1. IsFiniteSet(D \cup {k})
    BY <1>2, FS_AddElement
  <2>2. Cardinality(D \cup {k}) = IF k \in D THEN Cardinality(D) ELSE Cardinality(D) + 1
    BY <1>2, FS_AddElement
  <2> QED BY <1>2, <2>1, <2>2
<1>4. IsFiniteSet(C)
  BY <1>1, <1>2, <1>3
<1>5. Cardinality(C) \in Nat
  BY <1>4, FS_CardinalityType
<1>6. Cardinality(C) <= kInactiveContextCacheMax + 1
  BY <1>1, <1>2, <1>3, <1>5, EnclaveContextsAssumption
<1>7. CASE Cardinality(C) <= kInactiveContextCacheMax /\ ev.inactive = Cached
  BY <1>4, <1>7 DEF Bounded
<1>8. ASSUME NEW v \in C, ev.inactive = Drop(Cached, v)
      PROVE  Bounded(ev.inactive)
  <2>1. DOMAIN ev.inactive = C \ {v}
    BY <1>8, DropFacts
  <2>2. IsFiniteSet(C \ {v}) /\ Cardinality(C \ {v}) = Cardinality(C) - 1
    BY <1>4, FS_RemoveElement
  <2> QED BY <1>5, <1>6, <2>1, <2>2, EnclaveContextsAssumption DEF Bounded
<1> QED BY <1>7, <1>8 DEF Evictions

LEMMA OutcomeBounded ==
  ASSUME CacheSize, NEW c, NEW e, NEW create, NEW o \in Outcomes(c, e, create)
  PROVE  Bounded(o.inactive)
<1>1. Bounded(inactive)
  BY DEF CacheSize, CacheBounded, Bounded
<1>2. ASSUME NEW ev \in Evictions, o.inactive = Drop(ev.inactive, c)
      PROVE  Bounded(o.inactive)
  BY <1>2, EvictionBounded, DropBounded
<1> QED BY <1>1, <1>2 DEF Outcomes

(* The enclave never holds more than kInactiveContextCacheMax contexts     *)
(* besides the active one.                                                 *)
THEOREM CacheAlwaysBounded == Spec => []CacheBounded
<1>1. Init => CacheSize
  BY FS_EmptySet, EnclaveContextsAssumption DEF Init, Empty, CacheSize, CacheBounded
<1>2. CacheSize /\ [Next]_vars => CacheSize'
  <2> SUFFICES ASSUME CacheSize, [Next]_vars PROVE Bounded(inactive')
    BY DEF CacheSize, CacheBounded, Bounded
  <2>1. CASE UNCHANGED vars
    BY <2>1 DEF vars, CacheSize, CacheBounded, Bounded
  <2>2. CASE Restart
    BY <2>2, FS_EmptySet, EnclaveContextsAssumption DEF Restart, Empty, Bounded
  <2>3. CASE \E c, e, create : \E o \in Outcomes(c, e, create) : inactive' = o.inactive
    BY <2>3, OutcomeBounded
  <2> QED BY <2>1, <2>2, <2>3 DEF Next, Create, Select, Resume, Schedule, Update, Shutdown
<1>3. CacheSize => CacheBounded
  BY DEF CacheSize
<1> QED BY <1>1, <1>2, <1>3, PTL DEF Spec
=============================================================================
