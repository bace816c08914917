----------------------------- MODULE DatabasesProofs -----------------------------
(***************************************************************************)
(* The life of databases for any numbers of clients, databases and         *)
(* connections: no number is given twice, deleted databases stay deleted,  *)
(* and what a sealed context refers to is stored.  The last part is about  *)
(* what the gateway's catalogs know.                                       *)
(*                                                                         *)
(* The first three rest on two facts.  A client is connected at most once  *)
(* in the life of a server process (OneInit), so a database stays in       *)
(* edb_id_map once it is there; and the enclave only has contexts of       *)
(* databases in edb_id_map (Contexts), so no other database's files are    *)
(* ever written.                                                           *)
(***************************************************************************)
EXTENDS Databases, SequenceTheorems, TLAPS

USE EnclaveContextsAssumption, DatabasesAssumption

Bound == Range(edb_id_map)

-----------------------------------------------------------------------------
(* The enclave.                                                            *)

(* A context that is one: NoCtx is not.                                    *)
Genuine(x) == x \in Ctx /\ x.client \in Clients /\ x.edb \in Edbs

(* Active context, cache and snapshots hold genuine contexts, those in the *)
(* enclave of databases in B, and a sealed one lies with its own database. *)
Contexts(a, i, s, B) ==
  /\ a # NoCtx => Genuine(a) /\ a.edb \in B
  /\ i = [c \in DOMAIN i |-> i[c]] /\ DOMAIN i \subseteq Clients
  /\ \A c \in DOMAIN i : Genuine(i[c]) /\ i[c].edb \in B
  /\ s \in [Edbs -> Ctx]
  /\ \A e \in Edbs : s[e] # NoCtx => Genuine(s[e]) /\ s[e].edb = e

Enclave ==
  /\ Contexts(active, inactive, snapshots, Bound)
  /\ edb_id_map \in [DOMAIN edb_id_map -> Edbs] /\ DOMAIN edb_id_map \subseteq Clients
  /\ next_db_id \in 1..(MaxEdbs + 1)
  /\ creator \in [Edbs -> Clients \cup {NoClient}]
  /\ updates \in 0..MaxUpdates
  /\ acked \in [Edbs -> SUBSET Updates]

-----------------------------------------------------------------------------
(* The calls.                                                              *)

Call == [client : Clients, kind : Kinds, edb : 0..MaxEdbs, live : BOOLEAN]
Answer == [client : Clients, kind : Kinds, ok : BOOLEAN, edb : 0..MaxEdbs,
           update : Updates \cup {NoUpdate}]

Shapes ==
  /\ sessions \in [Clients -> [pc : {"none", "init", "open", "closed"}, edb : 0..MaxEdbs]]
  /\ DOMAIN catalog \subseteq Edbs /\ catalog \in [DOMAIN catalog -> SUBSET Updates]
  /\ deleting \in 0..MaxEdbs
  /\ process \in {"up", "flushing", "destroying", "exiting", "gone"}
  /\ flushed \subseteq Clients
  /\ saved \in [Edbs -> SUBSET Updates]

(* A client that waits to be connected is not yet, and waits once; M is    *)
(* the set of clients in edb_id_map.                                       *)
Initial(x) == x.kind \in {"CREATE", "RESUME"}
OneInit(q, M) ==
  /\ \A i \in DOMAIN q : Initial(q[i]) =>
       q[i].client \notin M /\ sessions[q[i].client].pc # "none"
  /\ \A i, j \in DOMAIN q :
       Initial(q[i]) /\ Initial(q[j]) /\ q[i].client = q[j].client => i = j
  /\ \A c \in M : sessions[c].pc # "none"

(* What the handlers read from a request or a reply is there.              *)
Asked(x) == x \in Call /\ (x.kind = "RESUME" => x.edb \in Edbs)
Answered(r) ==
  /\ r \in Answer
  /\ r.ok /\ Initial(r) => r.edb \in Edbs
  /\ r.ok /\ r.kind = "UPDATE" => r.update \in Updates

Calls ==
  /\ queue \in Seq(Call) /\ \A i \in DOMAIN queue : Asked(queue[i])
  /\ \A r \in replies : Answered(r)
  /\ OneInit(queue, DOMAIN edb_id_map)

-----------------------------------------------------------------------------
(* The disk.                                                               *)

(* Numbers that were never given out have left no trace.                   *)
Fresh ==
  \A e \in Edbs : e >= next_db_id =>
    /\ creator[e] = NoClient /\ snapshots[e] = NoCtx
    /\ e \notin Bound /\ e \notin deleted /\ e # deleting

Gone == \A e \in deleted \ zombies : snapshots[e] = NoCtx /\ files[e] = {} /\ e \notin Bound

StoredIn(s, z, E, F) ==
  \A e \in Edbs \ z : /\ s[e].log \subseteq F[e]
                      /\ e \in DOMAIN E => s[e].log \subseteq E[e]

Blobs(E, F) ==
  /\ DOMAIN E \subseteq Edbs /\ E \in [DOMAIN E -> SUBSET Updates]
  /\ F \in [Edbs -> SUBSET Updates]

Disk ==
  /\ Blobs(edbs, files) /\ Bound \subseteq DOMAIN edbs
  /\ torn \in BOOLEAN /\ deleted \subseteq Edbs
  /\ ~torn => Fresh /\ Gone /\ StoredIn(snapshots, zombies, edbs, files)

Inv == Shapes /\ Enclave /\ Calls /\ Disk

-----------------------------------------------------------------------------
LEMMA NoCtxFacts ==
  NoCtx \in Ctx /\ NoCtx.edb \notin Edbs /\ NoCtx.client \notin Clients /\ NoCtx.log = {}
BY DEF NoCtx, Ctx, Edbs

LEMMA TypesFromInv == Inv => DbTypeOK
<1> SUFFICES ASSUME Inv PROVE DbTypeOK
  OBVIOUS
<1>1. TypeOK
  <2>1. active \in Ctx /\ snapshots \in [Edbs -> Ctx]
    BY NoCtxFacts DEF Inv, Enclave, Contexts, Genuine
  <2>2. \A c \in DOMAIN inactive : inactive[c] \in Ctx \ {NoCtx}
    BY NoCtxFacts DEF Inv, Enclave, Contexts, Genuine
  <2>3. inactive \in [DOMAIN inactive -> Ctx \ {NoCtx}] /\ DOMAIN inactive \subseteq Clients
    BY <2>2 DEF Inv, Enclave, Contexts
  <2> QED BY <2>1, <2>3 DEF TypeOK, Inv, Enclave
<1>2. queue \in Seq([client : Clients, kind : Kinds, edb : 0..MaxEdbs, live : BOOLEAN])
  BY DEF Inv, Calls, Call
<1>3. replies \subseteq [client : Clients, kind : Kinds, ok : BOOLEAN, edb : 0..MaxEdbs,
                         update : Updates \cup {NoUpdate}]
  BY DEF Inv, Calls, Answered, Answer
<1> QED BY <1>1, <1>2, <1>3 DEF DbTypeOK, Inv, Shapes, Disk, Blobs

LEMMA InitInv == DbInit => Inv
<1> SUFFICES ASSUME DbInit PROVE Inv
  OBVIOUS
<1> USE DEF DbInit, Init
<1>1. Bound = {}
  BY DEF Bound, Range
<1>2. Enclave
  <2>1. Contexts(active, inactive, snapshots, Bound)
    BY NoCtxFacts DEF Contexts, Empty
  <2> QED BY <2>1 DEF Enclave
<1>3. Shapes
  BY DEF Shapes
<1>4. Calls
  <2>1. queue = <<>> /\ DOMAIN queue = {} /\ queue \in Seq(Call)
    OBVIOUS
  <2> QED BY <2>1 DEF Calls, OneInit
<1>5. Disk
  <2>1. Fresh
    BY <1>1 DEF Fresh, Edbs
  <2>2. Gone
    BY DEF Gone
  <2>3. StoredIn(snapshots, zombies, edbs, files)
    BY NoCtxFacts DEF StoredIn
  <2>4. Blobs(edbs, files)
    BY DEF Blobs
  <2> QED BY <1>1, <2>1, <2>2, <2>3, <2>4 DEF Disk
<1> QED BY <1>2, <1>3, <1>4, <1>5 DEF Inv

-----------------------------------------------------------------------------
(* What the server asks of the enclave.                                    *)

IsDrop(j, i, k) ==
  /\ DOMAIN j = DOMAIN i \ {k} /\ \A c \in DOMAIN j : j[c] = i[c]
  /\ j = [c \in DOMAIN j |-> j[c]]
IsPut(g, f, k, v) ==
  /\ DOMAIN g = DOMAIN f \cup {k} /\ g[k] = v
  /\ \A c \in DOMAIN f : c # k => g[c] = f[c]
  /\ g = [c \in DOMAIN g |-> g[c]]

LEMMA DropFacts ==
  ASSUME NEW i, NEW k PROVE IsDrop(Drop(i, k), i, k)
BY DEF Drop, Restrict, IsDrop

LEMMA PutFacts ==
  ASSUME NEW f, NEW k, NEW v PROVE IsPut(Put(f, k, v), f, k, v)
BY DEF Put, IsPut

LEMMA DropContexts ==
  ASSUME NEW a, NEW i, NEW s, NEW B, NEW k, Contexts(a, i, s, B)
  PROVE  Contexts(a, Drop(i, k), s, B)
<1>1. PICK j : j = Drop(i, k)
  OBVIOUS
<1>2. IsDrop(j, i, k)
  BY <1>1, DropFacts
<1> QED BY <1>1, <1>2 DEF Contexts, IsDrop

LEMMA CachedContexts ==
  ASSUME NEW B, Contexts(active, inactive, snapshots, B)
  PROVE  Contexts(NoCtx, Cached, snapshots, B)
<1>1. CASE active = NoCtx
  BY <1>1 DEF Cached, Contexts
<1>2. CASE active # NoCtx
  <2>1. PICK k, j : k = active.client /\ j = Put(inactive, k, active)
    OBVIOUS
  <2>2. IsPut(j, inactive, k, active)
    BY <2>1, PutFacts
  <2>3. Cached = j /\ k \in Clients
    BY <1>2, <2>1 DEF Cached, Contexts, Genuine
  <2> QED BY <1>2, <2>2, <2>3 DEF Contexts, IsPut
<1> QED BY <1>1, <1>2

(* An eviction seals the victim over the context of its own database.      *)
LEMMA EvictionContexts ==
  ASSUME NEW B, Contexts(active, inactive, snapshots, B), NEW ev \in Evictions
  PROVE  /\ Contexts(NoCtx, ev.inactive, ev.snapshots, B)
         /\ \A f \in Edbs : ev.snapshots[f] = snapshots[f] \/ f \in B
<1>1. PICK i : i = Cached
  OBVIOUS
<1>2. Contexts(NoCtx, i, snapshots, B)
  BY <1>1, CachedContexts
<1>3. CASE ev = [inactive |-> i, snapshots |-> snapshots]
  BY <1>2, <1>3
<1>4. ASSUME NEW v \in DOMAIN i,
             ev = [inactive |-> Drop(i, v),
                   snapshots |-> [snapshots EXCEPT ![i[v].edb] = i[v]]]
      PROVE  /\ Contexts(NoCtx, ev.inactive, ev.snapshots, B)
             /\ \A f \in Edbs : ev.snapshots[f] = snapshots[f] \/ f \in B
  <2>1. PICK x, t : x = i[v] /\ t = ev.snapshots
    OBVIOUS
  <2>2. Genuine(x) /\ x.edb \in B /\ snapshots \in [Edbs -> Ctx]
    BY <1>2, <2>1 DEF Contexts
  <2>3. t = [snapshots EXCEPT ![x.edb] = x]
    BY <1>4, <2>1
  <2>4. t[x.edb] = x /\ t \in [Edbs -> Ctx] /\ \A f \in Edbs : f # x.edb => t[f] = snapshots[f]
    BY <2>2, <2>3 DEF Genuine
  <2>5. Contexts(NoCtx, i, t, B)
    BY <1>2, <2>2, <2>4 DEF Contexts
  <2>6. Contexts(NoCtx, Drop(i, v), t, B)
    BY <2>5, DropContexts
  <2> QED BY <1>4, <2>1, <2>2, <2>4, <2>6
<1> QED BY <1>1, <1>3, <1>4 DEF Evictions

(* ecall_schedule_context for database e adds a context of e at most, and  *)
(* writes no snapshot of a database the enclave had no context of.         *)
Left(o, B, e) ==
  /\ Contexts(o.active, o.inactive, o.snapshots, B \cup {e})
  /\ \A f \in Edbs : o.snapshots[f] = snapshots[f] \/ f \in B

LEMMA OutcomeLeft ==
  ASSUME NEW B, Contexts(active, inactive, snapshots, B),
         NEW c \in Clients, NEW e \in Edbs, NEW create \in BOOLEAN,
         NEW o \in Outcomes(c, e, create)
  PROVE  Left(o, B, e)
<1>1. CASE o = [active |-> active, inactive |-> inactive, snapshots |-> snapshots]
  BY <1>1 DEF Left, Contexts
<1>2. ASSUME NEW ev \in Evictions,
             o = [active |-> BroughtUp(ev, c, e, create), inactive |-> Drop(ev.inactive, c),
                  snapshots |-> ev.snapshots]
      PROVE  Left(o, B, e)
  <2>1. PICK i, s : i = ev.inactive /\ s = ev.snapshots
    OBVIOUS
  <2>2. Contexts(NoCtx, i, s, B)
    BY <2>1, EvictionContexts
  <2>3. \A f \in Edbs : s[f] = snapshots[f] \/ f \in B
    BY <2>1, EvictionContexts
  <2>4. PICK a : a = BroughtUp(ev, c, e, create)
    OBVIOUS
  <2>5. a # NoCtx => Genuine(a) /\ a.edb \in B \cup {e}
    <3>1. CASE c \in DOMAIN i
      BY <2>1, <2>2, <2>4, <3>1 DEF BroughtUp, Contexts
    <3>2. CASE c \notin DOMAIN i /\ create
      BY <2>1, <2>4, <3>2 DEF BroughtUp, Genuine, Ctx, Edbs
    <3>3. CASE c \notin DOMAIN i /\ ~create
      BY <2>1, <2>2, <2>4, <3>3 DEF BroughtUp, Contexts
    <3> QED BY <3>1, <3>2, <3>3
  <2>6. Contexts(a, i, s, B \cup {e})
    BY <2>2, <2>5 DEF Contexts
  <2>7. Contexts(a, Drop(i, c), s, B \cup {e})
    BY <2>6, DropContexts
  <2> QED BY <1>2, <2>1, <2>3, <2>4, <2>7 DEF Left
<1> QED BY <1>1, <1>2 DEF Outcomes

LEMMA PersistedContexts ==
  ASSUME NEW o, NEW B, NEW e \in Edbs, e \in B,
         Contexts(o.active, o.inactive, o.snapshots, B), NEW t \in Persisted(o, e)
  PROVE  /\ Contexts(o.active, o.inactive, t, B)
         /\ \A f \in Edbs : t[f] = o.snapshots[f] \/ f \in B
<1>1. PICK a, i, s : a = o.active /\ i = o.inactive /\ s = o.snapshots
  OBVIOUS
<1>2. Contexts(a, i, s, B)
  BY <1>1
<1>3. ASSUME NEW x, Genuine(x), x.edb = e, t = [s EXCEPT ![e] = x]
      PROVE  Contexts(a, i, t, B) /\ \A f \in Edbs : t[f] = s[f] \/ f \in B
  <2>1. t[e] = x /\ t \in [Edbs -> Ctx] /\ \A f \in Edbs : f # e => t[f] = s[f]
    BY <1>2, <1>3 DEF Contexts, Genuine
  <2> QED BY <1>2, <1>3, <2>1 DEF Contexts
<1>4. CASE a # NoCtx /\ a.edb = e
  <2>1. t = [s EXCEPT ![e] = a] /\ Genuine(a)
    BY <1>1, <1>2, <1>4 DEF Persisted, Contexts
  <2> QED BY <1>1, <1>3, <1>4, <2>1
<1>5. CASE t = s
  BY <1>1, <1>2, <1>5
<1>6. ASSUME NEW k \in DOMAIN i, i[k].edb = e, t = [s EXCEPT ![e] = i[k]]
      PROVE  Contexts(a, i, t, B) /\ \A f \in Edbs : t[f] = s[f] \/ f \in B
  <2>1. Genuine(i[k])
    BY <1>2 DEF Contexts
  <2> QED BY <1>3, <1>6, <2>1
<1>7. CASE ~(a # NoCtx /\ a.edb = e)
  <2>1. t = s \/ \E k \in DOMAIN i : i[k].edb = e /\ t = [s EXCEPT ![e] = i[k]]
    BY <1>1, <1>7 DEF Persisted
  <2> QED BY <1>1, <1>5, <1>6, <2>1
<1> QED BY <1>4, <1>7

(* What every request leaves.                                              *)
Worked == Enclave' /\ \A f \in Edbs : snapshots'[f] = snapshots[f] \/ f \in Bound

LEMMA MapStays ==
  ASSUME edb_id_map' = edb_id_map
  PROVE  Bound' = Bound
BY DEF Bound, Range

LEMMA MapGrows ==
  ASSUME NEW c \in Clients, NEW e \in Edbs, Enclave, c \notin DOMAIN edb_id_map,
         edb_id_map' = Put(edb_id_map, c, e)
  PROVE  /\ Bound' = Bound \cup {e} /\ DOMAIN edb_id_map' = DOMAIN edb_id_map \cup {c}
         /\ edb_id_map' \in [DOMAIN edb_id_map' -> Edbs] /\ DOMAIN edb_id_map' \subseteq Clients
<1>1. IsPut(edb_id_map', edb_id_map, c, e)
  BY PutFacts
<1>2. Bound' = Bound \cup {e}
  BY <1>1 DEF Bound, Range, IsPut
<1> QED BY <1>1, <1>2 DEF IsPut, Enclave

LEMMA CreateWorked ==
  ASSUME Enclave, NEW c \in Clients, Create(c)
  PROVE  /\ Worked /\ next_db_id \in Edbs /\ Bound' = Bound \cup {next_db_id}
         /\ DOMAIN edb_id_map' = DOMAIN edb_id_map \cup {c}
<1>1. PICK e \in Edbs : e = next_db_id
  BY DEF Create, Enclave, Edbs
<1>2. PICK o \in Outcomes(c, e, TRUE) :
        /\ active' = [o.active EXCEPT !.log = {}]
        /\ inactive' = o.inactive /\ snapshots' = o.snapshots
  BY <1>1 DEF Create
<1>3. Left(o, Bound, e)
  BY <1>2, OutcomeLeft DEF Enclave
<1>4. PICK B, a, i, s : /\ B = Bound \cup {e} /\ a = o.active
                        /\ i = o.inactive /\ s = o.snapshots
  OBVIOUS
<1>5. Contexts(a, i, s, B)
  BY <1>3, <1>4 DEF Left
<1>6. PICK b : b = active'
  OBVIOUS
<1>7. b # NoCtx => Genuine(b) /\ b.edb \in B
  <2>1. CASE a = NoCtx
    BY <1>2, <1>4, <1>6, <2>1 DEF NoCtx
  <2>2. CASE a # NoCtx
    BY <1>2, <1>4, <1>5, <1>6, <2>2 DEF Contexts, Genuine, Ctx
  <2> QED BY <2>1, <2>2
<1>8. Contexts(b, i, s, B)
  BY <1>5, <1>7 DEF Contexts
<1>9. /\ Bound' = B /\ DOMAIN edb_id_map' = DOMAIN edb_id_map \cup {c}
      /\ edb_id_map' \in [DOMAIN edb_id_map' -> Edbs] /\ DOMAIN edb_id_map' \subseteq Clients
  BY <1>1, <1>4, MapGrows DEF Create
<1>10. /\ next_db_id' \in 1..(MaxEdbs + 1) /\ creator' \in [Edbs -> Clients \cup {NoClient}]
       /\ updates' \in 0..MaxUpdates /\ acked' \in [Edbs -> SUBSET Updates]
  BY <1>1 DEF Create, Enclave, Edbs
<1>11. Contexts(active, inactive, snapshots, Bound)'
  BY <1>2, <1>4, <1>6, <1>8, <1>9 DEF Contexts, Genuine
<1>12. Enclave'
  BY <1>9, <1>10, <1>11 DEF Enclave
<1> QED BY <1>1, <1>2, <1>3, <1>4, <1>9, <1>12 DEF Worked, Left

LEMMA ResumeWorked ==
  ASSUME Enclave, NEW c \in Clients, NEW e \in Edbs, c \notin DOMAIN edb_id_map, Resume(c, e)
  PROVE  /\ Worked /\ Bound' = Bound \cup {e}
         /\ DOMAIN edb_id_map' = DOMAIN edb_id_map \cup {c}
<1>1. PICK o \in Outcomes(c, e, FALSE) :
        active' = o.active /\ inactive' = o.inactive /\ snapshots' = o.snapshots
  BY DEF Resume, Schedule
<1>2. Left(o, Bound, e)
  BY <1>1, OutcomeLeft DEF Enclave
<1>3. /\ Bound' = Bound \cup {e} /\ DOMAIN edb_id_map' = DOMAIN edb_id_map \cup {c}
      /\ edb_id_map' \in [DOMAIN edb_id_map' -> Edbs] /\ DOMAIN edb_id_map' \subseteq Clients
  BY MapGrows DEF Resume
<1>4. Contexts(active, inactive, snapshots, Bound)'
  BY <1>1, <1>2, <1>3 DEF Left, Contexts, Genuine
<1>5. Enclave'
  BY <1>3, <1>4 DEF Enclave, Resume
<1> QED BY <1>1, <1>2, <1>3, <1>5 DEF Worked, Left

LEMMA UpdateWorked ==
  ASSUME Enclave, NEW c \in Clients, Update(c)
  PROVE  /\ Worked /\ Bound' = Bound
         /\ active' # NoCtx => <<c, updates'>> \in Updates
<1>1. PICK e \in Edbs : e = edb_id_map[c] /\ e \in Bound
  BY DEF Update, Enclave, Bound, Range
<1>2. PICK o \in Outcomes(c, e, FALSE) :
        /\ inactive' = o.inactive /\ snapshots' = o.snapshots
        /\ IF o.active = NoCtx
           THEN active' = NoCtx /\ UNCHANGED <<updates, acked>>
           ELSE /\ active' = [o.active EXCEPT !.log = @ \cup {<<c, updates + 1>>}]
                /\ updates' = updates + 1
                /\ acked' = [acked EXCEPT ![e] = @ \cup {<<c, updates + 1>>}]
  BY <1>1 DEF Update
<1>3. Left(o, Bound, e) /\ Bound \cup {e} = Bound
  BY <1>1, <1>2, OutcomeLeft, ZenonT(60) DEF Enclave
<1>4. PICK B, a, i, s : /\ B = Bound /\ a = o.active
                        /\ i = o.inactive /\ s = o.snapshots
  OBVIOUS
<1>5. Contexts(a, i, s, B)
  BY <1>3, <1>4 DEF Left
<1>6. PICK b : b = active'
  OBVIOUS
<1>7. PICK u : u = <<c, updates + 1>>
  OBVIOUS
<1>8. u \in Updates /\ updates + 1 \in 0..MaxUpdates
  BY <1>7 DEF Update, Enclave, Updates
<1>9. /\ b # NoCtx => Genuine(b) /\ b.edb \in B /\ <<c, updates'>> \in Updates
      /\ updates' \in 0..MaxUpdates /\ acked' \in [Edbs -> SUBSET Updates]
  <2>1. CASE a = NoCtx
    BY <1>2, <1>4, <1>6, <2>1 DEF Enclave
  <2>2. CASE a # NoCtx
    <3>1. b = [a EXCEPT !.log = @ \cup {u}] /\ Genuine(a) /\ a.edb \in B
      BY <1>2, <1>4, <1>5, <1>6, <1>7, <2>2 DEF Contexts
    <3>2. Genuine(b) /\ b.edb \in B
      BY <1>8, <3>1 DEF Genuine, Ctx
    <3>3. updates' = updates + 1 /\ acked' = [acked EXCEPT ![e] = @ \cup {u}]
      BY <1>2, <1>4, <1>7, <2>2
    <3>4. acked' \in [Edbs -> SUBSET Updates]
      BY <1>8, <3>3 DEF Enclave
    <3> QED BY <1>7, <1>8, <3>2, <3>3, <3>4
  <2> QED BY <2>1, <2>2
<1>10. Contexts(b, i, s, B)
  BY <1>5, <1>9 DEF Contexts
<1>11. Bound' = B
  BY <1>4, MapStays DEF Update
<1>12. Contexts(active, inactive, snapshots, Bound)'
  BY <1>2, <1>4, <1>6, <1>10, <1>11 DEF Contexts, Genuine
<1>13. Enclave'
  BY <1>9, <1>12 DEF Enclave, Update
<1> QED BY <1>2, <1>3, <1>4, <1>6, <1>9, <1>11, <1>13 DEF Worked, Left

LEMMA ShutdownWorked ==
  ASSUME Enclave, NEW c \in Clients, Shutdown(c)
  PROVE  Worked /\ Bound' = Bound /\ edb_id_map[c] \in Bound
<1>1. PICK e \in Edbs : e = edb_id_map[c] /\ e \in Bound
  BY DEF Shutdown, Enclave, Bound, Range
<1>2. PICK o \in Outcomes(c, e, FALSE) :
        /\ active' = o.active /\ inactive' = o.inactive
        /\ IF o.active = NoCtx THEN snapshots' = o.snapshots
           ELSE snapshots' \in Persisted(o, e)
  BY <1>1 DEF Shutdown
<1>3. Left(o, Bound, e) /\ Bound \cup {e} = Bound
  BY <1>1, <1>2, OutcomeLeft, ZenonT(60) DEF Enclave
<1>4. PICK B, t : B = Bound /\ t = snapshots'
  OBVIOUS
<1>5. /\ Contexts(o.active, o.inactive, t, B)
      /\ \A f \in Edbs : t[f] = snapshots[f] \/ f \in B
  <2>1. CASE o.active = NoCtx
    BY <1>2, <1>3, <1>4, <2>1 DEF Left
  <2>2. CASE o.active # NoCtx
    <3>1. t \in Persisted(o, e) /\ Contexts(o.active, o.inactive, o.snapshots, B) /\ e \in B
      BY <1>1, <1>2, <1>3, <1>4, <2>2 DEF Left
    <3>2. /\ Contexts(o.active, o.inactive, t, B)
          /\ \A f \in Edbs : t[f] = o.snapshots[f] \/ f \in B
      BY <3>1, PersistedContexts
    <3> QED BY <1>3, <1>4, <3>2 DEF Left
  <2> QED BY <2>1, <2>2
<1>6. Bound' = B
  BY <1>4, MapStays DEF Shutdown
<1>7. Contexts(active, inactive, snapshots, Bound)'
  BY <1>2, <1>4, <1>5, <1>6 DEF Contexts, Genuine
<1>8. Enclave'
  BY <1>7 DEF Enclave, Shutdown
<1> QED BY <1>1, <1>4, <1>5, <1>6, <1>8 DEF Worked

-----------------------------------------------------------------------------
(* The queue and the replies.                                              *)

IsTail(t, q) ==
  /\ t \in Seq(Call) /\ 1 \in DOMAIN q /\ Head(q) = q[1]
  /\ \A i \in DOMAIN t : i + 1 \in DOMAIN q /\ t[i] = q[i + 1] /\ i \in Nat \ {0}

LEMMA TailFacts ==
  ASSUME NEW q \in Seq(Call), q # <<>>
  PROVE  IsTail(Tail(q), q)
<1>1. Tail(q) \in Seq(Call) /\ Len(Tail(q)) = Len(q) - 1 /\ Len(q) \in Nat \ {0}
  BY HeadTailProperties, EmptySeq
<1>2. \A i \in 1..Len(Tail(q)) : Tail(q)[i] = q[i + 1]
  BY HeadTailProperties
<1>3. DOMAIN q = 1..Len(q) /\ DOMAIN Tail(q) = 1..Len(Tail(q))
  BY <1>1, LenProperties
<1>4. Head(q) = q[1]
  OBVIOUS
<1> QED BY <1>1, <1>2, <1>3, <1>4 DEF IsTail

IsAppended(s, q, x) ==
  /\ s \in Seq(Call)
  /\ \E n \in DOMAIN s :
       /\ s[n] = x /\ n \notin DOMAIN q /\ DOMAIN s = DOMAIN q \cup {n}
       /\ \A i \in DOMAIN q : s[i] = q[i]

LEMMA AppendFacts ==
  ASSUME NEW q \in Seq(Call), NEW x \in Call
  PROVE  IsAppended(Append(q, x), q, x)
<1>1. PICK s, n : s = Append(q, x) /\ n = Len(q) + 1
  OBVIOUS
<1>2. s \in Seq(Call) /\ Len(s) = n /\ s[n] = x /\ \A i \in 1..Len(q) : s[i] = q[i]
  BY <1>1, AppendProperties
<1>3. DOMAIN q = 1..Len(q) /\ DOMAIN s = 1..Len(s) /\ Len(q) \in Nat
  BY <1>2, LenProperties
<1>4. n \notin DOMAIN q /\ n \in DOMAIN s /\ DOMAIN s = DOMAIN q \cup {n}
  BY <1>1, <1>2, <1>3
<1> QED BY <1>1, <1>2, <1>3, <1>4 DEF IsAppended

(* A served call leaves the queue; the client of an initial one may be     *)
(* connected now, and no other waits for it.                               *)
ReplyTo(q, ok, e, u) ==
  [client |-> q.client, kind |-> q.kind, ok |-> ok, edb |-> e, update |-> u]

LEMMA ReplyCalls ==
  ASSUME Calls, queue # <<>>, NEW ok, NEW e, NEW u, Reply(ok, e, u), sessions' = sessions,
         Answered(ReplyTo(Head(queue), ok, e, u)),
         \/ DOMAIN edb_id_map' = DOMAIN edb_id_map
         \/ /\ Initial(Head(queue))
            /\ DOMAIN edb_id_map' = DOMAIN edb_id_map \cup {Head(queue).client}
  PROVE  Calls'
<1>1. IsTail(queue', queue)
  BY TailFacts DEF Reply, Calls
<1>2. \A i \in DOMAIN queue' : Asked(queue'[i])
  BY <1>1 DEF IsTail, Calls
<1>3. \A r \in replies' : Answered(r)
  BY DEF Reply, Calls, ReplyTo
<1>4. \A i \in DOMAIN queue' : i + 1 \in DOMAIN queue /\ queue'[i] = queue[i + 1] /\ i + 1 # 1
  BY <1>1 DEF IsTail
<1>5. \A i, j \in DOMAIN queue' : i + 1 = j + 1 => i = j
  BY <1>1 DEF IsTail
<1>6. Head(queue) = queue[1] /\ 1 \in DOMAIN queue
  BY <1>1 DEF IsTail
<1>7. OneInit(queue, DOMAIN edb_id_map)
  BY DEF Calls
<1>8. PICK M : M = DOMAIN edb_id_map'
  OBVIOUS
<1>9. \A i \in DOMAIN queue' : Initial(queue'[i]) => queue'[i].client \notin M
  BY <1>4, <1>6, <1>7, <1>8 DEF OneInit
<1>10. \A c \in M : sessions[c].pc # "none"
  BY <1>6, <1>7, <1>8 DEF OneInit
<1>11. OneInit(queue', M)
  BY <1>4, <1>5, <1>7, <1>9, <1>10 DEF OneInit
<1>12. OneInit(queue, DOMAIN edb_id_map)'
  BY <1>8, <1>11 DEF OneInit
<1> QED BY <1>1, <1>2, <1>3, <1>12 DEF Calls, IsTail

(* A call is added; an initial one by a session that is not connected.     *)
LEMMA SendCalls ==
  ASSUME Calls, NEW x, Asked(x), queue' = Append(queue, x),
         replies' = replies, edb_id_map' = edb_id_map,
         Initial(x) => sessions[x.client].pc = "none" /\ sessions'[x.client].pc # "none",
         \A c \in Clients : sessions[c].pc # "none" => sessions'[c].pc # "none",
         DOMAIN edb_id_map \subseteq Clients
  PROVE  Calls'
<1>1. IsAppended(queue', queue, x)
  BY AppendFacts DEF Calls, Asked
<1>2. PICK n \in DOMAIN queue' :
        /\ queue'[n] = x /\ n \notin DOMAIN queue /\ DOMAIN queue' = DOMAIN queue \cup {n}
        /\ \A i \in DOMAIN queue : queue'[i] = queue[i]
  BY <1>1 DEF IsAppended
<1>3. OneInit(queue, DOMAIN edb_id_map)
  BY DEF Calls
<1>4. \A i \in DOMAIN queue : queue[i].client \in Clients
  BY DEF Calls, Asked, Call
<1>5. Initial(x) => \A i \in DOMAIN queue : Initial(queue[i]) => queue[i].client # x.client
  BY <1>3 DEF OneInit
<1>6. Initial(x) => x.client \notin DOMAIN edb_id_map
  BY <1>3 DEF OneInit
<1>7. PICK M : M = DOMAIN edb_id_map
  OBVIOUS
<1>8. \A i \in DOMAIN queue' : Initial(queue'[i]) =>
        queue'[i].client \notin M /\ sessions'[queue'[i].client].pc # "none"
  BY <1>2, <1>3, <1>4, <1>6, <1>7, ZenonT(60) DEF OneInit
<1>9. \A i, j \in DOMAIN queue' :
        Initial(queue'[i]) /\ Initial(queue'[j]) /\ queue'[i].client = queue'[j].client => i = j
  BY <1>2, <1>3, <1>5 DEF OneInit
<1>10. \A c \in M : sessions'[c].pc # "none"
  BY <1>3, <1>7 DEF OneInit
<1>11. OneInit(queue, DOMAIN edb_id_map)'
  BY <1>7, <1>8, <1>9, <1>10 DEF OneInit
<1>12. \A i \in DOMAIN queue' : Asked(queue'[i])
  BY <1>2 DEF Calls
<1>13. \A r \in replies' : Answered(r)
  BY DEF Calls
<1> QED BY <1>1, <1>11, <1>12, <1>13 DEF Calls, IsAppended

(* Sessions that have begun stay so.                                       *)
LEMMA CallsStay ==
  ASSUME Calls, queue' = queue, DOMAIN edb_id_map' = DOMAIN edb_id_map,
         DOMAIN edb_id_map \subseteq Clients,
         replies' \subseteq replies,
         \A c \in Clients : sessions[c].pc # "none" => sessions'[c].pc # "none"
  PROVE  Calls'
<1>1. PICK M : M = DOMAIN edb_id_map
  OBVIOUS
<1>2. \A i \in DOMAIN queue : queue[i].client \in Clients
  BY DEF Calls, Asked, Call
<1>3. OneInit(queue, DOMAIN edb_id_map)'
  BY <1>1, <1>2 DEF Calls, OneInit
<1> QED BY <1>3 DEF Calls

-----------------------------------------------------------------------------
(* The gateway's steps.                                                    *)

LEMMA EnclaveStays ==
  ASSUME Enclave, UNCHANGED vars
  PROVE  Enclave'
BY DEF Enclave, Contexts, Genuine, Bound, Range, vars

LEMMA DiskStays ==
  ASSUME Disk, UNCHANGED <<vars, edbs, files, deleting, torn, deleted, zombies>>
  PROVE  Disk'
BY DEF Disk, Blobs, Fresh, Gone, StoredIn, Bound, Range, vars

LEMMA SendInv ==
  ASSUME Inv, NEW c \in Clients, NEW k \in Kinds, NEW e \in 0..MaxEdbs, Send(c, k, e),
         k = "RESUME" => e \in Edbs,
         k \in {"CREATE", "RESUME"} => sessions[c].pc = "none" /\ sessions'[c].pc # "none",
         \A b \in Clients : sessions[b].pc # "none" => sessions'[b].pc # "none",
         sessions' \in [Clients -> [pc : {"none", "init", "open", "closed"}, edb : 0..MaxEdbs]]
  PROVE  Inv'
<1>1. PICK x : x = [client |-> c, kind |-> k, edb |-> e, live |-> TRUE]
  OBVIOUS
<1>2. Asked(x) /\ x.client = c /\ x.kind = k
  BY <1>1 DEF Asked, Call
<1>3. queue' = Append(queue, x) /\ UNCHANGED <<vars, replies, catalog, deleting>>
  BY <1>1 DEF Send
<1>4. UNCHANGED <<process, flushed, edbs, files, saved, torn, deleted, zombies>>
  BY DEF Send, server, disk
<1>5. edb_id_map' = edb_id_map /\ DOMAIN edb_id_map \subseteq Clients /\ Calls
  BY <1>3 DEF vars, Inv, Enclave
<1>6. Calls'
  BY <1>2, <1>3, <1>5, SendCalls DEF Initial
<1>7. Enclave'
  BY <1>3, EnclaveStays DEF Inv
<1>8. Disk'
  BY <1>3, <1>4, DiskStays DEF Inv
<1>9. Shapes'
  BY <1>3, <1>4 DEF Inv, Shapes
<1> QED BY <1>6, <1>7, <1>8, <1>9 DEF Inv

LEMMA SessionInitInv ==
  ASSUME Inv, NEW c \in Clients, NEW e \in {0} \cup Edbs, SessionInit(c, e)
  PROVE  Inv'
<1>1. /\ sessions[c].pc = "none" /\ sessions' = [sessions EXCEPT ![c].pc = "init"]
      /\ sessions \in [Clients -> [pc : {"none", "init", "open", "closed"}, edb : 0..MaxEdbs]]
  BY DEF SessionInit, Inv, Shapes
<1>2. /\ sessions'[c].pc = "init"
      /\ \A b \in Clients : sessions[b].pc # "none" => sessions'[b].pc # "none"
      /\ sessions' \in [Clients -> [pc : {"none", "init", "open", "closed"}, edb : 0..MaxEdbs]]
  BY <1>1
<1>3. CASE e = 0
  <2>1. Send(c, "CREATE", 0) /\ 0 \in 0..MaxEdbs
    BY <1>3 DEF SessionInit
  <2> QED BY <1>1, <1>2, <2>1, SendInv DEF Kinds
<1>4. CASE e # 0
  <2>1. Send(c, "RESUME", e) /\ e \in 0..MaxEdbs /\ e \in Edbs
    BY <1>4 DEF SessionInit, Edbs
  <2> QED BY <1>1, <1>2, <2>1, SendInv DEF Kinds
<1> QED BY <1>3, <1>4

LEMMA SessionCallInv ==
  ASSUME Inv, NEW c \in Clients, Insert(c) \/ SessionShutdown(c)
  PROVE  Inv'
<1>1. PICK k \in {"UPDATE", "SHUTDOWN"} : Send(c, k, sessions[c].edb)
  BY DEF Insert, SessionShutdown
<1>2. sessions' = sessions
  BY DEF Insert, SessionShutdown
<1>3. PICK e \in 0..MaxEdbs : e = sessions[c].edb
  BY DEF Inv, Shapes
<1>4. /\ sessions' \in [Clients -> [pc : {"none", "init", "open", "closed"}, edb : 0..MaxEdbs]]
      /\ \A b \in Clients : sessions[b].pc # "none" => sessions'[b].pc # "none"
  BY <1>2 DEF Inv, Shapes
<1>5. Send(c, k, e)
  BY <1>1, <1>3
<1> QED BY <1>4, <1>5, SendInv, ZenonT(60) DEF Kinds

(* A call that timed out still waits in its place.                         *)
LEMMA TimeoutInv ==
  ASSUME Inv, NEW i \in DOMAIN queue, Timeout(i)
  PROVE  Inv'
<1>1. PICK q : q = queue[i]
  OBVIOUS
<1>2. Asked(q) /\ queue \in Seq(Call)
  BY <1>1 DEF Inv, Calls
<1>3. queue' = [queue EXCEPT ![i].live = FALSE]
  BY DEF Timeout
<1>4. PICK n \in Nat : queue \in [1..n -> Call] /\ n = Len(queue)
  BY <1>2, LenProperties
<1>5. queue' \in [1..n -> Call] /\ DOMAIN queue' = 1..n /\ DOMAIN queue = 1..n
  BY <1>3, <1>4 DEF Call
<1>6. queue' \in Seq(Call)
  BY <1>5
<1>7. \A j \in DOMAIN queue' : /\ queue'[j].kind = queue[j].kind
                               /\ queue'[j].client = queue[j].client
                               /\ queue'[j].edb = queue[j].edb /\ queue[j].client \in Clients
  BY <1>3, <1>4, <1>5 DEF Call
<1>8. \A j \in DOMAIN queue' : Asked(queue'[j])
  BY <1>5, <1>7 DEF Asked, Inv, Calls
<1>9. /\ sessions' \in [Clients -> [pc : {"none", "init", "open", "closed"}, edb : 0..MaxEdbs]]
      /\ \A b \in Clients : sessions[b].pc # "none" => sessions'[b].pc # "none"
  <2>1. sessions \in [Clients -> [pc : {"none", "init", "open", "closed"}, edb : 0..MaxEdbs]]
    BY DEF Inv, Shapes
  <2>2. sessions' = sessions \/ sessions' = [sessions EXCEPT ![q.client].pc = "closed"]
    BY <1>1 DEF Timeout
  <2> QED BY <2>1, <2>2
<1>10. /\ UNCHANGED <<vars, replies, catalog, deleting, process, flushed, edbs, files, saved>>
       /\ UNCHANGED <<torn, deleted, zombies>>
  BY DEF Timeout, server, disk
<1>11. PICK M : M = DOMAIN edb_id_map /\ M = DOMAIN edb_id_map' /\ M \subseteq Clients
  BY <1>10 DEF vars, Inv, Enclave
<1>12. OneInit(queue, M)
  BY <1>11 DEF Inv, Calls
<1>13. \A j \in DOMAIN queue' : Initial(queue'[j]) =>
         Initial(queue[j]) /\ queue'[j].client = queue[j].client /\ queue[j].client \in Clients
  BY <1>7 DEF Initial
<1>14. OneInit(queue, DOMAIN edb_id_map)'
  BY <1>5, <1>9, <1>11, <1>12, <1>13 DEF OneInit
<1>15. Calls'
  BY <1>6, <1>8, <1>10, <1>14 DEF Inv, Calls
<1>16. Shapes'
  BY <1>9, <1>10 DEF Inv, Shapes
<1>17. Enclave'
  BY <1>10, EnclaveStays DEF Inv
<1>18. Disk'
  BY <1>10, DiskStays DEF Inv
<1> QED BY <1>15, <1>16, <1>17, <1>18 DEF Inv

LEMMA ReceiveInv ==
  ASSUME Inv, NEW r \in replies, Receive(r)
  PROVE  Inv'
<1>1. PICK e : e = r.edb
  OBVIOUS
<1>2. Answered(r) /\ e \in 0..MaxEdbs /\ r.client \in Clients
  BY <1>1 DEF Inv, Calls, Answered, Answer
<1>3. /\ UNCHANGED <<vars, deleting, queue, process, flushed, edbs, files>>
      /\ UNCHANGED <<torn, deleted, zombies>> /\ replies' \subseteq replies
  BY DEF Receive, server
<1>4. /\ sessions \in [Clients -> [pc : {"none", "init", "open", "closed"}, edb : 0..MaxEdbs]]
      /\ DOMAIN catalog \subseteq Edbs /\ catalog \in [DOMAIN catalog -> SUBSET Updates]
      /\ saved \in [Edbs -> SUBSET Updates]
  BY DEF Inv, Shapes
<1> DEFINE Goal ==
      /\ sessions' \in [Clients -> [pc : {"none", "init", "open", "closed"}, edb : 0..MaxEdbs]]
      /\ \A b \in Clients : sessions[b].pc # "none" => sessions'[b].pc # "none"
      /\ DOMAIN catalog' \subseteq Edbs /\ catalog' \in [DOMAIN catalog' -> SUBSET Updates]
      /\ saved' \in [Edbs -> SUBSET Updates]
<1>5. ASSUME r.kind \in {"CREATE", "RESUME"} /\ r.ok PROVE Goal
  <2>1. /\ sessions' = [sessions EXCEPT ![r.client] = [pc |-> "open", edb |-> e]]
        /\ catalog' = Put(catalog, e, IF r.kind = "CREATE" THEN {} ELSE Restored(e))
        /\ saved' = saved
    BY <1>1, <1>5 DEF Receive
  <2>2. e \in Edbs
    BY <1>1, <1>2, <1>5 DEF Answered, Initial
  <2>3. PICK S : S = (IF r.kind = "CREATE" THEN {} ELSE Restored(e))
    OBVIOUS
  <2>4. S \in SUBSET Updates /\ IsPut(catalog', catalog, e, S)
    <3>1. S \in SUBSET Updates
      BY <1>4, <2>2, <2>3 DEF Restored
    <3>2. catalog' = Put(catalog, e, S)
      BY <2>1, <2>3
    <3> QED BY <3>1, <3>2, PutFacts
  <2>5. DOMAIN catalog' \subseteq Edbs /\ catalog' \in [DOMAIN catalog' -> SUBSET Updates]
    BY <1>4, <2>2, <2>4 DEF IsPut
  <2> QED BY <1>2, <1>4, <2>1, <2>5
<1>6. ASSUME r.kind \in {"CREATE", "RESUME"} /\ ~r.ok PROVE Goal
  <2>1. /\ sessions' = [sessions EXCEPT ![r.client].pc = "closed"]
        /\ catalog' = catalog /\ saved' = saved
    BY <1>6 DEF Receive
  <2> QED BY <1>2, <1>4, <2>1
<1>7. ASSUME r.kind = "UPDATE" /\ r.ok /\ e \in DOMAIN catalog PROVE Goal
  <2>1. /\ catalog' = [catalog EXCEPT ![e] = @ \cup {r.update}]
        /\ sessions' = sessions /\ saved' = saved
    BY <1>1, <1>7 DEF Receive
  <2>2. r.update \in Updates
    BY <1>2, <1>7 DEF Answered
  <2> QED BY <1>4, <1>7, <2>1, <2>2
<1>8. ASSUME r.kind = "SHUTDOWN" /\ r.ok /\ e \in DOMAIN catalog PROVE Goal
  <2>1. /\ saved' = [saved EXCEPT ![e] = catalog[e]] /\ catalog' = catalog
        /\ sessions' = [sessions EXCEPT ![r.client].pc = "closed"]
    BY <1>1, <1>8 DEF Receive
  <2> QED BY <1>2, <1>4, <1>8, <2>1
<1>9. ASSUME UNCHANGED <<sessions, catalog, saved>> PROVE Goal
  BY <1>4, <1>9
<1>10. Goal
  <2>1. \/ r.kind \in {"CREATE", "RESUME"} /\ r.ok
        \/ r.kind \in {"CREATE", "RESUME"} /\ ~r.ok
        \/ r.kind = "UPDATE" /\ r.ok /\ e \in DOMAIN catalog
        \/ r.kind = "SHUTDOWN" /\ r.ok /\ e \in DOMAIN catalog
        \/ UNCHANGED <<sessions, catalog, saved>>
    BY <1>1 DEF Receive
  <2> QED BY <1>5, <1>6, <1>7, <1>8, <1>9, <2>1
<1>11. Shapes'
  BY <1>3, <1>10 DEF Inv, Shapes
<1>12. DOMAIN edb_id_map' = DOMAIN edb_id_map /\ DOMAIN edb_id_map \subseteq Clients
  BY <1>3 DEF vars, Inv, Enclave
<1>13. Calls'
  BY <1>3, <1>10, <1>12, CallsStay DEF Inv
<1>14. Enclave'
  BY <1>3, EnclaveStays DEF Inv
<1>15. Disk'
  BY <1>3, DiskStays DEF Inv
<1> QED BY <1>11, <1>13, <1>14, <1>15 DEF Inv

LEMMA CheckDeleteInv ==
  ASSUME Inv, NEW e \in Edbs, CheckDelete(e)
  PROVE  Inv'
<1>1. /\ UNCHANGED <<vars, sessions, catalog, queue, replies, process, flushed>>
      /\ UNCHANGED <<edbs, files, saved, torn, deleted, zombies>>
      /\ deleting' = e /\ snapshots[e] # NoCtx
  BY DEF CheckDelete, wire, server, disk, history, OnDisk
<1>2. Shapes'
  BY <1>1 DEF Inv, Shapes, Edbs
<1>3. DOMAIN edb_id_map' = DOMAIN edb_id_map /\ DOMAIN edb_id_map \subseteq Clients
  BY <1>1 DEF vars, Inv, Enclave
<1>4. Calls'
  BY <1>1, <1>3, CallsStay DEF Inv
<1>5. Enclave'
  BY <1>1, EnclaveStays DEF Inv
<1>6. Bound' = Bound /\ snapshots' = snapshots /\ creator' = creator /\ next_db_id' = next_db_id
  BY <1>1, MapStays DEF vars
<1>7. Fresh => Fresh'
  BY <1>1, <1>6 DEF Fresh
<1>8. Disk'
  BY <1>1, <1>6, <1>7 DEF Inv, Disk, Blobs, Gone, StoredIn
<1> QED BY <1>2, <1>4, <1>5, <1>8 DEF Inv

(* The directory of a database that the server has in edb_id_map may come  *)
(* back (zombies); any other is gone.                                      *)
LEMMA RemoveTreeInv ==
  ASSUME Inv, RemoveTree
  PROVE  Inv'
<1>1. PICK e \in Edbs : e = deleting
  BY DEF RemoveTree, Inv, Shapes, Edbs
<1>2. /\ deleting' = 0 /\ snapshots' = [snapshots EXCEPT ![e] = NoCtx]
      /\ files' = [files EXCEPT ![e] = {}] /\ saved' = [saved EXCEPT ![e] = {}]
      /\ catalog' = Drop(catalog, e) /\ deleted' = deleted \cup {e}
      /\ zombies' = IF e \in Bound THEN zombies \cup {e} ELSE zombies \ {e}
  BY <1>1 DEF RemoveTree, Bound
<1>3. /\ UNCHANGED <<active, inactive, edb_id_map, next_db_id, creator, updates, acked>>
      /\ UNCHANGED <<sessions, queue, replies, process, flushed, edbs, torn>>
  BY DEF RemoveTree, wire, server
<1>4. Bound' = Bound
  BY <1>3, MapStays
<1>5. snapshots \in [Edbs -> Ctx] /\ files \in [Edbs -> SUBSET Updates]
  BY DEF Inv, Enclave, Contexts, Disk, Blobs
<1>6. /\ snapshots'[e] = NoCtx /\ files'[e] = {}
      /\ \A f \in Edbs : f # e => snapshots'[f] = snapshots[f] /\ files'[f] = files[f]
      /\ snapshots' \in [Edbs -> Ctx] /\ files' \in [Edbs -> SUBSET Updates]
  BY <1>2, <1>5, NoCtxFacts
<1>7. Shapes'
  <2>1. IsDrop(catalog', catalog, e)
    BY <1>2, DropFacts
  <2>2. DOMAIN catalog' \subseteq Edbs /\ catalog' \in [DOMAIN catalog' -> SUBSET Updates]
    BY <2>1 DEF IsDrop, Inv, Shapes
  <2>3. saved' \in [Edbs -> SUBSET Updates]
    BY <1>2 DEF Inv, Shapes
  <2> QED BY <1>2, <1>3, <2>2, <2>3 DEF Inv, Shapes
<1>8. Calls'
  <2>1. DOMAIN edb_id_map' = DOMAIN edb_id_map /\ DOMAIN edb_id_map \subseteq Clients
    BY <1>3 DEF Inv, Enclave
  <2> QED BY <1>3, <2>1, CallsStay DEF Inv
<1>9. Enclave'
  <2>1. Contexts(active, inactive, snapshots', Bound)
    BY <1>6 DEF Inv, Enclave, Contexts
  <2>2. Contexts(active, inactive, snapshots, Bound)'
    BY <1>3, <1>4, <2>1 DEF Contexts, Genuine
  <2> QED BY <1>3, <2>2 DEF Inv, Enclave
<1>10. Disk'
  <2>1. ASSUME ~torn
        PROVE  Fresh' /\ Gone' /\ StoredIn(snapshots', zombies', edbs', files')
    <3>1. Fresh /\ Gone /\ StoredIn(snapshots, zombies, edbs, files)
      BY <2>1 DEF Inv, Disk
    <3>2. ~(e >= next_db_id)
      BY <1>1, <3>1 DEF Fresh
    <3>3. Fresh'
      BY <1>2, <1>3, <1>4, <1>6, <3>1, <3>2 DEF Fresh, Edbs
    <3>4. Gone'
      <4>1. \A f \in deleted' \ zombies' : f # e => f \in deleted \ zombies
        BY <1>2
      <4>2. e \notin zombies' => e \notin Bound
        BY <1>2
      <4>3. deleted \subseteq Edbs
        BY DEF Inv, Disk
      <4> QED BY <1>4, <1>6, <3>1, <4>1, <4>2, <4>3 DEF Gone
    <3>5. StoredIn(snapshots', zombies', edbs', files')
      <4>1. \A f \in Edbs \ zombies' : f # e => f \in Edbs \ zombies
        BY <1>2
      <4> QED BY <1>3, <1>6, <3>1, <4>1, NoCtxFacts DEF StoredIn
    <3> QED BY <3>3, <3>4, <3>5
  <2>2. Blobs(edbs, files)' /\ Bound' \subseteq DOMAIN edbs' /\ torn' = torn
    BY <1>3, <1>4, <1>6 DEF Inv, Disk, Blobs
  <2>3. torn' \in BOOLEAN /\ deleted' \subseteq Edbs
    BY <1>1, <1>2, <1>3 DEF Inv, Disk
  <2>4. StoredIn(snapshots', zombies', edbs', files') => StoredIn(snapshots, zombies, edbs, files)'
    BY DEF StoredIn
  <2> QED BY <2>1, <2>2, <2>3, <2>4 DEF Disk
<1> QED BY <1>7, <1>8, <1>9, <1>10 DEF Inv

-----------------------------------------------------------------------------
(* The server's steps.                                                     *)

(* The blobs of what a request sealed are written to memory and disk, and  *)
(* nothing to databases outside edb_id_map.                                *)
StoresAll(E, F) ==
  /\ Blobs(E, F) /\ DOMAIN E = DOMAIN edbs
  /\ \A f \in Edbs : f \notin Bound => F[f] = files[f]
  /\ ~torn => StoredIn(snapshots', zombies, E, F)

LEMMA StoreFacts ==
  ASSUME Enclave, Disk, Worked
  PROVE  StoresAll(Written(SealedBlobs), WrittenFiles(SealedBlobs))
<1>1. PICK S : S = SealedBlobs
  OBVIOUS
<1>2. /\ snapshots \in [Edbs -> Ctx] /\ snapshots' \in [Edbs -> Ctx]
      /\ \A f \in Edbs : snapshots'[f] = snapshots[f] \/ f \in Bound
  BY DEF Worked, Enclave, Contexts
<1>3. \A f \in Edbs : /\ S[f] \in SUBSET Updates
                      /\ snapshots'[f] # snapshots[f] => S[f] = snapshots'[f].log
                      /\ f \notin Bound => S[f] = {}
  BY <1>1, <1>2 DEF SealedBlobs, Ctx
<1>4. Blobs(edbs, files) /\ Bound \subseteq DOMAIN edbs
  BY DEF Disk
<1>5. PICK E, F : E = Written(S) /\ F = WrittenFiles(S)
  OBVIOUS
<1>6. /\ E = [e \in DOMAIN edbs |-> edbs[e] \cup S[e]]
      /\ F = [e \in Edbs |-> IF e \in DOMAIN edbs THEN files[e] \cup S[e] ELSE files[e]]
  BY <1>5 DEF Written, WrittenFiles
<1>7. DOMAIN E = DOMAIN edbs /\ \A f \in DOMAIN E : E[f] = edbs[f] \cup S[f]
  BY <1>6
<1>8. \A f \in Edbs : F[f] = IF f \in DOMAIN edbs THEN files[f] \cup S[f] ELSE files[f]
  BY <1>6
<1>9. Blobs(E, F)
  <2>1. \A f \in DOMAIN edbs : edbs[f] \cup S[f] \in SUBSET Updates
    BY <1>3, <1>4 DEF Blobs
  <2>2. \A f \in Edbs : F[f] \in SUBSET Updates
    BY <1>3, <1>4, <1>8 DEF Blobs
  <2>3. E \in [DOMAIN E -> SUBSET Updates]
    BY <1>6, <1>7, <2>1
  <2>4. F \in [Edbs -> SUBSET Updates]
    BY <1>6, <2>2
  <2> QED BY <1>4, <1>7, <2>3, <2>4 DEF Blobs
<1>10. \A f \in Edbs : f \notin Bound => F[f] = files[f]
  BY <1>3, <1>8
<1>11. ASSUME ~torn PROVE StoredIn(snapshots', zombies, E, F)
  <2>1. StoredIn(snapshots, zombies, edbs, files)
    BY <1>11 DEF Disk
  <2>2. ASSUME NEW f \in Edbs \ zombies
        PROVE  /\ snapshots'[f].log \subseteq F[f]
               /\ f \in DOMAIN E => snapshots'[f].log \subseteq E[f]
    <3>1. CASE snapshots'[f] = snapshots[f]
      BY <1>7, <1>8, <2>1, <3>1 DEF StoredIn
    <3>2. CASE snapshots'[f] # snapshots[f]
      BY <1>2, <1>3, <1>4, <1>7, <1>8, <3>2
    <3> QED BY <3>1, <3>2
  <2> QED BY <2>2 DEF StoredIn
<1> QED BY <1>1, <1>5, <1>7, <1>9, <1>10, <1>11 DEF StoresAll

(* A request that writes no database which is deleted for good keeps the   *)
(* disk in order.                                                          *)
LEMMA DiskStep ==
  ASSUME Disk, Enclave, Worked, UNCHANGED <<torn, deleted, zombies, deleting>>,
         Blobs(edbs', files'), Bound' \subseteq DOMAIN edbs',
         next_db_id' >= next_db_id,
         ~torn => StoredIn(snapshots', zombies, edbs', files'),
         \A f \in Edbs : f \notin Bound' => files'[f] = files[f],
         \A f \in Edbs : f \notin Bound /\ f \in Bound' =>
           (~torn => f \notin deleted \ zombies /\ f < next_db_id'),
         \A f \in Edbs : f >= next_db_id' => creator'[f] = creator[f]
  PROVE  Disk'
<1>1. ASSUME ~torn PROVE Fresh' /\ Gone'
  <2>1. Fresh /\ Gone /\ deleted \subseteq Edbs
    BY <1>1 DEF Disk
  <2>2. \A f \in Edbs : snapshots'[f] = snapshots[f] \/ f \in Bound
    BY DEF Worked
  <2>3. next_db_id \in Nat /\ next_db_id' \in Nat
    BY DEF Enclave, Worked
  <2>4. \A f \in Edbs : f >= next_db_id' => f >= next_db_id /\ ~(f < next_db_id')
    BY <2>3 DEF Edbs
  <2>5. Fresh'
    BY <1>1, <2>1, <2>2, <2>4 DEF Fresh
  <2>6. \A f \in deleted \ zombies :
          f \in Edbs /\ f \notin Bound /\ f \notin Bound' /\ snapshots[f] = NoCtx /\ files[f] = {}
    BY <1>1, <2>1 DEF Gone
  <2>7. Gone'
    BY <2>2, <2>6 DEF Gone
  <2> QED BY <2>5, <2>7
<1>2. Blobs(edbs, files)'
  BY DEF Blobs
<1>3. ~torn => StoredIn(snapshots, zombies, edbs, files)'
  BY DEF StoredIn
<1> QED BY <1>1, <1>2, <1>3 DEF Disk

LEMMA HeadFacts ==
  ASSUME Calls, queue # <<>>
  PROVE  /\ Asked(Head(queue)) /\ Head(queue).client \in Clients
         /\ Head(queue).kind \in Kinds /\ Head(queue).edb \in 0..MaxEdbs
         /\ Initial(Head(queue)) => Head(queue).client \notin DOMAIN edb_id_map
<1>1. IsTail(Tail(queue), queue)
  BY TailFacts DEF Calls
<1> QED BY <1>1 DEF IsTail, Calls, Asked, Call, OneInit

LEMMA ServingShapes ==
  ASSUME Shapes, NEW k, Serving(k)
  PROVE  /\ Shapes' /\ UNCHANGED <<sessions, torn, deleted, zombies, deleting>>
         /\ queue # <<>> /\ Head(queue).kind = k
BY DEF Serving, gateway, history, Shapes

LEMMA ServeCreateInv ==
  ASSUME Inv, ServeCreate
  PROVE  Inv'
<1>1. PICK c \in Clients : c = Head(queue).client
  BY HeadFacts DEF ServeCreate, Serving, Inv
<1>2. Create(c)
  BY <1>1 DEF ServeCreate
<1>3. PICK n \in Edbs : n = next_db_id
  BY <1>2, CreateWorked DEF Inv
<1>4. /\ Worked /\ Bound' = Bound \cup {n}
      /\ DOMAIN edb_id_map' = DOMAIN edb_id_map \cup {c}
  BY <1>2, <1>3, CreateWorked DEF Inv
<1>5. /\ Shapes' /\ UNCHANGED <<sessions, torn, deleted, zombies, deleting>>
      /\ queue # <<>> /\ Head(queue).kind = "CREATE"
  BY ServingShapes DEF Inv, ServeCreate
<1>6. Calls'
  <2>1. Reply(TRUE, n, NoUpdate) /\ Initial(Head(queue))
    BY <1>3, <1>5 DEF ServeCreate, Initial
  <2>2. Answered(ReplyTo(Head(queue), TRUE, n, NoUpdate))
    BY <1>1, <1>5 DEF Answered, ReplyTo, Answer, Kinds, Edbs
  <2> QED BY <1>1, <1>4, <1>5, <2>1, <2>2, ReplyCalls DEF Inv
<1>7. PICK E, F : E = Written(SealedBlobs) /\ F = WrittenFiles(SealedBlobs)
  OBVIOUS
<1>8. StoresAll(E, F)
  BY <1>4, <1>7, StoreFacts DEF Inv
<1>9. edbs' = Put(E, n, {}) /\ files' = F
  BY <1>3, <1>7 DEF ServeCreate
<1>10. IsPut(edbs', E, n, {})
  BY <1>9, PutFacts
<1>11. Blobs(edbs', files') /\ DOMAIN edbs' = DOMAIN edbs \cup {n}
  BY <1>8, <1>9, <1>10 DEF StoresAll, Blobs, IsPut
<1>12. next_db_id' = n + 1 /\ creator' = [creator EXCEPT ![n] = c]
  BY <1>2, <1>3 DEF Create
<1>13. /\ creator \in [Edbs -> Clients \cup {NoClient}]
       /\ next_db_id' >= next_db_id /\ n < next_db_id'
       /\ \A f \in Edbs : f >= next_db_id' => creator'[f] = creator[f]
  BY <1>3, <1>12 DEF Inv, Enclave, Edbs
<1>14. ASSUME ~torn
       PROVE  /\ n \notin deleted \ zombies
              /\ StoredIn(snapshots', zombies, edbs', files')
  <2>1. Fresh
    BY <1>14 DEF Inv, Disk
  <2>2. snapshots[n] = NoCtx /\ n \notin Bound /\ n \notin deleted
    BY <1>3, <2>1 DEF Fresh, Edbs
  <2>3. snapshots'[n].log = {}
    BY <1>4, <2>2, NoCtxFacts DEF Worked
  <2>4. StoredIn(snapshots', zombies, E, F)
    BY <1>8, <1>14 DEF StoresAll
  <2>5. StoredIn(snapshots', zombies, edbs', files')
    BY <1>9, <1>10, <2>3, <2>4 DEF StoredIn, IsPut
  <2> QED BY <2>2, <2>5
<1>15. Disk'
  <2>1. Bound' \subseteq DOMAIN edbs'
    BY <1>4, <1>11 DEF Inv, Disk
  <2>2. \A f \in Edbs : f \notin Bound' => files'[f] = files[f]
    BY <1>4, <1>8, <1>9 DEF StoresAll
  <2>3. \A f \in Edbs : f \notin Bound /\ f \in Bound' => f = n
    BY <1>4
  <2> QED BY <1>4, <1>5, <1>11, <1>13, <1>14, <2>1, <2>2, <2>3, DiskStep DEF Inv
<1> QED BY <1>4, <1>5, <1>6, <1>15 DEF Inv, Worked

(* A request that fails without having asked the enclave.                  *)
LEMMA RefusedInv ==
  ASSUME Inv, NEW k, Serving(k), UNCHANGED <<vars, edbs, files>>,
         Reply(FALSE, Head(queue).edb, NoUpdate)
  PROVE  Inv'
<1>1. /\ Shapes' /\ UNCHANGED <<sessions, torn, deleted, zombies, deleting>>
      /\ queue # <<>>
  BY ServingShapes DEF Inv
<1>2. PICK e : e = Head(queue).edb
  OBVIOUS
<1>3. Answered(ReplyTo(Head(queue), FALSE, e, NoUpdate))
  BY <1>1, <1>2, HeadFacts DEF Inv, Answered, ReplyTo, Answer
<1>4. Reply(FALSE, e, NoUpdate) /\ DOMAIN edb_id_map' = DOMAIN edb_id_map
  BY <1>2 DEF vars
<1>5. Calls'
  BY <1>1, <1>3, <1>4, ReplyCalls DEF Inv
<1>6. Enclave'
  BY EnclaveStays DEF Inv
<1>7. Disk'
  BY <1>1, DiskStays DEF Inv
<1> QED BY <1>1, <1>5, <1>6, <1>7 DEF Inv

(* A database that is read from disk is not deleted, and its copy in       *)
(* memory has what its files have.                                         *)
LEMMA ServeResumeInv ==
  ASSUME Inv, ServeResume
  PROVE  Inv'
<1>1. PICK q : q = Head(queue)
  OBVIOUS
<1>2. /\ Shapes' /\ UNCHANGED <<sessions, torn, deleted, zombies, deleting>>
      /\ queue # <<>> /\ q.kind = "RESUME" /\ Serving("RESUME")
  BY <1>1, ServingShapes DEF Inv, ServeResume
<1>3. PICK c \in Clients, e \in Edbs : c = q.client /\ e = q.edb /\ c \notin DOMAIN edb_id_map
  BY <1>1, <1>2, HeadFacts DEF Inv, Asked, Initial
<1>4. CASE ~OnDisk(e)
  <2>1. Reply(FALSE, Head(queue).edb, NoUpdate) /\ UNCHANGED <<vars, edbs, files>>
    BY <1>1, <1>3, <1>4 DEF ServeResume
  <2> QED BY <1>2, <2>1, RefusedInv
<1>5. CASE OnDisk(e)
  <2>1. /\ Resume(c, e) /\ Reply(TRUE, e, NoUpdate) /\ files' = WrittenFiles(SealedBlobs)
        /\ edbs' = [f \in DOMAIN OpenEdb(e) |-> OpenEdb(e)[f] \cup SealedBlobs[f]]
    BY <1>1, <1>3, <1>5 DEF ServeResume
  <2>2. Worked /\ Bound' = Bound \cup {e} /\ DOMAIN edb_id_map' = DOMAIN edb_id_map \cup {c}
    BY <1>3, <2>1, ResumeWorked DEF Inv
  <2>3. Calls'
    <3>1. Initial(Head(queue))
      BY <1>1, <1>2 DEF Initial
    <3>2. Answered(ReplyTo(Head(queue), TRUE, e, NoUpdate))
      BY <1>1, <1>2, <1>3 DEF Answered, ReplyTo, Answer, Kinds, Edbs
    <3> QED BY <1>1, <1>2, <1>3, <2>1, <2>2, <3>1, <3>2, ReplyCalls DEF Inv
  <2>4. PICK S, E, F : S = SealedBlobs /\ E = Written(S) /\ F = WrittenFiles(S)
    OBVIOUS
  <2>5. StoresAll(E, F)
    BY <2>2, <2>4, StoreFacts DEF Inv
  <2>6. PICK D : D = OpenEdb(e)
    OBVIOUS
  <2>7. /\ DOMAIN D = DOMAIN edbs \cup {e}
        /\ \A f \in DOMAIN edbs : D[f] = edbs[f]
        /\ e \notin DOMAIN edbs => D[e] = files[e]
    <3>1. CASE e \in DOMAIN edbs
      BY <2>6, <3>1 DEF OpenEdb
    <3>2. CASE e \notin DOMAIN edbs
      <4>1. IsPut(D, edbs, e, files[e])
        BY <2>6, <3>2, PutFacts DEF OpenEdb
      <4> QED BY <3>2, <4>1 DEF IsPut
    <3> QED BY <3>1, <3>2
  <2>8. edbs' = [f \in DOMAIN D |-> D[f] \cup S[f]] /\ files' = F
    BY <2>1, <2>4, <2>6
  <2>9. Bound \subseteq DOMAIN edbs /\ files[e] \in SUBSET Updates
    BY DEF Inv, Disk, Blobs
  <2>10. /\ DOMAIN edbs' = DOMAIN edbs \cup {e}
         /\ \A f \in DOMAIN edbs : edbs'[f] = E[f]
    BY <2>4, <2>7, <2>8 DEF Written
  <2>11. e \notin DOMAIN edbs => snapshots'[e] = snapshots[e] /\ edbs'[e] = files[e]
    <3>1. e \notin Bound => snapshots'[e] = snapshots[e] /\ S[e] = {}
      BY <2>2, <2>4 DEF Worked, SealedBlobs
    <3> QED BY <2>7, <2>8, <2>9, <3>1
  <2>12. Blobs(edbs', files')
    <3>1. \A f \in DOMAIN edbs' : f \in Edbs /\ edbs'[f] \in SUBSET Updates
      BY <2>5, <2>9, <2>10, <2>11 DEF StoresAll, Blobs
    <3>2. edbs' \in [DOMAIN edbs' -> SUBSET Updates]
      BY <2>8, <3>1
    <3> QED BY <2>5, <2>8, <3>1, <3>2 DEF StoresAll, Blobs
  <2>13. ASSUME ~torn
         PROVE  /\ e \notin deleted \ zombies /\ e < next_db_id
                /\ StoredIn(snapshots', zombies, edbs', files')
    <3>1. Fresh /\ Gone /\ StoredIn(snapshots, zombies, edbs, files)
      BY <2>13 DEF Inv, Disk
    <3>2. e \notin deleted \ zombies /\ e < next_db_id
      BY <1>5, <3>1 DEF Gone, Fresh, OnDisk, Edbs, Inv, Enclave
    <3>3. StoredIn(snapshots', zombies, E, F) /\ DOMAIN E = DOMAIN edbs
      BY <2>5, <2>13 DEF StoresAll
    <3>4. StoredIn(snapshots', zombies, edbs', files')
      BY <2>8, <2>10, <2>11, <3>1, <3>3 DEF StoredIn
    <3> QED BY <3>2, <3>4
  <2>14. next_db_id' = next_db_id /\ creator' = creator /\ next_db_id \in Nat
    BY <2>1 DEF Resume, Inv, Enclave
  <2>15. Disk'
    <3>1. Bound' \subseteq DOMAIN edbs'
      BY <2>2, <2>9, <2>10
    <3>2. \A f \in Edbs : f \notin Bound' => files'[f] = files[f]
      BY <2>2, <2>5, <2>8 DEF StoresAll
    <3>3. \A f \in Edbs : f \notin Bound /\ f \in Bound' => f = e
      BY <2>2
    <3> QED BY <1>2, <2>2, <2>12, <2>13, <2>14, <3>1, <3>2, <3>3, DiskStep DEF Inv
  <2> QED BY <1>2, <2>2, <2>3, <2>15 DEF Inv, Worked
<1> QED BY <1>4, <1>5

LEMMA ServeUpdateInv ==
  ASSUME Inv, ServeUpdate
  PROVE  Inv'
<1>1. PICK q : q = Head(queue)
  OBVIOUS
<1>2. /\ Shapes' /\ UNCHANGED <<sessions, torn, deleted, zombies, deleting>>
      /\ queue # <<>> /\ q.kind = "UPDATE" /\ Serving("UPDATE")
  BY <1>1, ServingShapes DEF Inv, ServeUpdate
<1>3. CASE Refused
  BY <1>2, <1>3, RefusedInv DEF Refused
<1>4. CASE Update(q.client) /\ Store(SealedBlobs)
           /\ IF active' = NoCtx THEN Reply(FALSE, q.edb, NoUpdate)
              ELSE Reply(TRUE, q.edb, <<q.client, updates'>>)
  <2>1. PICK c \in Clients, e \in 0..MaxEdbs : c = q.client /\ e = q.edb
    BY <1>1, <1>2, HeadFacts DEF Inv
  <2>2. Worked /\ Bound' = Bound /\ (active' # NoCtx => <<c, updates'>> \in Updates)
    BY <1>4, <2>1, UpdateWorked DEF Inv
  <2>3. DOMAIN edb_id_map' = DOMAIN edb_id_map
    BY <1>4 DEF Update
  <2>4. ASSUME active' = NoCtx PROVE Calls'
    <3>1. Reply(FALSE, e, NoUpdate)
      BY <1>4, <2>1, <2>4
    <3>2. Answered(ReplyTo(Head(queue), FALSE, e, NoUpdate))
      BY <1>1, <1>2, <2>1 DEF Answered, ReplyTo, Answer, Kinds
    <3> QED BY <1>2, <2>3, <3>1, <3>2, ReplyCalls DEF Inv
  <2>5. ASSUME active' # NoCtx PROVE Calls'
    <3>1. PICK u \in Updates : Reply(TRUE, e, u)
      BY <1>4, <2>1, <2>2, <2>5
    <3>2. Answered(ReplyTo(Head(queue), TRUE, e, u))
      BY <1>1, <1>2, <2>1, <3>1 DEF Answered, ReplyTo, Answer, Kinds, Initial
    <3> QED BY <1>2, <2>3, <3>1, <3>2, ReplyCalls DEF Inv
  <2>6. Calls'
    BY <2>4, <2>5
  <2>7. StoresAll(edbs', files')
    <3>1. StoresAll(Written(SealedBlobs), WrittenFiles(SealedBlobs))
      BY <2>2, StoreFacts DEF Inv
    <3> QED BY <1>4, <3>1 DEF Store
  <2>8. next_db_id' = next_db_id /\ creator' = creator /\ next_db_id \in Nat
    BY <1>4 DEF Update, Inv, Enclave
  <2>9. Disk'
    <3>1. Bound' \subseteq DOMAIN edbs' /\ Blobs(edbs', files')
      BY <2>2, <2>7 DEF StoresAll, Inv, Disk
    <3> QED BY <1>2, <2>2, <2>7, <2>8, <3>1, DiskStep DEF Inv, StoresAll
  <2> QED BY <1>2, <2>2, <2>6, <2>9 DEF Inv, Worked
<1> QED BY <1>1, <1>3, <1>4 DEF ServeUpdate

(* flush_client_edb rewrites files of a database in edb_id_map only.       *)
LEMMA FlushClientEdbFacts ==
  ASSUME Inv, NEW c \in Clients, FlushClientEdb(c),
         UNCHANGED <<torn, deleted, zombies, deleting>>
  PROVE  Enclave' /\ Disk' /\ DOMAIN edb_id_map' = DOMAIN edb_id_map
<1>1. Shutdown(c)
  BY DEF FlushClientEdb
<1>2. PICK e \in Bound : e = edb_id_map[c]
  BY <1>1, ShutdownWorked DEF Inv
<1>3. Worked /\ Bound' = Bound
  BY <1>1, ShutdownWorked DEF Inv
<1>4. PICK E, F : E = Written(SealedBlobs) /\ F = WrittenFiles(SealedBlobs)
  OBVIOUS
<1>5. StoresAll(E, F)
  BY <1>3, <1>4, StoreFacts DEF Inv
<1>6. edbs' = E /\ files' = IF active' = NoCtx THEN F ELSE [F EXCEPT ![e] = @ \cup E[e]]
  BY <1>2, <1>4 DEF FlushClientEdb
<1>7. e \in DOMAIN E /\ e \in Edbs /\ Bound \subseteq DOMAIN edbs
  BY <1>2, <1>5 DEF StoresAll, Blobs, Inv, Disk
<1>8. E[e] \in SUBSET Updates /\ F \in [Edbs -> SUBSET Updates]
  BY <1>5, <1>7 DEF StoresAll, Blobs
<1>9. /\ files' \in [Edbs -> SUBSET Updates]
      /\ \A f \in Edbs : F[f] \subseteq files'[f] /\ (f # e => files'[f] = F[f])
  <2>1. CASE active' = NoCtx
    BY <1>6, <1>8, <2>1
  <2>2. CASE active' # NoCtx
    BY <1>6, <1>7, <1>8, <2>2
  <2> QED BY <2>1, <2>2
<1>10. Blobs(edbs', files') /\ Bound' \subseteq DOMAIN edbs'
  BY <1>3, <1>5, <1>6, <1>7, <1>9 DEF StoresAll, Blobs
<1>11. ~torn => StoredIn(snapshots', zombies, edbs', files')
  BY <1>5, <1>6, <1>9 DEF StoresAll, StoredIn
<1>12. \A f \in Edbs : f \notin Bound' => files'[f] = files[f]
  BY <1>2, <1>3, <1>5, <1>9 DEF StoresAll
<1>13. /\ next_db_id' = next_db_id /\ creator' = creator /\ next_db_id \in Nat
       /\ DOMAIN edb_id_map' = DOMAIN edb_id_map
  BY <1>1 DEF Shutdown, Inv, Enclave
<1>14. Disk'
  BY <1>3, <1>10, <1>11, <1>12, <1>13, DiskStep DEF Inv
<1> QED BY <1>3, <1>13, <1>14 DEF Worked

LEMMA ServeShutdownInv ==
  ASSUME Inv, ServeShutdown
  PROVE  Inv'
<1>1. PICK q : q = Head(queue)
  OBVIOUS
<1>2. /\ Shapes' /\ UNCHANGED <<sessions, torn, deleted, zombies, deleting>>
      /\ queue # <<>> /\ q.kind = "SHUTDOWN" /\ Serving("SHUTDOWN")
  BY <1>1, ServingShapes DEF Inv, ServeShutdown
<1>3. CASE Refused
  BY <1>2, <1>3, RefusedInv DEF Refused
<1>4. CASE FlushClientEdb(q.client) /\ Reply(active' # NoCtx, q.edb, NoUpdate)
  <2>1. q.client \in Clients /\ q.edb \in 0..MaxEdbs
    BY <1>1, <1>2, HeadFacts DEF Inv
  <2>2. Enclave' /\ Disk' /\ DOMAIN edb_id_map' = DOMAIN edb_id_map
    BY <1>2, <1>4, <2>1, FlushClientEdbFacts
  <2>3. PICK ok \in BOOLEAN, e \in 0..MaxEdbs : Reply(ok, e, NoUpdate)
    BY <1>4, <2>1
  <2>4. Answered(ReplyTo(Head(queue), ok, e, NoUpdate))
    BY <1>1, <1>2, <2>1 DEF Answered, ReplyTo, Answer, Kinds, Initial
  <2>5. Calls'
    BY <1>2, <2>2, <2>3, <2>4, ReplyCalls DEF Inv
  <2> QED BY <1>2, <2>2, <2>5 DEF Inv
<1> QED BY <1>1, <1>3, <1>4 DEF ServeShutdown

-----------------------------------------------------------------------------
(* The end of a process.                                                   *)

LEMMA FlushNextInv ==
  ASSUME Inv, NEW c \in Clients, FlushNext(c)
  PROVE  Inv'
<1>1. /\ UNCHANGED <<sessions, catalog, deleting, queue, replies, process, saved>>
      /\ UNCHANGED <<torn, deleted, zombies>> /\ flushed' = flushed \cup {c}
  BY DEF FlushNext, gateway, wire, history
<1>2. Enclave' /\ Disk' /\ DOMAIN edb_id_map' = DOMAIN edb_id_map
  BY <1>1, FlushClientEdbFacts DEF FlushNext
<1>3. Calls'
  BY <1>1, <1>2, CallsStay DEF Inv, Enclave
<1>4. Shapes'
  BY <1>1 DEF Inv, Shapes
<1> QED BY <1>2, <1>3, <1>4 DEF Inv

(* shutdown_flush opens what is on disk, so what is deleted stays away.    *)
LEMMA FlushRestInv ==
  ASSUME Inv, FlushRest
  PROVE  Inv'
<1>1. PICK L : L = {e \in Edbs : OnDisk(e)}
  OBVIOUS
<1>2. /\ edbs' = [e \in DOMAIN edbs \cup L |-> OpenEdb(e)[e]]
      /\ files' = [e \in Edbs |-> IF e \in L THEN files[e] \cup edbs'[e] ELSE files[e]]
      /\ process' \in {"destroying", "exiting"} /\ flushed' = {}
      /\ UNCHANGED <<vars, sessions, catalog, deleting, queue, replies, saved>>
      /\ UNCHANGED <<torn, deleted, zombies>>
  BY <1>1 DEF FlushRest, Rest, gateway, wire, history
<1>3. \A e \in DOMAIN edbs : OpenEdb(e)[e] = edbs[e]
  BY DEF OpenEdb
<1>4. \A e \in L : e \notin DOMAIN edbs => OpenEdb(e)[e] = files[e]
  <2>1. ASSUME NEW e \in L, e \notin DOMAIN edbs PROVE OpenEdb(e)[e] = files[e]
    <3>1. IsPut(OpenEdb(e), edbs, e, files[e])
      BY <2>1, PutFacts DEF OpenEdb
    <3> QED BY <3>1 DEF IsPut
  <2> QED BY <2>1
<1>5. PICK E : E = edbs'
  OBVIOUS
<1>6. /\ DOMAIN E = DOMAIN edbs \cup L /\ \A e \in DOMAIN edbs : E[e] = edbs[e]
      /\ \A e \in L : e \notin DOMAIN edbs => E[e] = files[e]
      /\ E = [e \in DOMAIN E |-> E[e]]
  BY <1>2, <1>3, <1>4, <1>5
<1>7. \A e \in Edbs : files'[e] = IF e \in L THEN files[e] \cup E[e] ELSE files[e]
  BY <1>2, <1>5
<1>8. Blobs(edbs, files)
  BY DEF Inv, Disk
<1>9. \A e \in DOMAIN E : e \in Edbs /\ E[e] \in SUBSET Updates
  BY <1>1, <1>6, <1>8 DEF Blobs
<1>10. Blobs(edbs, files)'
  <2>1. E \in [DOMAIN E -> SUBSET Updates]
    BY <1>6, <1>9
  <2>2. \A e \in Edbs : files'[e] \in SUBSET Updates
    BY <1>6, <1>7, <1>8, <1>9 DEF Blobs
  <2>3. files' \in [Edbs -> SUBSET Updates]
    BY <1>2, <1>5, <1>7, <2>2
  <2> QED BY <1>5, <1>9, <2>1, <2>3 DEF Blobs
<1>11. Bound' = Bound /\ snapshots' = snapshots
  BY <1>2, MapStays DEF vars
<1>12. ASSUME ~torn
       PROVE  Fresh' /\ Gone' /\ StoredIn(snapshots, zombies, edbs, files)'
  <2>1. Fresh /\ Gone /\ StoredIn(snapshots, zombies, edbs, files) /\ deleted \subseteq Edbs
    BY <1>12 DEF Inv, Disk
  <2>2. Fresh'
    BY <1>2, <1>11, <2>1 DEF Fresh, vars
  <2>3. Gone'
    BY <1>1, <1>2, <1>7, <1>11, <2>1 DEF Gone, OnDisk
  <2>4. StoredIn(snapshots, zombies, edbs, files)'
    BY <1>2, <1>5, <1>6, <1>7, <1>11, <2>1 DEF StoredIn
  <2> QED BY <2>2, <2>3, <2>4
<1>13. Disk'
  BY <1>2, <1>5, <1>6, <1>10, <1>11, <1>12 DEF Inv, Disk
<1>14. Shapes'
  BY <1>2 DEF Inv, Shapes
<1>15. Calls'
  BY <1>2, CallsStay DEF Inv, Enclave, vars
<1>16. Enclave'
  BY <1>2, EnclaveStays DEF Inv
<1> QED BY <1>13, <1>14, <1>15, <1>16 DEF Inv

(* With edb_id_map, every claim on a database is gone.                     *)
LEMMA ProcessEndsInv ==
  ASSUME Inv, ProcessEnds,
         \/ UNCHANGED <<next_db_id, torn>>
         \/ /\ next_db_id <= MaxEdbs /\ next_db_id' \in {next_db_id + 1, 1}
            /\ torn' = (torn \/ next_db_id' < next_db_id)
  PROVE  Inv'
<1>1. /\ process' = "gone" /\ flushed' = {} /\ active' = NoCtx /\ inactive' = Empty
      /\ edb_id_map' = [c \in {} |-> 0] /\ edbs' = [e \in {} |-> {}] /\ queue' = <<>>
      /\ zombies' = {e \in zombies : OnDisk(e) \/ files[e] # {}}
      /\ UNCHANGED <<snapshots, creator, updates, acked, sessions, catalog, deleting>>
      /\ UNCHANGED <<files, saved, deleted>>
  BY DEF ProcessEnds, gateway
<1>2. DOMAIN edb_id_map' = {} /\ Bound' = {} /\ DOMAIN edbs' = {}
  BY <1>1 DEF Bound, Range
<1>3. next_db_id' \in 1..(MaxEdbs + 1) /\ torn' \in BOOLEAN
  <2>1. next_db_id \in 1..(MaxEdbs + 1) /\ torn \in BOOLEAN
    BY DEF Inv, Enclave, Disk
  <2>2. next_db_id' \in 1..(MaxEdbs + 1)
    BY <2>1
  <2>3. torn' = torn \/ torn' = (torn \/ next_db_id' < next_db_id)
    OBVIOUS
  <2>4. torn' \in BOOLEAN
    BY <2>1, <2>3, Zenon
  <2> QED BY <2>2, <2>4
<1>4. Shapes'
  BY <1>1 DEF Inv, Shapes
<1>5. Enclave'
  <2>1. Contexts(NoCtx, Empty, snapshots, {})
    BY DEF Contexts, Empty, Inv, Enclave
  <2>2. Contexts(active, inactive, snapshots, Bound)'
    BY <1>1, <1>2, <2>1 DEF Contexts, Genuine
  <2> QED BY <1>1, <1>2, <1>3, <2>2 DEF Inv, Enclave
<1>6. Calls'
  <2>1. DOMAIN queue' = {} /\ queue' \in Seq(Call)
    BY <1>1
  <2>2. \A i \in DOMAIN queue :
          Answered([client |-> queue[i].client, kind |-> queue[i].kind, ok |-> FALSE,
                    edb |-> queue[i].edb, update |-> NoUpdate])
    BY DEF Inv, Calls, Asked, Call, Answered, Answer
  <2>3. \A r \in replies' : Answered(r)
    BY <2>2 DEF ProcessEnds, Inv, Calls
  <2> QED BY <1>2, <2>1, <2>3 DEF Calls, OneInit
<1>7. ASSUME ~torn' PROVE Fresh' /\ Gone' /\ StoredIn(snapshots, zombies, edbs, files)'
  <2>1. Fresh /\ Gone /\ StoredIn(snapshots, zombies, edbs, files) /\ deleted \subseteq Edbs
    BY <1>7 DEF Inv, Disk
  <2>2. next_db_id' >= next_db_id /\ next_db_id \in Nat /\ next_db_id' \in Nat
    BY <1>3, <1>7 DEF Inv, Enclave
  <2>3. \A e \in Edbs : e >= next_db_id' => e >= next_db_id
    BY <2>2 DEF Edbs
  <2>4. Fresh'
    BY <1>1, <1>2, <2>1, <2>3 DEF Fresh
  <2>5. Gone'
    BY <1>1, <1>2, <2>1 DEF Gone, OnDisk
  <2>6. StoredIn(snapshots, zombies, edbs, files)'
    BY <1>1, <1>2, <2>1, NoCtxFacts DEF StoredIn, OnDisk
  <2> QED BY <2>4, <2>5, <2>6
<1>8. Disk'
  <2>1. Blobs(edbs, files)'
    BY <1>1, <1>2 DEF Blobs, Inv, Disk
  <2> QED BY <1>1, <1>2, <1>3, <1>7, <2>1 DEF Inv, Disk
<1> QED BY <1>4, <1>5, <1>6, <1>8 DEF Inv

LEMMA SignalStartInv ==
  ASSUME Inv, Signal \/ Start
  PROVE  Inv'
<1>1. /\ UNCHANGED <<vars, sessions, catalog, deleting, queue, replies, flushed>>
      /\ UNCHANGED <<edbs, files, saved, torn, deleted, zombies>>
      /\ process' \in {"up", "flushing"}
  BY DEF Signal, Start, gateway, wire, disk, history
<1>2. Shapes'
  BY <1>1 DEF Inv, Shapes
<1>3. Calls'
  BY <1>1, CallsStay DEF Inv, Enclave, vars
<1>4. Enclave'
  BY <1>1, EnclaveStays DEF Inv
<1>5. Disk'
  BY <1>1, DiskStays DEF Inv
<1> QED BY <1>2, <1>3, <1>4, <1>5 DEF Inv

-----------------------------------------------------------------------------
LEMMA StepInv ==
  ASSUME Inv, [DbNext]_dbvars
  PROVE  Inv'
<1>1. CASE UNCHANGED dbvars
  <2>1. UNCHANGED <<vars, sessions, catalog, deleting, queue, replies, process, flushed,
                    edbs, files, saved, torn, deleted, zombies>>
    BY <1>1 DEF dbvars, gateway, wire, server, disk, history
  <2>2. Shapes'
    BY <2>1 DEF Inv, Shapes
  <2>3. Calls'
    BY <2>1, CallsStay DEF Inv, Enclave, vars
  <2>4. Enclave'
    BY <2>1, EnclaveStays DEF Inv
  <2>5. Disk'
    BY <2>1, DiskStays DEF Inv
  <2> QED BY <2>2, <2>3, <2>4, <2>5 DEF Inv
<1>2. ASSUME NEW c \in Clients, NEW e \in {0} \cup Edbs, SessionInit(c, e) PROVE Inv'
  BY <1>2, SessionInitInv
<1>3. ASSUME NEW c \in Clients, Insert(c) \/ SessionShutdown(c) PROVE Inv'
  BY <1>3, SessionCallInv
<1>4. ASSUME NEW i \in DOMAIN queue, Timeout(i) PROVE Inv'
  BY <1>4, TimeoutInv
<1>5. ASSUME NEW r \in replies, Receive(r) PROVE Inv'
  BY <1>5, ReceiveInv
<1>6. ASSUME NEW e \in Edbs, CheckDelete(e) PROVE Inv'
  BY <1>6, CheckDeleteInv
<1>7. CASE RemoveTree
  BY <1>7, RemoveTreeInv
<1>8. CASE ServerStep
  <2>1. CASE ServeCreate
    BY <2>1, ServeCreateInv
  <2>2. CASE ServeResume
    BY <2>2, ServeResumeInv
  <2>3. CASE ServeUpdate
    BY <2>3, ServeUpdateInv
  <2>4. CASE ServeShutdown
    BY <2>4, ServeShutdownInv
  <2>5. CASE FlushRest
    BY <2>5, FlushRestInv
  <2>6. CASE Exit
    BY <2>6, ProcessEndsInv DEF Exit
  <2>7. ASSUME NEW c \in Clients, FlushNext(c) PROVE Inv'
    BY <2>7, FlushNextInv
  <2> QED BY <1>8, <2>1, <2>2, <2>3, <2>4, <2>5, <2>6, <2>7 DEF ServerStep
<1>9. CASE Signal \/ Start
  BY <1>9, SignalStartInv
<1>10. CASE Crash \/ CrashRegistering
  BY <1>10, ProcessEndsInv DEF Crash, CrashRegistering
<1> QED BY <1>1, <1>2, <1>3, <1>4, <1>5, <1>6, <1>7, <1>8, <1>9, <1>10 DEF DbNext

THEOREM AlwaysInv == DbSpec => []Inv
<1>1. Inv /\ [DbNext]_dbvars => Inv'
  BY StepInv
<1> QED BY <1>1, InitInv, PTL DEF DbSpec

(* Every variable keeps its type.                                          *)
THEOREM DatabasesTypeCorrect == DbSpec => []DbTypeOK
BY AlwaysInv, TypesFromInv, PTL

(* No request, flush, crash or restart brings a deleted database back that *)
(* was not in edb_id_map when it was deleted.                              *)
THEOREM DeletedAlwaysStays == DbSpec => []DeletedStays
<1>1. Inv => DeletedStays
  BY DEF Inv, Disk, Gone, DeletedStays, OnDisk
<1> QED BY <1>1, AlwaysInv, PTL

(* Whatever is evicted, flushed or lost, what a sealed context refers to   *)
(* is on disk and where the enclave will be answered from.                 *)
THEOREM SealedAlwaysStored == DbSpec => []SealedIsStored
<1>1. Inv => SealedIsStored
  <2> SUFFICES ASSUME Inv PROVE SealedIsStored
    OBVIOUS
  <2>1. /\ active # NoCtx => active.edb \in DOMAIN edbs
        /\ \A c \in DOMAIN inactive : inactive[c].edb \in DOMAIN edbs
    BY DEF Inv, Enclave, Contexts, Disk
  <2>2. ~torn => \A e \in Edbs \ zombies :
          /\ snapshots[e].log \subseteq files[e]
          /\ e \in DOMAIN edbs => snapshots[e].log \subseteq edbs[e]
    BY DEF Inv, Disk, StoredIn
  <2> QED BY <2>1, <2>2 DEF SealedIsStored
<1> QED BY <1>1, AlwaysInv, PTL

(* Only Create gives a number out, and it gives out one that is fresh.     *)
THEOREM NumbersNeverReused == DbSpec => NumbersNotReused
<1>1. ASSUME Inv, [DbNext]_dbvars, ~torn, NEW e \in Edbs, creator[e] # NoClient
      PROVE  creator'[e] = creator[e]
  <2>1. CASE creator' = creator
    BY <2>1
  <2>2. ASSUME NEW c, Create(c) PROVE creator'[e] = creator[e]
    <3>1. e # next_db_id
      BY <1>1 DEF Inv, Disk, Fresh, Edbs
    <3>2. creator' = [creator EXCEPT ![next_db_id] = c]
      BY <2>2 DEF Create
    <3> QED BY <3>1, <3>2 DEF Inv, Enclave
  <2>3. creator' = creator \/ \E c : Create(c)
    <3>1. CASE UNCHANGED vars
      BY <3>1 DEF vars
    <3>2. CASE ServerStep
      BY <3>2 DEF ServerStep, ServeCreate, ServeResume, ServeUpdate, ServeShutdown, FlushRest,
                  Rest, Exit, ProcessEnds, FlushNext, FlushClientEdb, Refused, Resume, Update,
                  Shutdown, vars
    <3>3. CASE Crash \/ CrashRegistering \/ RemoveTree
      BY <3>3 DEF Crash, CrashRegistering, ProcessEnds, RemoveTree
    <3>4. UNCHANGED vars \/ ServerStep \/ Crash \/ CrashRegistering \/ RemoveTree
      BY <1>1 DEF DbNext, dbvars, SessionInit, Insert, SessionShutdown, Send, Timeout,
                  Receive, CheckDelete, Signal, Start
    <3> QED BY <3>1, <3>2, <3>3, <3>4
  <2> QED BY <2>1, <2>2, <2>3
<1>2. Inv /\ [DbNext]_dbvars =>
        [~torn => \A e \in Edbs : creator[e] # NoClient => creator'[e] = creator[e]]_dbvars
  BY <1>1
<1> QED BY <1>2, AlwaysInv, PTL DEF DbSpec, NumbersNotReused

-----------------------------------------------------------------------------
(* The gateway's catalogs know every document that the enclave's contexts  *)
(* know, as long as sessions are used with the care that CatalogCovers     *)
(* describes.                                                              *)
(*                                                                         *)
(* Scheduling only moves contexts between the enclave and the disk, so     *)
(* only an update adds to a log, and its reply is on its way to the        *)
(* catalog until it arrives there (Known).  Between two sessions of one    *)
(* database what the catalog knows is in catalog.json (Closed).            *)

(* Requests that the server has not served, and what the gateway waits for. *)
Waiting == {queue[i] : i \in DOMAIN queue}
Outs == {<<m.client, m.kind>> : m \in {w \in Waiting : w.live} \cup replies}

(* A session that is bound to a database has been opened, and its catalog  *)
(* is in memory unless the database was deleted.                           *)
Begun ==
  \A c \in Clients :
    /\ sessions[c].pc = "open" => sessions[c].edb # 0
    /\ sessions[c].edb # 0 =>
         /\ sessions[c].pc \in {"open", "closed"}
         /\ sessions[c].edb \in Edbs \cap (DOMAIN catalog \cup deleted)

(* Requests and replies concern the database of their session; one that    *)
(* binds a session has no rival.                                           *)
Addressed ==
  \A m \in Waiting \cup replies :
    IF Initial(m) THEN sessions[m.client].pc # "none" /\ sessions[m.client].edb = 0
    ELSE m.edb = sessions[m.client].edb /\ m.edb # 0

InitOnce ==
  \A r \in replies : Initial(r) =>
    /\ \A w \in Waiting : Initial(w) => w.client # r.client
    /\ \A s \in replies : Initial(s) /\ s.client = r.client => s = r

(* What it means for a database that its sessions are used with care.      *)
Careful ==
  /\ \A c \in Clients : sessions[c].edb \notin careless /\ <<c, "UPDATE">> \in Outs =>
       sessions[c].pc = "open" /\ <<c, "SHUTDOWN">> \notin Outs
  /\ \A w \in Waiting : w.kind = "UPDATE" /\ ~w.live => w.edb \in careless
  /\ zombies \subseteq careless

Closed ==
  \A e \in DOMAIN catalog \ careless : Open(e) = {} => catalog[e] \subseteq saved[e]

Talk == Begun /\ Addressed /\ InitOnce /\ Careful /\ Closed

(* The server binds a client to the database that its session is bound to. *)
Bindings ==
  /\ \A c \in DOMAIN edb_id_map : sessions[c].edb # 0 => edb_id_map[c] = sessions[c].edb
  /\ \A r \in replies : Initial(r) /\ r.ok /\ r.client \in DOMAIN edb_id_map =>
       edb_id_map[r.client] = r.edb

(* Every context belongs to a client that is done with being connected,    *)
(* and to no other database than the one that client is connected to.      *)
Copies(a, i, s) == ({a} \cup {i[k] : k \in DOMAIN i} \cup {s[e] : e \in Edbs}) \ {NoCtx}
AllCopies == Copies(active, inactive, snapshots)

Owners ==
  /\ \A k \in DOMAIN inactive : inactive[k].client = k
  /\ \A x \in AllCopies :
       /\ sessions[x.client].pc # "none"
       /\ \A w \in Waiting : Initial(w) => w.client # x.client
       /\ x.client \in DOMAIN edb_id_map => edb_id_map[x.client] = x.edb

(* What the gateway knows of database e, or will when it has read all      *)
(* replies.                                                                *)
Coming(R, e) == {r.update : r \in {s \in R : s.kind = "UPDATE" /\ s.ok /\ s.edb = e}}
Listed(e) == IF e \in DOMAIN catalog THEN catalog[e] ELSE {}
Known ==
  ~torn => \A x \in AllCopies : x.edb \notin careless =>
    x.log \subseteq Listed(x.edb) \cup Coming(replies, x.edb)

CInv == Talk /\ Bindings /\ Owners /\ Known

-----------------------------------------------------------------------------
(* The queue as a set.                                                     *)

LEMMA OutsFacts ==
  ASSUME NEW c, NEW k PROVE Outstanding(c, k) <=> <<c, k>> \in Outs
BY DEF Outstanding, Outs, Waiting

LEMMA WaitingCalls ==
  ASSUME Calls
  PROVE  /\ \A w \in Waiting : Asked(w) /\ w.client \in Clients /\ w.kind \in Kinds
         /\ \A r \in replies : Answered(r) /\ r.client \in Clients /\ r.kind \in Kinds
         /\ \A v, w \in Waiting : Initial(v) /\ Initial(w) /\ v.client = w.client => v = w
         /\ \A w \in Waiting : Initial(w) =>
              w.client \notin DOMAIN edb_id_map /\ sessions[w.client].pc # "none"
BY DEF Calls, Waiting, OneInit, Asked, Call, Answered, Answer

LEMMA ServedWaiting ==
  ASSUME Calls, queue # <<>>, queue' = Tail(queue)
  PROVE  /\ Head(queue) \in Waiting /\ Waiting' \subseteq Waiting
         /\ Initial(Head(queue)) =>
              \A w \in Waiting' : Initial(w) => w.client # Head(queue).client
<1>1. IsTail(queue', queue)
  BY TailFacts DEF Calls
<1>2. Head(queue) \in Waiting
  BY <1>1 DEF IsTail, Waiting
<1>3. \A w \in Waiting' : \E j \in DOMAIN queue : j # 1 /\ w = queue[j]
  <2> SUFFICES ASSUME NEW i \in DOMAIN queue'
               PROVE  \E j \in DOMAIN queue : j # 1 /\ queue'[i] = queue[j]
    BY DEF Waiting
  <2>1. i + 1 \in DOMAIN queue /\ queue'[i] = queue[i + 1] /\ i + 1 # 1
    BY <1>1 DEF IsTail
  <2> QED BY <2>1
<1>4. 1 \in DOMAIN queue /\ Head(queue) = queue[1]
  BY <1>1 DEF IsTail
<1>5. Waiting' \subseteq Waiting
  BY <1>3 DEF Waiting
<1>6. ASSUME Initial(Head(queue)), NEW w \in Waiting', Initial(w)
      PROVE  w.client # Head(queue).client
  <2>1. PICK j \in DOMAIN queue : j # 1 /\ w = queue[j]
    BY <1>3
  <2> QED BY <1>4, <1>6, <2>1 DEF Calls, OneInit
<1> QED BY <1>2, <1>5, <1>6

LEMMA SentWaiting ==
  ASSUME Calls, NEW x, Asked(x), queue' = Append(queue, x)
  PROVE  Waiting' = Waiting \cup {x}
<1>1. IsAppended(queue', queue, x)
  BY AppendFacts DEF Calls, Asked
<1> QED BY <1>1 DEF IsAppended, Waiting

(* What becomes of the set of calls outstanding.                           *)
LEMMA OutsShrink ==
  ASSUME \A w \in Waiting' : w.live =>
           \E v \in Waiting : v.live /\ v.client = w.client /\ v.kind = w.kind,
         \A r \in replies' :
           \/ r \in replies
           \/ \E v \in Waiting : v.live /\ v.client = r.client /\ v.kind = r.kind
  PROVE  Outs' \subseteq Outs
BY DEF Outs

-----------------------------------------------------------------------------
(* Talk under the steps of the server.                                     *)

(* Sessions, catalogs and what is known of them stay.                      *)
GatewayStays ==
  UNCHANGED <<sessions, catalog, saved, careless, deleted>> /\ zombies' \subseteq zombies

(* Requests become replies.                                                *)
LEMMA TalkServed ==
  ASSUME Talk, GatewayStays, Waiting' \subseteq Waiting, Outs' \subseteq Outs,
         \A m \in replies' : m \in replies \/
           \E w \in Waiting : /\ m.client = w.client /\ m.kind = w.kind
                              /\ ~Initial(w) => m.edb = w.edb,
         InitOnce'
  PROVE  Talk'
<1>1. \A c \in Clients : sessions'[c] = sessions[c]
  BY DEF GatewayStays
<1>2. \A e : Open(e)' = Open(e)
  BY DEF GatewayStays, Open
<1>3. Begun'
  BY DEF Talk, Begun, GatewayStays
<1>4. Addressed'
  BY DEF Talk, Addressed, GatewayStays, Initial
<1>5. Careful'
  BY DEF Talk, Careful, GatewayStays
<1>6. Closed'
  BY <1>2 DEF Talk, Closed, GatewayStays
<1> QED BY <1>3, <1>4, <1>5, <1>6 DEF Talk

LEMMA TalkReply ==
  ASSUME Calls, Talk, GatewayStays, queue # <<>>, NEW ok, NEW e, NEW u, Reply(ok, e, u),
         Initial(Head(queue)) \/ e = Head(queue).edb
  PROVE  Talk'
<1>1. PICK q : q = Head(queue)
  OBVIOUS
<1>2. PICK p : p = ReplyTo(q, ok, e, u)
  OBVIOUS
<1>3. /\ q \in Waiting /\ Waiting' \subseteq Waiting
      /\ Initial(q) => \A w \in Waiting' : Initial(w) => w.client # q.client
  BY <1>1, ServedWaiting DEF Reply
<1>4. replies' = IF q.live THEN replies \cup {p} ELSE replies
  BY <1>1, <1>2 DEF Reply, ReplyTo
<1>5. p.client = q.client /\ p.kind = q.kind /\ p.edb = e
  BY <1>2 DEF ReplyTo
<1>6. Outs' \subseteq Outs
  BY <1>3, <1>4, <1>5, OutsShrink
<1>7. InitOnce'
  BY <1>3, <1>4, <1>5 DEF Talk, InitOnce, Initial
<1> QED BY <1>1, <1>3, <1>4, <1>5, <1>6, <1>7, TalkServed

LEMMA TalkEnds ==
  ASSUME Calls, Talk, ProcessEnds
  PROVE  Talk'
<1> DEFINE lost(w) == [client |-> w.client, kind |-> w.kind, ok |-> FALSE,
                       edb |-> w.edb, update |-> NoUpdate]
<1>1. Waiting' = {} /\ GatewayStays
  BY DEF ProcessEnds, Waiting, GatewayStays, gateway
<1>2. \A m \in replies' : m \in replies \/ \E w \in Waiting : w.live /\ m = lost(w)
  BY DEF ProcessEnds, Waiting
<1>3. Outs' \subseteq Outs
  BY <1>1, <1>2, OutsShrink
<1>4. InitOnce'
  <2> SUFFICES ASSUME NEW r \in replies', NEW s \in replies', Initial(r), Initial(s),
                      s.client = r.client
               PROVE  s = r
    BY <1>1 DEF InitOnce
  <2>1. r \in replies \/ \E w \in Waiting : r = lost(w) /\ Initial(w) /\ w.client = r.client
    BY <1>2 DEF Initial
  <2>2. s \in replies \/ \E w \in Waiting : s = lost(w) /\ Initial(w) /\ w.client = s.client
    BY <1>2 DEF Initial
  <2> HIDE DEF lost
  <2> QED BY <2>1, <2>2, WaitingCalls DEF Talk, InitOnce
<1> QED BY <1>1, <1>2, <1>3, <1>4, TalkServed
-----------------------------------------------------------------------------
(* Talk under the steps of the gateway.                                    *)

LEMMA SendTalk ==
  ASSUME Inv, NEW c \in Clients, NEW k \in Kinds, NEW e \in 0..MaxEdbs, Send(c, k, e),
         k = "RESUME" => e \in Edbs,
         NEW x, x = [client |-> c, kind |-> k, edb |-> e, live |-> TRUE]
  PROVE  /\ Waiting' = Waiting \cup {x} /\ Outs' = Outs \cup {<<c, k>>}
         /\ replies' = replies /\ UNCHANGED <<vars, catalog, saved, torn, deleted, zombies>>
<1>1. Asked(x)
  BY DEF Asked, Call
<1>2. queue' = Append(queue, x) /\ replies' = replies
  BY DEF Send
<1>3. Waiting' = Waiting \cup {x}
  BY <1>1, <1>2, SentWaiting DEF Inv
<1>4. Outs' = Outs \cup {<<c, k>>}
  BY <1>2, <1>3 DEF Outs
<1> QED BY <1>2, <1>3, <1>4 DEF Send, disk

(* A session that has not begun has nothing under way.                     *)
LEMMA TalkSessionInit ==
  ASSUME Inv, Talk, NEW c \in Clients, NEW e \in {0} \cup Edbs, SessionInit(c, e)
  PROVE  /\ Talk' /\ replies' = replies
         /\ \E x : Waiting' = Waiting \cup {x} /\ x.client = c
         /\ UNCHANGED <<vars, catalog, saved, careless, torn, deleted, zombies>>
         /\ sessions[c] = [pc |-> "none", edb |-> 0]
         /\ sessions' = [sessions EXCEPT ![c] = [pc |-> "init", edb |-> 0]]
<1>1. /\ sessions[c].pc = "none" /\ sessions' = [sessions EXCEPT ![c].pc = "init"]
      /\ careless' = careless
      /\ sessions \in [Clients -> [pc : {"none", "init", "open", "closed"}, edb : 0..MaxEdbs]]
  BY DEF SessionInit, Inv, Shapes
<1>2. PICK k \in {"CREATE", "RESUME"} : Send(c, k, e) /\ (k = "RESUME" => e \in Edbs)
  BY DEF SessionInit
<1>3. PICK x : x = [client |-> c, kind |-> k, edb |-> e, live |-> TRUE]
  OBVIOUS
<1>4. k \in Kinds /\ e \in 0..MaxEdbs
  BY DEF Kinds, Edbs
<1>5. /\ Waiting' = Waiting \cup {x} /\ Outs' = Outs \cup {<<c, k>>}
      /\ replies' = replies /\ UNCHANGED <<vars, catalog, saved, torn, deleted, zombies>>
  BY <1>2, <1>3, <1>4, SendTalk
<1>6. sessions[c].edb = 0
  BY <1>1 DEF Talk, Begun
<1>7. /\ sessions[c] = [pc |-> "none", edb |-> 0]
      /\ sessions' = [sessions EXCEPT ![c] = [pc |-> "init", edb |-> 0]]
  <2>1. sessions[c] = [pc |-> "none", edb |-> 0]
    BY <1>1, <1>6
  <2>2. [sessions[c] EXCEPT !.pc = "init"] = [pc |-> "init", edb |-> 0]
    BY <2>1
  <2> QED BY <1>1, <2>1, <2>2
<1>8. /\ sessions'[c] = [pc |-> "init", edb |-> 0]
      /\ \A b \in Clients : b # c => sessions'[b] = sessions[b]
  BY <1>1, <1>7
<1>9. \A m \in Waiting \cup replies : m.client \in Clients
  BY WaitingCalls DEF Inv
<1>10. \A m \in Waiting \cup replies : m.client # c
  BY <1>1, <1>6 DEF Talk, Addressed
<1>11. x.client = c /\ Initial(x) /\ x.live /\ x.kind = k
  BY <1>2, <1>3 DEF Initial
<1>12. \A f : Open(f)' = Open(f)
  BY <1>1, <1>8 DEF Open
<1>13. Begun'
  BY <1>5, <1>8 DEF Talk, Begun
<1>14. Addressed'
  <2> SUFFICES ASSUME NEW m \in (Waiting \cup replies)'
               PROVE  IF Initial(m) THEN sessions'[m.client].pc # "none" /\ sessions'[m.client].edb = 0
                      ELSE m.edb = sessions'[m.client].edb /\ m.edb # 0
    BY DEF Addressed, Initial
  <2>1. CASE m = x
    BY <1>8, <1>11, <2>1
  <2>2. CASE m \in Waiting \cup replies
    <3>1. sessions'[m.client] = sessions[m.client]
      BY <1>8, <1>9, <1>10, <2>2
    <3> QED BY <2>2, <3>1 DEF Talk, Addressed
  <2> QED BY <1>5, <2>1, <2>2
<1>15. InitOnce'
  BY <1>5, <1>10, <1>11 DEF Talk, InitOnce, Initial
<1>16. Careful'
  BY <1>1, <1>2, <1>5, <1>8, <1>11 DEF Talk, Careful, Begun
<1>17. Closed'
  BY <1>1, <1>5, <1>12 DEF Talk, Closed
<1> QED BY <1>1, <1>5, <1>6, <1>7, <1>8, <1>11, <1>13, <1>14, <1>15, <1>16, <1>17 DEF Talk

(* An insert or a shutdown that overlaps the other is careless.            *)
LEMMA TalkSessionCall ==
  ASSUME Inv, Talk, NEW c \in Clients, Insert(c) \/ SessionShutdown(c)
  PROVE  /\ Talk' /\ replies' = replies
         /\ \E x : Waiting' = Waiting \cup {x} /\ ~Initial(x)
         /\ UNCHANGED <<vars, sessions, catalog, saved, torn, deleted, zombies>>
         /\ careless \subseteq careless'
<1>1. PICK k \in {"UPDATE", "SHUTDOWN"}, e \in 0..MaxEdbs :
        Send(c, k, e) /\ e = sessions[c].edb
  BY DEF Insert, SessionShutdown, Inv, Shapes
<1>2. PICK x : x = [client |-> c, kind |-> k, edb |-> e, live |-> TRUE]
  OBVIOUS
<1>3. /\ Waiting' = Waiting \cup {x} /\ Outs' = Outs \cup {<<c, k>>}
      /\ replies' = replies /\ UNCHANGED <<vars, catalog, saved, torn, deleted, zombies>>
  BY <1>1, <1>2, SendTalk DEF Kinds
<1>4. x.client = c /\ ~Initial(x) /\ x.live /\ x.kind = k /\ x.edb = e
  BY <1>1, <1>2 DEF Initial
<1>5. sessions' = sessions /\ careless \subseteq careless'
  BY DEF Insert, SessionShutdown
<1>6. e # 0
  BY <1>1 DEF Insert, SessionShutdown, Talk, Begun
<1>7. \A f : Open(f)' = Open(f)
  BY <1>5 DEF Open
<1>8. Begun'
  BY <1>3, <1>5 DEF Talk, Begun
<1>9. Addressed'
  BY <1>1, <1>3, <1>4, <1>5, <1>6 DEF Talk, Addressed, Initial
<1>10. InitOnce'
  BY <1>3, <1>4, <1>5 DEF Talk, InitOnce, Initial
<1>11. Closed'
  BY <1>3, <1>5, <1>7 DEF Talk, Closed
<1>12. ASSUME e \notin careless', <<c, "UPDATE">> \in Outs'
       PROVE  sessions[c].pc = "open" /\ <<c, "SHUTDOWN">> \notin Outs'
  <2>1. CASE Insert(c)
    <3>1. <<c, "SHUTDOWN">> \notin Outs /\ sessions[c].pc # "closed"
      BY <1>1, <1>12, <2>1, OutsFacts DEF Insert
    <3>2. <<c, "SHUTDOWN">> \notin Outs'
      BY <1>3, <2>1, <3>1, <1>1 DEF Insert, Send
    <3> QED BY <1>1, <1>6, <3>1, <3>2 DEF Talk, Begun
  <2>2. CASE SessionShutdown(c)
    <3>1. k = "SHUTDOWN"
      BY <1>1, <1>2, <1>3, <2>2 DEF SessionShutdown, Send
    <3>2. <<c, "UPDATE">> \in Outs
      BY <1>3, <1>12, <3>1
    <3>3. e \in careless'
      BY <1>1, <2>2, <3>2, OutsFacts DEF SessionShutdown
    <3> QED BY <1>12, <3>3
  <2> QED BY <2>1, <2>2
<1>13. Careful'
  <2>1. \A b \in Clients : b # c =>
          (<<b, "UPDATE">> \in Outs' <=> <<b, "UPDATE">> \in Outs) /\
          (<<b, "SHUTDOWN">> \in Outs' <=> <<b, "SHUTDOWN">> \in Outs)
    BY <1>3
  <2>2. \A b \in Clients : sessions[b].edb \notin careless' /\ <<b, "UPDATE">> \in Outs' =>
          sessions[b].pc = "open" /\ <<b, "SHUTDOWN">> \notin Outs'
    BY <1>1, <1>5, <1>12, <2>1 DEF Talk, Careful
  <2>3. \A w \in Waiting' : w.kind = "UPDATE" /\ ~w.live => w.edb \in careless'
    BY <1>3, <1>4, <1>5 DEF Talk, Careful
  <2>4. zombies' \subseteq careless'
    BY <1>3, <1>5 DEF Talk, Careful
  <2> QED BY <1>5, <2>2, <2>3, <2>4 DEF Careful
<1> QED BY <1>3, <1>4, <1>5, <1>8, <1>9, <1>10, <1>11, <1>13 DEF Talk

(* A call that timed out is no longer waited for.                          *)
LEMMA TalkTimeout ==
  ASSUME Inv, Talk, NEW i \in DOMAIN queue, Timeout(i)
  PROVE  /\ Talk' /\ replies' = replies
         /\ \A w \in Waiting' : \E v \in Waiting : v.client = w.client /\ v.kind = w.kind
         /\ UNCHANGED <<vars, catalog, saved, torn, deleted, zombies>>
         /\ careless \subseteq careless'
         /\ \A c \in Clients : /\ sessions'[c].edb = sessions[c].edb
                               /\ sessions[c].pc # "none" => sessions'[c].pc # "none"
<1>1. PICK q : q = queue[i]
  OBVIOUS
<1>2. q \in Waiting /\ q \in Call
  BY <1>1 DEF Waiting, Inv, Calls, Asked
<1>3. /\ replies' = replies /\ careless \subseteq careless'
      /\ UNCHANGED <<vars, catalog, saved, torn, deleted, zombies>>
  BY DEF Timeout, disk
<1>4. \A w \in Waiting' : w \in Waiting \/ w = [q EXCEPT !.live = FALSE]
  <2>1. queue' = [queue EXCEPT ![i].live = FALSE]
    BY DEF Timeout
  <2>2. DOMAIN queue' = DOMAIN queue
    BY <2>1
  <2>3. ASSUME NEW j \in DOMAIN queue
        PROVE  queue'[j] \in Waiting \/ queue'[j] = [q EXCEPT !.live = FALSE]
    BY <1>1, <2>1 DEF Waiting
  <2> QED BY <2>2, <2>3 DEF Waiting
<1>5. PICK d : d = [q EXCEPT !.live = FALSE]
  OBVIOUS
<1>6. d.client = q.client /\ d.kind = q.kind /\ d.edb = q.edb /\ ~d.live
  BY <1>2, <1>5 DEF Call
<1>7. PICK b \in Clients : b = q.client
  BY <1>2 DEF Call
<1>8. sessions \in [Clients -> [pc : {"none", "init", "open", "closed"}, edb : 0..MaxEdbs]]
  BY DEF Inv, Shapes
<1>9. /\ ~Initial(q) => sessions' = sessions
      /\ Initial(q) => sessions' = [sessions EXCEPT ![b].pc = "closed"]
  BY <1>1, <1>7 DEF Timeout, Initial
<1>10. \A c \in Clients : /\ sessions'[c].edb = sessions[c].edb
                          /\ sessions'[c] = sessions[c] \/
                               (c = b /\ Initial(q) /\ sessions'[c].pc = "closed")
  BY <1>8, <1>9
<1>11. Initial(q) => sessions[b].edb = 0
  BY <1>2, <1>7 DEF Talk, Addressed
<1>12. Outs' \subseteq Outs
  <2>1. \A w \in Waiting' : w.live => w \in Waiting
    BY <1>4, <1>5, <1>6
  <2> QED BY <1>3, <2>1 DEF Outs
<1>13. \A f \in Edbs : Open(f)' = Open(f)
  <2>1. ASSUME NEW f \in Edbs, NEW c \in Clients
        PROVE  sessions'[c] = [pc |-> "open", edb |-> f] <=>
               sessions[c] = [pc |-> "open", edb |-> f]
    <3>1. CASE sessions'[c] = sessions[c]
      BY <3>1
    <3>2. CASE c = b /\ Initial(q)
      BY <1>10, <1>11, <3>2 DEF Edbs
    <3> QED BY <1>10, <3>1, <3>2
  <2> QED BY <2>1 DEF Open
<1>14. Begun'
  BY <1>3, <1>10, <1>11 DEF Talk, Begun
<1>15. \A m \in Waiting \cup replies : m.client \in Clients
  BY WaitingCalls DEF Inv
<1>16. Addressed'
  <2>1. ASSUME NEW m \in (Waiting \cup replies)'
        PROVE  \E n \in Waiting \cup replies :
                 n.client = m.client /\ n.kind = m.kind /\ n.edb = m.edb
    BY <1>2, <1>3, <1>4, <1>5, <1>6
  <2>2. ASSUME NEW m \in (Waiting \cup replies)'
        PROVE  IF Initial(m) THEN sessions'[m.client].pc # "none" /\ sessions'[m.client].edb = 0
               ELSE m.edb = sessions'[m.client].edb /\ m.edb # 0
    <3>1. PICK n \in Waiting \cup replies :
            n.client = m.client /\ n.kind = m.kind /\ n.edb = m.edb
      BY <2>1
    <3>2. IF Initial(n) THEN sessions[n.client].pc # "none" /\ sessions[n.client].edb = 0
          ELSE n.edb = sessions[n.client].edb /\ n.edb # 0
      BY DEF Talk, Addressed
    <3>3. Initial(m) <=> Initial(n)
      BY <3>1 DEF Initial
    <3>4. /\ sessions'[n.client].edb = sessions[n.client].edb
          /\ sessions[n.client].pc # "none" => sessions'[n.client].pc # "none"
      BY <1>10, <1>15
    <3> QED BY <3>1, <3>2, <3>3, <3>4
  <2> QED BY <2>2 DEF Addressed, Initial
<1>17. InitOnce'
  <2>1. \A w \in Waiting' : Initial(w) => \E v \in Waiting : Initial(v) /\ v.client = w.client
    BY <1>2, <1>4, <1>5, <1>6 DEF Initial
  <2> QED BY <1>3, <2>1 DEF Talk, InitOnce, Initial
<1>18. Careful'
  <2>1. \A c \in Clients : sessions'[c].edb \notin careless' /\ <<c, "UPDATE">> \in Outs' =>
          sessions'[c].pc = "open" /\ <<c, "SHUTDOWN">> \notin Outs'
    <3>1. \A c \in Clients : sessions[c].edb \notin careless /\ <<c, "UPDATE">> \in Outs =>
            sessions[c].pc = "open" /\ <<c, "SHUTDOWN">> \notin Outs
      BY DEF Talk, Careful
    <3>2. Initial(q) => sessions[b].pc # "open"
      BY <1>11 DEF Talk, Begun
    <3> QED BY <1>3, <1>10, <1>12, <3>1, <3>2
  <2>2. \A w \in Waiting' : w.kind = "UPDATE" /\ ~w.live => w.edb \in careless'
    <3>1. q.kind = "UPDATE" => q.edb \in careless'
      BY <1>1 DEF Timeout
    <3> QED BY <1>3, <1>4, <1>5, <1>6, <3>1 DEF Talk, Careful
  <2> QED BY <1>3, <2>1, <2>2 DEF Talk, Careful
<1>19. Closed'
  BY <1>3, <1>13 DEF Talk, Closed, Inv, Shapes
<1>20. \A w \in Waiting' : \E v \in Waiting : v.client = w.client /\ v.kind = w.kind
  BY <1>2, <1>4, <1>5, <1>6
<1> QED BY <1>3, <1>10, <1>14, <1>16, <1>17, <1>18, <1>19, <1>20 DEF Talk
-----------------------------------------------------------------------------
(* What the gateway does to the rest: contexts and edb_id_map stay.        *)

LEMMA CopiesGenuine ==
  ASSUME Inv
  PROVE  \A x \in AllCopies : Genuine(x)
BY DEF Inv, Enclave, Contexts, AllCopies, Copies

LEMMA CopiesStay ==
  ASSUME UNCHANGED vars
  PROVE  AllCopies' = AllCopies /\ edb_id_map' = edb_id_map
BY DEF AllCopies, Copies, vars

LEMMA OwnersStay ==
  ASSUME Inv, Owners, UNCHANGED vars,
         \A c \in Clients : sessions[c].pc # "none" => sessions'[c].pc # "none",
         \A w \in Waiting' : Initial(w) =>
           \/ sessions[w.client].pc = "none"
           \/ \E v \in Waiting : Initial(v) /\ v.client = w.client
  PROVE  Owners'
<1>1. AllCopies' = AllCopies /\ edb_id_map' = edb_id_map /\ inactive' = inactive
  BY CopiesStay DEF vars
<1>2. ASSUME NEW x \in AllCopies
      PROVE  /\ sessions'[x.client].pc # "none"
             /\ \A w \in Waiting' : Initial(w) => w.client # x.client
             /\ x.client \in DOMAIN edb_id_map => edb_id_map[x.client] = x.edb
  <2>1. x.client \in Clients
    BY CopiesGenuine DEF Genuine
  <2>2. /\ sessions[x.client].pc # "none"
        /\ \A w \in Waiting : Initial(w) => w.client # x.client
        /\ x.client \in DOMAIN edb_id_map => edb_id_map[x.client] = x.edb
    BY DEF Owners
  <2> QED BY <2>1, <2>2
<1>3. \A k \in DOMAIN inactive : inactive[k].client = k
  BY DEF Owners
<1> QED BY <1>1, <1>2, <1>3 DEF Owners, Initial

LEMMA KnownStays ==
  ASSUME Known, UNCHANGED vars, torn' = torn, careless \subseteq careless',
         \A x \in AllCopies : x.edb \notin careless' =>
           Listed(x.edb) \cup Coming(replies, x.edb)
             \subseteq Listed(x.edb)' \cup Coming(replies', x.edb)
  PROVE  Known'
<1>1. AllCopies' = AllCopies
  BY CopiesStay
<1>2. ASSUME ~torn, NEW x \in AllCopies, x.edb \notin careless'
      PROVE  x.log \subseteq Listed(x.edb)' \cup Coming(replies', x.edb)
  BY <1>2 DEF Known
<1> QED BY <1>1, <1>2 DEF Known, Listed, Coming

(* A step that neither sends nor reads a call.                             *)
LEMMA FrameStep ==
  ASSUME Inv, CInv,
         UNCHANGED <<vars, sessions, catalog, queue, replies, saved, careless, torn, deleted, zombies>>
  PROVE  CInv'
<1>1. Waiting' = Waiting /\ Outs' = Outs
  BY DEF Waiting, Outs
<1>2. Talk'
  <2>1. GatewayStays
    BY DEF GatewayStays
  <2>2. InitOnce'
    BY <1>1 DEF CInv, Talk, InitOnce, Initial
  <2> QED BY <1>1, <2>1, <2>2, TalkServed DEF CInv
<1>3. Bindings'
  BY DEF CInv, Bindings, vars, Initial
<1>4. Owners'
  BY <1>1, OwnersStay DEF CInv
<1>5. Known'
  <2>1. \A e : Listed(e)' = Listed(e)
    BY DEF Listed
  <2> QED BY <2>1, KnownStays DEF CInv
<1> QED BY <1>2, <1>3, <1>4, <1>5 DEF CInv

LEMMA SessionInitStep ==
  ASSUME Inv, CInv, NEW c \in Clients, NEW e \in {0} \cup Edbs, SessionInit(c, e)
  PROVE  CInv'
<1>1. /\ Talk' /\ replies' = replies
      /\ UNCHANGED <<vars, catalog, saved, careless, torn, deleted, zombies>>
      /\ sessions[c] = [pc |-> "none", edb |-> 0]
      /\ sessions' = [sessions EXCEPT ![c] = [pc |-> "init", edb |-> 0]]
  BY TalkSessionInit DEF CInv
<1>2. PICK x : Waiting' = Waiting \cup {x} /\ x.client = c
  BY TalkSessionInit DEF CInv
<1>3. sessions \in [Clients -> [pc : {"none", "init", "open", "closed"}, edb : 0..MaxEdbs]]
  BY DEF Inv, Shapes
<1>4. \A b \in Clients : /\ sessions'[b].edb = sessions[b].edb
                         /\ sessions[b].pc # "none" => sessions'[b].pc # "none"
  BY <1>1, <1>3
<1>5. edb_id_map' = edb_id_map /\ DOMAIN edb_id_map \subseteq Clients
  BY <1>1 DEF vars, Inv, Enclave
<1>6. Bindings'
  BY <1>1, <1>4, <1>5 DEF CInv, Bindings, Initial
<1>7. Owners'
  <2>1. \A w \in Waiting' : Initial(w) =>
          sessions[w.client].pc = "none" \/ \E v \in Waiting : Initial(v) /\ v.client = w.client
    BY <1>1, <1>2
  <2> QED BY <1>1, <1>4, <2>1, OwnersStay DEF CInv
<1>8. Known'
  <2>1. \A f : Listed(f)' = Listed(f)
    BY <1>1 DEF Listed
  <2> QED BY <1>1, <2>1, KnownStays DEF CInv
<1> QED BY <1>1, <1>6, <1>7, <1>8 DEF CInv

LEMMA SessionCallStep ==
  ASSUME Inv, CInv, NEW c \in Clients, Insert(c) \/ SessionShutdown(c)
  PROVE  CInv'
<1>1. /\ Talk' /\ replies' = replies /\ careless \subseteq careless'
      /\ UNCHANGED <<vars, sessions, catalog, saved, torn, deleted, zombies>>
  BY TalkSessionCall DEF CInv
<1>2. PICK x : Waiting' = Waiting \cup {x} /\ ~Initial(x)
  BY TalkSessionCall DEF CInv
<1>3. Bindings'
  BY <1>1 DEF CInv, Bindings, Initial, vars
<1>4. Owners'
  BY <1>1, <1>2, OwnersStay DEF CInv
<1>5. Known'
  <2>1. \A f : Listed(f)' = Listed(f)
    BY <1>1 DEF Listed
  <2> QED BY <1>1, <2>1, KnownStays DEF CInv
<1> QED BY <1>1, <1>3, <1>4, <1>5 DEF CInv

LEMMA TimeoutStep ==
  ASSUME Inv, CInv, NEW i \in DOMAIN queue, Timeout(i)
  PROVE  CInv'
<1>1. /\ Talk' /\ replies' = replies /\ careless \subseteq careless'
      /\ UNCHANGED <<vars, catalog, saved, torn, deleted, zombies>>
  BY TalkTimeout DEF CInv
<1>2. \A w \in Waiting' : \E v \in Waiting : v.client = w.client /\ v.kind = w.kind
  BY TalkTimeout DEF CInv
<1>3. \A c \in Clients : /\ sessions'[c].edb = sessions[c].edb
                         /\ sessions[c].pc # "none" => sessions'[c].pc # "none"
  BY TalkTimeout DEF CInv
<1>4. edb_id_map' = edb_id_map /\ DOMAIN edb_id_map \subseteq Clients
  BY <1>1 DEF vars, Inv, Enclave
<1>5. Bindings'
  BY <1>1, <1>3, <1>4 DEF CInv, Bindings, Initial
<1>6. Owners'
  <2>1. \A w \in Waiting' : Initial(w) => \E v \in Waiting : Initial(v) /\ v.client = w.client
    BY <1>2 DEF Initial
  <2> QED BY <1>1, <1>3, <2>1, OwnersStay DEF CInv
<1>7. Known'
  <2>1. \A f : Listed(f)' = Listed(f)
    BY <1>1 DEF Listed
  <2> QED BY <1>1, <2>1, KnownStays DEF CInv
<1> QED BY <1>1, <1>5, <1>6, <1>7 DEF CInv
-----------------------------------------------------------------------------
(* The gateway reads a reply.                                              *)

LEMMA GoneCopies ==
  ASSUME Inv, ~torn, NEW e \in deleted \ zombies
  PROVE  \A x \in AllCopies : x.edb # e
<1>1. snapshots[e] = NoCtx /\ e \notin Bound /\ e \in Edbs
  BY DEF Inv, Disk, Gone
<1>2. Contexts(active, inactive, snapshots, Bound)
  BY DEF Inv, Enclave
<1>3. \A f \in Edbs : snapshots[f] # NoCtx => snapshots[f].edb = f
  BY <1>2 DEF Contexts
<1> QED BY <1>1, <1>2, <1>3 DEF Contexts, AllCopies, Copies

Read(r) ==
  /\ Waiting' = Waiting /\ Outs' \subseteq Outs /\ replies' = replies \ {r}
  /\ UNCHANGED <<vars, torn, deleted, zombies>>

LEMMA ReceiveReads ==
  ASSUME NEW r \in replies, Receive(r)
  PROVE  Read(r)
BY DEF Receive, Read, Waiting, Outs

(* What a reply leaves of CInv where its session keeps its database.       *)
LEMMA ReadKept ==
  ASSUME Inv, CInv, NEW r \in replies, Read(r),
         \A c \in Clients : /\ sessions'[c].edb = sessions[c].edb
                            /\ sessions[c].pc # "none" => sessions'[c].pc # "none"
  PROVE  Addressed' /\ InitOnce' /\ Bindings' /\ Owners'
<1>1. \A m \in Waiting \cup replies : m.client \in Clients
  BY WaitingCalls DEF Inv
<1>2. edb_id_map' = edb_id_map /\ DOMAIN edb_id_map \subseteq Clients
  BY DEF Read, vars, Inv, Enclave
<1>3. Addressed'
  <2> SUFFICES ASSUME NEW m \in Waiting \cup replies
               PROVE  IF Initial(m) THEN sessions'[m.client].pc # "none" /\ sessions'[m.client].edb = 0
                      ELSE m.edb = sessions'[m.client].edb /\ m.edb # 0
    BY DEF Addressed, Read, Initial
  <2> QED BY <1>1 DEF CInv, Talk, Addressed
<1>4. InitOnce'
  BY DEF CInv, Talk, InitOnce, Read, Initial
<1>5. Bindings'
  BY <1>2 DEF CInv, Bindings, Read, Initial
<1>6. Owners'
  BY OwnersStay DEF CInv, Read
<1> QED BY <1>3, <1>4, <1>5, <1>6

(* A new database's catalog is empty, a resumed one's comes from its file. *)
LEMMA ReceiveOpened ==
  ASSUME Inv, CInv, NEW r \in replies, Receive(r), Initial(r), r.ok
  PROVE  CInv'
<1>1. PICK c \in Clients, e \in Edbs : c = r.client /\ e = r.edb
  BY WaitingCalls DEF Inv, Answered
<1>2. PICK S : S = (IF r.kind = "CREATE" THEN {} ELSE saved[e])
  OBVIOUS
<1>3. /\ sessions' = [sessions EXCEPT ![c] = [pc |-> "open", edb |-> e]]
      /\ catalog' = Put(catalog, e, S) /\ saved' = saved
      /\ careless' = careless \cup
           IF Open(e) # {} \/ (r.kind = "CREATE" /\ e \in DOMAIN catalog) THEN {e} ELSE {}
  BY <1>1, <1>2 DEF Receive, Initial, Restored
<1>4. IsPut(catalog', catalog, e, S)
  BY <1>3, PutFacts
<1>5. sessions \in [Clients -> [pc : {"none", "init", "open", "closed"}, edb : 0..MaxEdbs]]
  BY DEF Inv, Shapes
<1>6. sessions'[c] = [pc |-> "open", edb |-> e] /\ \A b \in Clients : b # c => sessions'[b] = sessions[b]
  BY <1>3, <1>5
<1>7. sessions[c].edb = 0 /\ sessions[c].pc # "none"
  BY <1>1 DEF CInv, Talk, Addressed
<1>8. Read(r)
  BY ReceiveReads
<1>9. \A m \in Waiting \cup replies' : m.client # c /\ m.client \in Clients /\ m \in Waiting \cup replies
  <2>1. \A m \in Waiting \cup replies : m.client = c => Initial(m)
    BY <1>7 DEF CInv, Talk, Addressed
  <2> QED BY <1>1, <1>8, <2>1, WaitingCalls DEF Inv, CInv, Talk, InitOnce, Read
<1>10. \A f \in Edbs : f # e => Open(f)' = Open(f)
  <2>1. ASSUME NEW f \in Edbs, f # e, NEW b \in Clients
        PROVE  sessions'[b] = [pc |-> "open", edb |-> f] <=>
               sessions[b] = [pc |-> "open", edb |-> f]
    <3>1. f # 0
      BY DEF Edbs
    <3>2. CASE b = c
      BY <1>6, <1>7, <2>1, <3>1, <3>2
    <3> QED BY <1>6, <3>2
  <2> QED BY <2>1 DEF Open
<1>11. Begun'
  <2>1. DOMAIN catalog' = DOMAIN catalog \cup {e} /\ deleted' = deleted /\ e # 0
    BY <1>4, <1>8 DEF IsPut, Read, Edbs
  <2> QED BY <1>6, <2>1 DEF CInv, Talk, Begun
<1>12. Addressed'
  <2> SUFFICES ASSUME NEW m \in Waiting \cup replies'
               PROVE  IF Initial(m) THEN sessions'[m.client].pc # "none" /\ sessions'[m.client].edb = 0
                      ELSE m.edb = sessions'[m.client].edb /\ m.edb # 0
    BY <1>8 DEF Addressed, Read, Initial
  <2>1. sessions'[m.client] = sessions[m.client] /\ m \in Waiting \cup replies
    BY <1>6, <1>9
  <2> QED BY <2>1 DEF CInv, Talk, Addressed
<1>13. InitOnce'
  BY <1>8 DEF CInv, Talk, InitOnce, Read, Initial
<1>14. Careful'
  <2>1. \A k : <<c, k>> \notin Outs'
    BY <1>8, <1>9 DEF Outs, Read
  <2>2. \A b \in Clients : sessions'[b].edb \notin careless' /\ <<b, "UPDATE">> \in Outs' =>
          sessions'[b].pc = "open" /\ <<b, "SHUTDOWN">> \notin Outs'
    <3> SUFFICES ASSUME NEW b \in Clients, b # c, sessions[b].edb \notin careless',
                        <<b, "UPDATE">> \in Outs'
                 PROVE  sessions[b].pc = "open" /\ <<b, "SHUTDOWN">> \notin Outs'
      BY <1>6, <2>1
    <3> QED BY <1>3, <1>8 DEF CInv, Talk, Careful, Read
  <2> QED BY <1>3, <1>8, <2>2 DEF CInv, Talk, Careful, Read
<1>15. Closed'
  <2> SUFFICES ASSUME NEW f \in DOMAIN catalog', f \notin careless', Open(f)' = {}
               PROVE  catalog'[f] \subseteq saved'[f]
    BY DEF Closed
  <2>1. c \in Open(e)'
    BY <1>6 DEF Open
  <2>2. f # e /\ f \in DOMAIN catalog /\ catalog'[f] = catalog[f] /\ f \in Edbs
    BY <1>4, <2>1 DEF IsPut, Inv, Shapes
  <2> QED BY <1>3, <1>10, <2>2 DEF CInv, Talk, Closed
<1>16. Bindings'
  <2>1. edb_id_map' = edb_id_map /\ DOMAIN edb_id_map \subseteq Clients
    BY <1>8 DEF Read, vars, Inv, Enclave
  <2>2. \A b \in DOMAIN edb_id_map : sessions'[b].edb # 0 => edb_id_map[b] = sessions'[b].edb
    BY <1>1, <1>6, <2>1 DEF CInv, Bindings
  <2> QED BY <1>8, <2>1, <2>2 DEF CInv, Bindings, Read, Initial
<1>17. Owners'
  BY <1>6, <1>8, OwnersStay DEF CInv, Read
<1>18. Known'
  <2>1. ASSUME NEW f, f \notin careless' PROVE Listed(f) \subseteq Listed(f)'
    <3>1. CASE f = e
      <4>1. CASE e \in DOMAIN catalog
        <5>1. S = saved[e] /\ Open(e) = {}
          BY <1>2, <1>3, <2>1, <3>1, <4>1
        <5>2. catalog[e] \subseteq S
          BY <1>3, <2>1, <3>1, <4>1, <5>1 DEF CInv, Talk, Closed
        <5> QED BY <1>4, <3>1, <4>1, <5>2 DEF Listed, IsPut
      <4> QED BY <3>1, <4>1 DEF Listed
    <3>2. CASE f # e
      BY <1>4, <3>2 DEF Listed, IsPut
    <3> QED BY <3>1, <3>2
  <2>2. \A f : Coming(replies', f) = Coming(replies, f)
    BY <1>8 DEF Coming, Read, Initial
  <2> QED BY <1>3, <1>8, <2>1, <2>2, KnownStays DEF CInv, Read
<1> QED BY <1>11, <1>12, <1>13, <1>14, <1>15, <1>16, <1>17, <1>18 DEF CInv, Talk

(* A session that could not be opened was never bound to a database.       *)
LEMMA ReceiveFailed ==
  ASSUME Inv, CInv, NEW r \in replies, Receive(r), Initial(r), ~r.ok
  PROVE  CInv'
<1>1. PICK c \in Clients : c = r.client
  BY WaitingCalls DEF Inv
<1>2. /\ sessions' = [sessions EXCEPT ![c].pc = "closed"]
      /\ UNCHANGED <<catalog, careless, saved>>
  BY <1>1 DEF Receive, Initial
<1>3. sessions \in [Clients -> [pc : {"none", "init", "open", "closed"}, edb : 0..MaxEdbs]]
  BY DEF Inv, Shapes
<1>4. sessions[c].edb = 0 /\ sessions[c].pc # "open"
  BY <1>1 DEF CInv, Talk, Addressed, Begun
<1>5. \A b \in Clients : /\ sessions'[b].edb = sessions[b].edb
                         /\ sessions'[b] = sessions[b] \/ (b = c /\ sessions'[b].pc = "closed")
  BY <1>2, <1>3
<1>6. Read(r)
  BY ReceiveReads
<1>7. Addressed' /\ InitOnce' /\ Bindings' /\ Owners'
  BY <1>5, <1>6, ReadKept
<1>8. \A f \in Edbs : Open(f)' = Open(f)
  BY <1>4, <1>5 DEF Open
<1>9. Begun'
  BY <1>2, <1>4, <1>5, <1>6 DEF CInv, Talk, Begun, Read
<1>10. Careful'
  <2>1. \A b \in Clients : sessions'[b].edb \notin careless' /\ <<b, "UPDATE">> \in Outs' =>
          sessions'[b].pc = "open" /\ <<b, "SHUTDOWN">> \notin Outs'
    BY <1>2, <1>4, <1>5, <1>6 DEF CInv, Talk, Careful, Read
  <2> QED BY <1>2, <1>6, <2>1 DEF CInv, Talk, Careful, Read
<1>11. Closed'
  BY <1>2, <1>8 DEF CInv, Talk, Closed, Inv, Shapes
<1>12. Known'
  <2>1. \A f : Coming(replies', f) = Coming(replies, f)
    BY <1>6 DEF Coming, Read, Initial
  <2>2. \A f : Listed(f)' = Listed(f)
    BY <1>2 DEF Listed
  <2> QED BY <1>2, <1>6, <2>1, <2>2, KnownStays DEF CInv, Read
<1> QED BY <1>7, <1>9, <1>10, <1>11, <1>12 DEF CInv, Talk

(* An update's number moves from its reply into the catalog.               *)
LEMMA ReceiveUpdated ==
  ASSUME Inv, CInv, NEW r \in replies, Receive(r),
         r.kind = "UPDATE", r.ok, r.edb \in DOMAIN catalog
  PROVE  CInv'
<1>1. PICK c \in Clients, e \in DOMAIN catalog : c = r.client /\ e = r.edb
  BY WaitingCalls DEF Inv
<1>2. /\ catalog' = [catalog EXCEPT ![e] = @ \cup {r.update}]
      /\ UNCHANGED <<sessions, careless, saved>>
  BY <1>1 DEF Receive
<1>3. /\ DOMAIN catalog' = DOMAIN catalog /\ catalog'[e] = catalog[e] \cup {r.update}
      /\ \A f \in DOMAIN catalog : f # e => catalog'[f] = catalog[f]
  BY <1>2 DEF Inv, Shapes
<1>4. Read(r)
  BY ReceiveReads
<1>5. Addressed' /\ InitOnce' /\ Bindings' /\ Owners'
  BY <1>2, <1>4, ReadKept
<1>6. \A f : Open(f)' = Open(f)
  BY <1>2 DEF Open
<1>7. Begun'
  BY <1>2, <1>3, <1>4 DEF CInv, Talk, Begun, Read
<1>8. Careful'
  BY <1>2, <1>4 DEF CInv, Talk, Careful, Read
<1>9. Closed'
  <2>1. sessions[c].edb = e /\ <<c, "UPDATE">> \in Outs
    BY <1>1 DEF CInv, Talk, Addressed, Initial, Outs
  <2>2. e \notin careless => sessions[c].pc = "open"
    BY <2>1 DEF CInv, Talk, Careful
  <2>3. e \notin careless => c \in Open(e)
    BY <2>1, <2>2 DEF Open, Inv, Shapes
  <2> QED BY <1>2, <1>3, <1>6, <2>3 DEF CInv, Talk, Closed
<1>10. Known'
  <2>1. ASSUME NEW f, NEW u, u \in Listed(f) \cup Coming(replies, f)
        PROVE  u \in Listed(f)' \cup Coming(replies', f)
    <3>1. CASE u \in Listed(f)
      BY <1>3, <3>1 DEF Listed
    <3>2. CASE u \in Coming(replies, f)
      <4>1. PICK s \in replies : s.kind = "UPDATE" /\ s.ok /\ s.edb = f /\ u = s.update
        BY <3>2 DEF Coming
      <4>2. CASE s = r
        BY <1>1, <1>3, <4>1, <4>2 DEF Listed
      <4>3. CASE s # r
        BY <1>4, <4>1, <4>3 DEF Coming, Read
      <4> QED BY <4>2, <4>3
    <3> QED BY <2>1, <3>1, <3>2
  <2>2. \A f : Listed(f) \cup Coming(replies, f) \subseteq Listed(f)' \cup Coming(replies', f)
    BY <2>1
  <2> QED BY <1>2, <1>4, <2>2, KnownStays DEF CInv, Read
<1> QED BY <1>5, <1>7, <1>8, <1>9, <1>10 DEF CInv, Talk

(* A session is closed with its catalog saved.                             *)
LEMMA ReceiveClosed ==
  ASSUME Inv, CInv, NEW r \in replies, Receive(r),
         r.kind = "SHUTDOWN", r.ok, r.edb \in DOMAIN catalog
  PROVE  CInv'
<1>1. PICK c \in Clients, e \in DOMAIN catalog : c = r.client /\ e = r.edb
  BY WaitingCalls DEF Inv
<1>2. /\ saved' = [saved EXCEPT ![e] = catalog[e]] /\ UNCHANGED <<catalog, careless>>
      /\ sessions' = [sessions EXCEPT ![c].pc = "closed"]
  BY <1>1 DEF Receive
<1>3. /\ sessions \in [Clients -> [pc : {"none", "init", "open", "closed"}, edb : 0..MaxEdbs]]
      /\ DOMAIN catalog \subseteq Edbs /\ saved \in [Edbs -> SUBSET Updates]
  BY DEF Inv, Shapes
<1>4. /\ saved'[e] = catalog[e] /\ \A f \in Edbs : f # e => saved'[f] = saved[f]
  BY <1>2, <1>3
<1>5. sessions[c].edb = e /\ <<c, "SHUTDOWN">> \in Outs
  BY <1>1 DEF CInv, Talk, Addressed, Initial, Outs
<1>6. \A b \in Clients : /\ sessions'[b].edb = sessions[b].edb
                         /\ sessions'[b] = sessions[b] \/ (b = c /\ sessions'[b].pc = "closed")
  BY <1>2, <1>3
<1>7. Read(r)
  BY ReceiveReads
<1>8. Addressed' /\ InitOnce' /\ Bindings' /\ Owners'
  BY <1>6, <1>7, ReadKept
<1>9. \A f \in Edbs : f # e => Open(f)' = Open(f)
  <2>1. ASSUME NEW f \in Edbs, f # e, NEW b \in Clients
        PROVE  sessions'[b] = [pc |-> "open", edb |-> f] <=>
               sessions[b] = [pc |-> "open", edb |-> f]
    BY <1>5, <1>6, <2>1
  <2> QED BY <2>1 DEF Open
<1>10. Begun'
  BY <1>2, <1>6, <1>7 DEF CInv, Talk, Begun, Read
<1>11. Careful'
  <2>1. \A b \in Clients : sessions'[b].edb \notin careless' /\ <<b, "UPDATE">> \in Outs' =>
          sessions'[b].pc = "open" /\ <<b, "SHUTDOWN">> \notin Outs'
    BY <1>2, <1>5, <1>6, <1>7 DEF CInv, Talk, Careful, Read
  <2> QED BY <1>2, <1>7, <2>1 DEF CInv, Talk, Careful, Read
<1>12. Closed'
  BY <1>2, <1>3, <1>4, <1>9 DEF CInv, Talk, Closed
<1>13. Known'
  <2>1. \A f : Coming(replies', f) = Coming(replies, f)
    BY <1>7 DEF Coming, Read
  <2>2. \A f : Listed(f)' = Listed(f)
    BY <1>2 DEF Listed
  <2> QED BY <1>2, <1>7, <2>1, <2>2, KnownStays DEF CInv, Read
<1> QED BY <1>8, <1>10, <1>11, <1>12, <1>13 DEF CInv, Talk

(* Any other reply changes nothing; that of an update without a catalog    *)
(* is of a database that was deleted, of which there is no context.        *)
LEMMA ReceiveIgnored ==
  ASSUME Inv, CInv, NEW r \in replies, Receive(r),
         ~Initial(r), UNCHANGED <<sessions, catalog, careless, saved>>,
         r.kind = "UPDATE" /\ r.ok => r.edb \notin DOMAIN catalog
  PROVE  CInv'
<1>1. Read(r)
  BY ReceiveReads
<1>2. Addressed' /\ InitOnce' /\ Bindings' /\ Owners'
  BY <1>1, ReadKept
<1>3. Begun' /\ Careful'
  BY <1>1 DEF CInv, Talk, Begun, Careful, Read
<1>4. Closed'
  <2>1. \A f : Open(f)' = Open(f)
    BY DEF Open
  <2> QED BY <2>1 DEF CInv, Talk, Closed
<1>5. Known'
  <2>1. \A f : Listed(f)' = Listed(f)
    BY DEF Listed
  <2>2. CASE r.kind = "UPDATE" /\ r.ok
    <3>1. r.edb \in deleted /\ r.client \in Clients
      BY <2>2, WaitingCalls DEF CInv, Talk, Addressed, Begun, Inv
    <3>2. ASSUME ~torn, NEW x \in AllCopies, x.edb \notin careless
          PROVE  x.log \subseteq Listed(x.edb) \cup Coming(replies', x.edb)
      <4>1. x.edb # r.edb
        BY <3>1, <3>2, GoneCopies DEF CInv, Talk, Careful
      <4>2. Coming(replies', x.edb) = Coming(replies, x.edb)
        BY <1>1, <4>1 DEF Coming, Read
      <4> QED BY <3>2, <4>2 DEF CInv, Known
    <3>3. AllCopies' = AllCopies /\ torn' = torn
      BY <1>1, CopiesStay DEF Read
    <3> QED BY <2>1, <3>2, <3>3 DEF Known
  <2>3. CASE ~(r.kind = "UPDATE" /\ r.ok)
    <3>1. \A f : Coming(replies', f) = Coming(replies, f)
      BY <1>1, <2>3 DEF Coming, Read
    <3> QED BY <1>1, <2>1, <3>1, KnownStays DEF CInv, Read
  <2> QED BY <2>2, <2>3
<1> QED BY <1>2, <1>3, <1>4, <1>5 DEF CInv, Talk

LEMMA ReceiveStep ==
  ASSUME Inv, CInv, NEW r \in replies, Receive(r)
  PROVE  CInv'
<1>1. r.kind \in Kinds
  BY WaitingCalls DEF Inv
<1>2. CASE Initial(r)
  BY <1>2, ReceiveOpened, ReceiveFailed
<1>3. CASE r.kind = "UPDATE" /\ r.ok /\ r.edb \in DOMAIN catalog
  BY <1>3, ReceiveUpdated
<1>4. CASE r.kind = "SHUTDOWN" /\ r.ok /\ r.edb \in DOMAIN catalog
  BY <1>4, ReceiveClosed
<1>5. CASE ~Initial(r) /\ ~(r.ok /\ r.edb \in DOMAIN catalog)
  <2>1. UNCHANGED <<sessions, catalog, careless, saved>>
    BY <1>1, <1>5 DEF Receive, Initial, Kinds
  <2> QED BY <1>5, <2>1, ReceiveIgnored
<1> QED BY <1>1, <1>2, <1>3, <1>4, <1>5 DEF Kinds, Initial
-----------------------------------------------------------------------------
(* The gateway deletes a database.  If the enclave may have a context of   *)
(* it, it is careless; otherwise its sealed one was the last.              *)

LEMMA RemoveTreeStep ==
  ASSUME Inv, CInv, RemoveTree
  PROVE  CInv'
<1>1. PICK e \in Edbs : e = deleting
  BY DEF RemoveTree, Inv, Shapes, Edbs
<1>2. /\ snapshots' = [snapshots EXCEPT ![e] = NoCtx] /\ saved' = [saved EXCEPT ![e] = {}]
      /\ catalog' = Drop(catalog, e) /\ deleted' = deleted \cup {e}
      /\ zombies' = IF e \in Bound THEN zombies \cup {e} ELSE zombies \ {e}
      /\ careless' = IF e \in Bound THEN careless \cup {e} ELSE careless
      /\ UNCHANGED <<active, inactive, edb_id_map, sessions, queue, replies, torn>>
  BY <1>1 DEF RemoveTree, Bound, wire
<1>3. Waiting' = Waiting /\ Outs' = Outs
  BY <1>2 DEF Waiting, Outs
<1>4. IsDrop(catalog', catalog, e)
  BY <1>2, DropFacts
<1>5. /\ snapshots'[e] = NoCtx /\ \A f \in Edbs : f # e => snapshots'[f] = snapshots[f]
      /\ \A f \in Edbs : f # e => saved'[f] = saved[f]
  BY <1>2 DEF Inv, Enclave, Contexts, Shapes
<1>6. Begun'
  BY <1>2, <1>4 DEF CInv, Talk, Begun, IsDrop
<1>7. Addressed' /\ InitOnce'
  BY <1>2, <1>3 DEF CInv, Talk, Addressed, InitOnce, Initial
<1>8. Careful'
  BY <1>2, <1>3 DEF CInv, Talk, Careful
<1>9. Closed'
  <2>1. \A f : Open(f)' = Open(f)
    BY <1>2 DEF Open
  <2>2. \A f \in DOMAIN catalog' : f # e /\ f \in DOMAIN catalog /\ catalog'[f] = catalog[f] /\ f \in Edbs
    BY <1>4 DEF IsDrop, Inv, Shapes
  <2> QED BY <1>2, <1>5, <2>1, <2>2 DEF CInv, Talk, Closed
<1>10. Bindings'
  BY <1>2 DEF CInv, Bindings, Initial
<1>11. ASSUME NEW x \in AllCopies'
       PROVE  x \in AllCopies /\ (x.edb = e => e \in Bound)
  <2>1. CASE \E f \in Edbs : x = snapshots'[f]
    <3>1. PICK f \in Edbs : x = snapshots'[f] /\ f # e
      BY <1>5, <1>11, <2>1 DEF AllCopies, Copies
    <3>2. x = snapshots[f] /\ x # NoCtx
      BY <1>5, <1>11, <3>1 DEF AllCopies, Copies
    <3> QED BY <3>1, <3>2 DEF AllCopies, Copies, Inv, Enclave, Contexts
  <2>2. CASE x \in {active} \cup {inactive[k] : k \in DOMAIN inactive}
    BY <1>2, <1>11, <2>2 DEF AllCopies, Copies, Inv, Enclave, Contexts
  <2> QED BY <1>2, <1>11, <2>1, <2>2 DEF AllCopies, Copies
<1>12. Owners'
  BY <1>2, <1>3, <1>11 DEF CInv, Owners, Initial
<1>13. Known'
  <2>1. ASSUME ~torn, NEW x \in AllCopies', x.edb \notin careless'
        PROVE  x.log \subseteq Listed(x.edb)' \cup Coming(replies, x.edb)
    <3>1. x.edb # e
      BY <1>2, <1>11, <2>1
    <3>2. Listed(x.edb)' = Listed(x.edb)
      BY <1>4, <3>1 DEF Listed, IsDrop
    <3> QED BY <1>2, <1>11, <2>1, <3>2 DEF CInv, Known
  <2> QED BY <1>2, <2>1 DEF Known
<1> QED BY <1>6, <1>7, <1>8, <1>9, <1>10, <1>12, <1>13 DEF CInv, Talk

-----------------------------------------------------------------------------
(* Scheduling makes no copy that is not there, but for a new database.     *)

Keyed(i) == \A k \in DOMAIN i : i[k].client = k

LEMMA DropCopies ==
  ASSUME NEW a, NEW i, NEW s, NEW k, Keyed(i)
  PROVE  Keyed(Drop(i, k)) /\ Copies(a, Drop(i, k), s) \subseteq Copies(a, i, s)
<1>1. PICK j : j = Drop(i, k)
  OBVIOUS
<1>2. IsDrop(j, i, k)
  BY <1>1, DropFacts
<1> QED BY <1>1, <1>2 DEF Keyed, Copies, IsDrop

LEMMA EvictionCopies ==
  ASSUME Enclave, Keyed(inactive), NEW ev \in Evictions
  PROVE  Keyed(ev.inactive) /\ Copies(NoCtx, ev.inactive, ev.snapshots) \subseteq AllCopies
<1>1. PICK i : i = Cached
  OBVIOUS
<1>2. Keyed(i) /\ Copies(NoCtx, i, snapshots) \subseteq AllCopies
  <2>1. CASE active = NoCtx
    BY <1>1, <2>1 DEF Cached, Keyed, Copies, AllCopies
  <2>2. CASE active # NoCtx
    <3>1. PICK k : k = active.client
      OBVIOUS
    <3>2. IsPut(i, inactive, k, active)
      BY <1>1, <2>2, <3>1, PutFacts DEF Cached
    <3> QED BY <3>1, <3>2 DEF IsPut, Keyed, Copies, AllCopies
  <2> QED BY <2>1, <2>2
<1>3. CASE ev = [inactive |-> i, snapshots |-> snapshots]
  BY <1>2, <1>3
<1>4. ASSUME NEW v \in DOMAIN i,
             ev = [inactive |-> Drop(i, v),
                   snapshots |-> [snapshots EXCEPT ![i[v].edb] = i[v]]]
      PROVE  /\ Keyed(ev.inactive)
             /\ Copies(NoCtx, ev.inactive, ev.snapshots) \subseteq AllCopies
  <2>1. PICK s : s = [snapshots EXCEPT ![i[v].edb] = i[v]]
    OBVIOUS
  <2>2. \A f \in Edbs : s[f] = snapshots[f] \/ s[f] = i[v]
    BY <2>1 DEF Enclave, Contexts
  <2>3. Copies(NoCtx, i, s) \subseteq Copies(NoCtx, i, snapshots)
    BY <2>2 DEF Copies
  <2> QED BY <1>2, <1>4, <2>1, <2>3, DropCopies
<1> QED BY <1>1, <1>3, <1>4 DEF Evictions

(* What is brought up is of the database or the client that asked for it.  *)
LEMMA OutcomeCopies ==
  ASSUME Enclave, Keyed(inactive), NEW c \in Clients, NEW e \in Edbs, NEW create \in BOOLEAN,
         NEW o \in Outcomes(c, e, create)
  PROVE  /\ Keyed(o.inactive)
         /\ \A x \in Copies(o.active, o.inactive, o.snapshots) :
              x \in AllCopies \/ (create /\ x = [client |-> c, edb |-> e, log |-> {}])
         /\ o.active # NoCtx => o.active.edb = e \/ o.active.client = c
<1>1. CASE active.client = c /\ active.edb = e
  BY <1>1 DEF Outcomes, AllCopies
<1>2. CASE ~(active.client = c /\ active.edb = e)
  <2>1. PICK ev \in Evictions :
          o = [active |-> BroughtUp(ev, c, e, create), inactive |-> Drop(ev.inactive, c),
               snapshots |-> ev.snapshots]
    BY <1>2 DEF Outcomes
  <2>2. PICK a, i, s : a = BroughtUp(ev, c, e, create) /\ i = ev.inactive /\ s = ev.snapshots
    OBVIOUS
  <2>3. Keyed(i) /\ Copies(NoCtx, i, s) \subseteq AllCopies
    BY <2>2, EvictionCopies
  <2>4. \A f \in Edbs : s[f] # NoCtx => s[f].edb = f
    <3>1. Contexts(NoCtx, i, s, Bound)
      BY <2>2, EvictionContexts DEF Enclave
    <3> QED BY <3>1 DEF Contexts
  <2>5. /\ a = NoCtx \/ a \in Copies(NoCtx, i, s)
             \/ (create /\ a = [client |-> c, edb |-> e, log |-> {}])
        /\ a # NoCtx => a.edb = e \/ a.client = c
    BY <2>2, <2>3, <2>4 DEF BroughtUp, Copies, Keyed
  <2>6. \A x \in Copies(a, i, s) : x = a \/ x \in Copies(NoCtx, i, s)
    BY DEF Copies
  <2>7. NoCtx \notin Copies(a, i, s)
    BY DEF Copies
  <2>8. Keyed(Drop(i, c)) /\ Copies(a, Drop(i, c), s) \subseteq Copies(a, i, s)
    BY <2>3, DropCopies
  <2> QED BY <2>1, <2>2, <2>3, <2>5, <2>6, <2>7, <2>8
<1> QED BY <1>1, <1>2

LEMMA PersistedCopies ==
  ASSUME NEW o, NEW e \in Edbs, o.snapshots \in [Edbs -> Ctx], NEW t \in Persisted(o, e)
  PROVE  Copies(o.active, o.inactive, t) \subseteq Copies(o.active, o.inactive, o.snapshots)
<1>1. PICK a, i, s : a = o.active /\ i = o.inactive /\ s = o.snapshots
  OBVIOUS
<1>2. t = s \/ \E x \in {a} \cup {i[k] : k \in DOMAIN i} : t = [s EXCEPT ![e] = x]
  BY <1>1 DEF Persisted
<1>3. \A f \in Edbs : t[f] = s[f] \/ t[f] \in {a} \cup {i[k] : k \in DOMAIN i}
  BY <1>1, <1>2
<1> QED BY <1>1, <1>3 DEF Copies
-----------------------------------------------------------------------------
(* The server's steps.                                                     *)

(* What they have in common: contexts change hands, and what is added to a *)
(* log is in a reply.                                                      *)
Descends(x) ==
  \E y \in AllCopies :
    /\ y.client = x.client /\ y.edb = x.edb
    /\ x.edb \notin careless => x.log \subseteq y.log \cup Coming(replies', x.edb)

FreshCopy(x) ==
  /\ x.log = {} /\ sessions[x.client].pc # "none"
  /\ \A w \in Waiting' : Initial(w) => w.client # x.client
  /\ x.client \in DOMAIN edb_id_map' => edb_id_map'[x.client] = x.edb

LEMMA CopiesStep ==
  ASSUME Inv, CInv, UNCHANGED <<sessions, catalog, careless>>, torn => torn',
         Waiting' \subseteq Waiting, replies \subseteq replies', Keyed(inactive'),
         \A x \in AllCopies' : Descends(x) \/ FreshCopy(x),
         \A c \in DOMAIN edb_id_map' :
           \/ c \in DOMAIN edb_id_map /\ edb_id_map'[c] = edb_id_map[c]
           \/ \E w \in Waiting : Initial(w) /\ w.client = c
  PROVE  Owners' /\ Known'
<1>1. ASSUME NEW x \in AllCopies'
      PROVE  /\ sessions[x.client].pc # "none"
             /\ \A w \in Waiting' : Initial(w) => w.client # x.client
             /\ x.client \in DOMAIN edb_id_map' => edb_id_map'[x.client] = x.edb
  <2>1. CASE Descends(x)
    <3>1. PICK y \in AllCopies : y.client = x.client /\ y.edb = x.edb
      BY <2>1 DEF Descends
    <3>2. /\ sessions[y.client].pc # "none"
          /\ \A w \in Waiting : Initial(w) => w.client # y.client
          /\ y.client \in DOMAIN edb_id_map => edb_id_map[y.client] = y.edb
      BY DEF CInv, Owners
    <3> QED BY <3>1, <3>2
  <2>2. CASE FreshCopy(x)
    BY <2>2 DEF FreshCopy
  <2> QED BY <2>1, <2>2
<1>2. Owners'
  BY <1>1 DEF Owners, Keyed, Initial
<1>3. \A f : Listed(f)' = Listed(f) /\ Coming(replies, f) \subseteq Coming(replies', f)
  BY DEF Listed, Coming
<1>4. ASSUME ~torn', NEW x \in AllCopies', x.edb \notin careless
      PROVE  x.log \subseteq Listed(x.edb) \cup Coming(replies', x.edb)
  <2>1. CASE Descends(x)
    <3>1. PICK y \in AllCopies : /\ y.edb = x.edb
                                 /\ x.log \subseteq y.log \cup Coming(replies', x.edb)
      BY <1>4, <2>1 DEF Descends
    <3>2. y.log \subseteq Listed(x.edb) \cup Coming(replies, x.edb)
      BY <1>4, <3>1 DEF CInv, Known
    <3> QED BY <1>3, <3>1, <3>2
  <2>2. CASE FreshCopy(x)
    BY <2>2 DEF FreshCopy
  <2> QED BY <1>4, <2>1, <2>2
<1>5. Known'
  BY <1>3, <1>4 DEF Known
<1> QED BY <1>2, <1>5

(* A context that stays as it is.                                          *)
LEMMA SameDescends ==
  ASSUME NEW x \in AllCopies
  PROVE  Descends(x)
BY DEF Descends

LEMMA BindSame ==
  ASSUME Bindings, UNCHANGED <<sessions, edb_id_map>>, NEW p,
         replies' \subseteq replies \cup {p}, ~(Initial(p) /\ p.ok)
  PROVE  Bindings'
BY DEF Bindings, Initial

(* A client is bound to a database, and the reply names it.                *)
LEMMA BindNew ==
  ASSUME Inv, CInv, sessions' = sessions, NEW q \in Waiting, Initial(q), NEW e,
         edb_id_map' = Put(edb_id_map, q.client, e), NEW p,
         replies' \subseteq replies \cup {p}, p.client = q.client, p.edb = e
  PROVE  Bindings'
<1>1. PICK c : c = q.client
  OBVIOUS
<1>2. IsPut(edb_id_map', edb_id_map, c, e)
  BY <1>1, PutFacts
<1>3. sessions[c].edb = 0
  BY <1>1 DEF CInv, Talk, Addressed
<1>4. \A r \in replies : Initial(r) => r.client # c
  BY <1>1 DEF CInv, Talk, InitOnce
<1>5. \A b \in DOMAIN edb_id_map' : sessions[b].edb # 0 => edb_id_map'[b] = sessions[b].edb
  BY <1>2, <1>3 DEF CInv, Bindings, IsPut
<1>6. \A r \in replies' : Initial(r) /\ r.ok /\ r.client \in DOMAIN edb_id_map' =>
        edb_id_map'[r.client] = r.edb
  BY <1>1, <1>2, <1>4 DEF CInv, Bindings, IsPut
<1> QED BY <1>5, <1>6 DEF Bindings, Initial

(* The calls, for every request.                                           *)
LEMMA ServeTalk ==
  ASSUME Inv, CInv, NEW k, Serving(k), NEW ok, NEW e, NEW u, Reply(ok, e, u),
         Initial(Head(queue)) \/ e = Head(queue).edb
  PROVE  /\ Talk' /\ Waiting' \subseteq Waiting /\ Head(queue) \in Waiting
         /\ Head(queue).kind = k /\ Head(queue).client \in Clients
         /\ replies' = IF Head(queue).live THEN replies \cup {ReplyTo(Head(queue), ok, e, u)}
                       ELSE replies
         /\ UNCHANGED <<sessions, catalog, saved, careless, torn, deleted, zombies>>
         /\ Initial(Head(queue)) =>
              \A w \in Waiting' : Initial(w) => w.client # Head(queue).client
<1>1. /\ UNCHANGED <<sessions, catalog, saved, careless, torn, deleted, zombies>>
      /\ queue # <<>> /\ Head(queue).kind = k
  BY DEF Serving, gateway, history
<1>2. Talk'
  BY <1>1, TalkReply DEF Inv, CInv, GatewayStays
<1>3. /\ Head(queue) \in Waiting /\ Waiting' \subseteq Waiting
      /\ Initial(Head(queue)) =>
           \A w \in Waiting' : Initial(w) => w.client # Head(queue).client
  BY <1>1, ServedWaiting DEF Inv, Reply
<1>4. replies' = IF Head(queue).live THEN replies \cup {ReplyTo(Head(queue), ok, e, u)}
                 ELSE replies
  BY DEF Reply, ReplyTo
<1> QED BY <1>1, <1>2, <1>3, <1>4, HeadFacts DEF Inv

LEMMA RefusedStep ==
  ASSUME Inv, CInv, NEW k, Serving(k), UNCHANGED <<vars, edbs, files>>,
         Reply(FALSE, Head(queue).edb, NoUpdate)
  PROVE  CInv'
<1>1. PICK q, e : q = Head(queue) /\ e = q.edb
  OBVIOUS
<1>2. PICK p : p = ReplyTo(q, FALSE, e, NoUpdate)
  OBVIOUS
<1>3. /\ Talk' /\ Waiting' \subseteq Waiting
      /\ replies' = IF q.live THEN replies \cup {p} ELSE replies
      /\ UNCHANGED <<sessions, catalog, careless, torn>>
  BY <1>1, <1>2, ServeTalk
<1>4. ~p.ok /\ replies' \subseteq replies \cup {p} /\ replies \subseteq replies'
  BY <1>2, <1>3 DEF ReplyTo
<1>5. Bindings'
  BY <1>3, <1>4, BindSame DEF CInv, vars
<1>6. AllCopies' = AllCopies /\ edb_id_map' = edb_id_map /\ Keyed(inactive')
  BY CopiesStay DEF vars, CInv, Owners, Keyed
<1>7. Owners' /\ Known'
  BY <1>3, <1>4, <1>6, SameDescends, CopiesStep
<1> QED BY <1>3, <1>5, <1>7 DEF CInv

(* A new database has an empty context, whatever was brought up for it.    *)
LEMMA ServeCreateStep ==
  ASSUME Inv, CInv, ServeCreate
  PROVE  CInv'
<1>1. PICK q : q = Head(queue)
  OBVIOUS
<1>2. PICK n \in Edbs : n = next_db_id
  BY CreateWorked, HeadFacts DEF ServeCreate, Serving, Inv
<1>3. Serving("CREATE") /\ Create(q.client) /\ Reply(TRUE, n, NoUpdate)
  BY <1>1, <1>2 DEF ServeCreate
<1>4. PICK p : p = ReplyTo(q, TRUE, n, NoUpdate)
  OBVIOUS
<1>5. Initial(q)
  BY <1>1, <1>3 DEF Serving, Initial
<1>6. /\ Talk' /\ Waiting' \subseteq Waiting /\ q \in Waiting /\ q.client \in Clients
      /\ replies' = IF q.live THEN replies \cup {p} ELSE replies
      /\ UNCHANGED <<sessions, catalog, careless, torn>>
      /\ \A w \in Waiting' : Initial(w) => w.client # q.client
  BY <1>1, <1>3, <1>4, <1>5, ServeTalk
<1>7. edb_id_map' = Put(edb_id_map, q.client, n)
  BY <1>2, <1>3 DEF Create
<1>8. p.client = q.client /\ p.edb = n /\ replies' \subseteq replies \cup {p} /\ replies \subseteq replies'
  BY <1>4, <1>6 DEF ReplyTo
<1>9. Bindings'
  BY <1>5, <1>6, <1>7, <1>8, BindNew
<1>10. IsPut(edb_id_map', edb_id_map, q.client, n)
  BY <1>7, PutFacts
<1>11. PICK o \in Outcomes(q.client, n, TRUE) :
         /\ active' = [o.active EXCEPT !.log = {}]
         /\ inactive' = o.inactive /\ snapshots' = o.snapshots
  BY <1>2, <1>3 DEF Create
<1>12. PICK fresh : fresh = [client |-> q.client, edb |-> n, log |-> {}]
  OBVIOUS
<1>13. /\ Keyed(inactive')
       /\ \A x \in Copies(o.active, inactive', snapshots') : x \in AllCopies \/ x = fresh
  <2>1. Keyed(inactive) /\ Enclave
    BY DEF Inv, CInv, Owners, Keyed
  <2>2. /\ Keyed(o.inactive)
        /\ \A x \in Copies(o.active, o.inactive, o.snapshots) : x \in AllCopies \/ x = fresh
    <3>1. PICK create \in BOOLEAN : create = TRUE
      OBVIOUS
    <3>2. PICK c \in Clients : c = q.client
      BY <1>6
    <3>3. o \in Outcomes(c, n, create)
      BY <3>1, <3>2
    <3>4. /\ Keyed(o.inactive)
          /\ \A x \in Copies(o.active, o.inactive, o.snapshots) :
               x \in AllCopies \/ (create /\ x = [client |-> c, edb |-> n, log |-> {}])
      BY <2>1, <3>3, OutcomeCopies
    <3>5. fresh = [client |-> c, edb |-> n, log |-> {}]
      BY <1>12, <3>2
    <3> QED BY <3>4, <3>5
  <2> QED BY <1>11, <2>2
<1>14. FreshCopy(fresh)
  BY <1>5, <1>6, <1>10, <1>12, WaitingCalls DEF FreshCopy, IsPut, Inv
<1>15. ASSUME NEW x \in AllCopies' PROVE Descends(x) \/ FreshCopy(x)
  <2>1. CASE x \in Copies(o.active, inactive', snapshots')
    BY <1>13, <1>14, <2>1, SameDescends
  <2>2. CASE x = active'
    <3>1. PICK a : a = o.active
      OBVIOUS
    <3>2. x = [a EXCEPT !.log = {}] /\ x # NoCtx
      BY <1>11, <1>15, <2>2, <3>1 DEF AllCopies, Copies
    <3>3. a # NoCtx
      BY <3>2 DEF NoCtx
    <3>4. a \in AllCopies \/ a = fresh
      BY <1>13, <3>1, <3>3 DEF Copies
    <3>5. CASE a = fresh
      BY <1>12, <1>14, <3>2, <3>5
    <3>6. CASE a \in AllCopies
      <4>1. a \in Ctx
        BY <3>6, CopiesGenuine DEF Genuine
      <4>2. x.client = a.client /\ x.edb = a.edb /\ x.log = {}
        BY <3>2, <4>1 DEF Ctx
      <4> QED BY <3>6, <4>2 DEF Descends
    <3> QED BY <3>4, <3>5, <3>6
  <2>3. x \in Copies(o.active, inactive', snapshots') \/ x = active'
    BY <1>15 DEF AllCopies, Copies
  <2> QED BY <2>1, <2>2, <2>3
<1>16. \A c \in DOMAIN edb_id_map' :
         \/ c \in DOMAIN edb_id_map /\ edb_id_map'[c] = edb_id_map[c]
         \/ \E w \in Waiting : Initial(w) /\ w.client = c
  BY <1>5, <1>6, <1>10 DEF IsPut
<1>17. Owners' /\ Known'
  BY <1>6, <1>8, <1>13, <1>15, <1>16, CopiesStep
<1> QED BY <1>6, <1>9, <1>17 DEF CInv

LEMMA ServeResumeStep ==
  ASSUME Inv, CInv, ServeResume
  PROVE  CInv'
<1>1. PICK q : q = Head(queue)
  OBVIOUS
<1>2. Serving("RESUME") /\ q.kind = "RESUME" /\ queue # <<>> /\ Initial(q)
  BY <1>1 DEF ServeResume, Serving, Initial
<1>3. PICK e \in Edbs : e = q.edb
  BY <1>1, <1>2, HeadFacts DEF Inv, Asked
<1>4. CASE ~OnDisk(e)
  <2>1. Reply(FALSE, Head(queue).edb, NoUpdate) /\ UNCHANGED <<vars, edbs, files>>
    BY <1>1, <1>3, <1>4 DEF ServeResume
  <2> QED BY <1>2, <2>1, RefusedStep
<1>5. CASE OnDisk(e)
  <2>1. Resume(q.client, e) /\ Reply(TRUE, e, NoUpdate)
    BY <1>1, <1>3, <1>5 DEF ServeResume
  <2>2. PICK p : p = ReplyTo(q, TRUE, e, NoUpdate)
    OBVIOUS
  <2>3. /\ Talk' /\ Waiting' \subseteq Waiting /\ q \in Waiting /\ q.client \in Clients
        /\ replies' = IF q.live THEN replies \cup {p} ELSE replies
        /\ UNCHANGED <<sessions, catalog, careless, torn>>
    BY <1>1, <1>2, <2>1, <2>2, ServeTalk
  <2>4. p.client = q.client /\ p.edb = e /\ replies' \subseteq replies \cup {p} /\ replies \subseteq replies'
    BY <2>2, <2>3 DEF ReplyTo
  <2>5. edb_id_map' = Put(edb_id_map, q.client, e)
    BY <2>1 DEF Resume
  <2>6. Bindings'
    BY <1>2, <2>3, <2>4, <2>5, BindNew
  <2>7. PICK o \in Outcomes(q.client, e, FALSE) :
          active' = o.active /\ inactive' = o.inactive /\ snapshots' = o.snapshots
    BY <2>1 DEF Resume, Schedule
  <2>8. Keyed(inactive') /\ AllCopies' \subseteq AllCopies
    <3>1. Keyed(inactive) /\ Enclave
      BY DEF Inv, CInv, Owners, Keyed
    <3>2. Keyed(o.inactive) /\ Copies(o.active, o.inactive, o.snapshots) \subseteq AllCopies
      BY <2>3, <2>7, <3>1, OutcomeCopies
    <3> QED BY <2>7, <3>2 DEF AllCopies
  <2>9. IsPut(edb_id_map', edb_id_map, q.client, e)
    BY <2>5, PutFacts
  <2>10. \A c \in DOMAIN edb_id_map' :
           \/ c \in DOMAIN edb_id_map /\ edb_id_map'[c] = edb_id_map[c]
           \/ \E w \in Waiting : Initial(w) /\ w.client = c
    BY <1>2, <2>3, <2>9 DEF IsPut
  <2>11. \A x \in AllCopies' : Descends(x)
    BY <2>8, SameDescends
  <2>12. Owners' /\ Known'
    BY <2>3, <2>4, <2>8, <2>10, <2>11, CopiesStep
  <2> QED BY <2>3, <2>6, <2>12 DEF CInv
<1> QED BY <1>4, <1>5

(* What a client's request finds is a context of the client's database.    *)
LEMMA ServedCopies ==
  ASSUME Inv, CInv, NEW c \in DOMAIN edb_id_map, NEW o \in Outcomes(c, edb_id_map[c], FALSE)
  PROVE  /\ Keyed(o.inactive)
         /\ Copies(o.active, o.inactive, o.snapshots) \subseteq AllCopies
         /\ o.active # NoCtx => o.active \in AllCopies /\ o.active.edb = edb_id_map[c]
         /\ o.snapshots \in [Edbs -> Ctx]
<1>1. PICK e \in Edbs : e = edb_id_map[c] /\ e \in Bound /\ c \in Clients
  BY DEF Inv, Enclave, Bound, Range
<1>2. Keyed(inactive) /\ Enclave
  BY DEF Inv, CInv, Owners, Keyed
<1>3. /\ Keyed(o.inactive)
      /\ Copies(o.active, o.inactive, o.snapshots) \subseteq AllCopies
      /\ o.active # NoCtx => o.active.edb = e \/ o.active.client = c
  BY <1>1, <1>2, OutcomeCopies
<1>4. o.active # NoCtx => o.active \in AllCopies
  BY <1>3 DEF Copies
<1>5. o.active # NoCtx => o.active.edb = e
  BY <1>1, <1>3, <1>4 DEF CInv, Owners
<1>6. o.snapshots \in [Edbs -> Ctx]
  BY <1>1, <1>2, OutcomeLeft DEF Enclave, Left, Contexts
<1> QED BY <1>1, <1>3, <1>4, <1>5, <1>6

(* The document that an update adds is in the reply, unless nobody waits   *)
(* for it any more.                                                        *)
LEMMA ServeUpdateStep ==
  ASSUME Inv, CInv, ServeUpdate
  PROVE  CInv'
<1>1. PICK q : q = Head(queue)
  OBVIOUS
<1>2. Serving("UPDATE") /\ q.kind = "UPDATE" /\ queue # <<>> /\ ~Initial(q)
  BY <1>1 DEF ServeUpdate, Serving, Initial
<1>3. CASE Refused
  BY <1>2, <1>3, RefusedStep DEF Refused
<1>4. CASE Update(q.client) /\ Store(SealedBlobs)
           /\ IF active' = NoCtx THEN Reply(FALSE, q.edb, NoUpdate)
              ELSE Reply(TRUE, q.edb, <<q.client, updates'>>)
  <2>1. PICK c, f : c = q.client /\ f = q.edb
    OBVIOUS
  <2>2. PICK ok, u : Reply(ok, f, u) /\ (active' # NoCtx => ok /\ u = <<c, updates'>>)
    BY <1>4, <2>1
  <2>3. PICK p : p = ReplyTo(q, ok, f, u)
    OBVIOUS
  <2>4. /\ Talk' /\ Waiting' \subseteq Waiting /\ q \in Waiting /\ c \in Clients
        /\ replies' = IF q.live THEN replies \cup {p} ELSE replies
        /\ UNCHANGED <<sessions, catalog, careless, torn>>
    BY <1>1, <1>2, <2>1, <2>2, <2>3, ServeTalk
  <2>5. p.kind = "UPDATE" /\ p.ok = ok /\ p.edb = f /\ p.update = u
    BY <1>2, <2>3 DEF ReplyTo
  <2>6. replies' \subseteq replies \cup {p} /\ replies \subseteq replies'
    BY <2>4
  <2>7. c \in DOMAIN edb_id_map /\ edb_id_map' = edb_id_map
    BY <1>4, <2>1 DEF Update
  <2>8. Bindings'
    BY <2>4, <2>5, <2>6, <2>7, BindSame DEF CInv, Initial
  <2>9. edb_id_map[c] = f
    BY <1>2, <2>1, <2>4, <2>7 DEF CInv, Talk, Addressed, Bindings
  <2>10. PICK o \in Outcomes(c, edb_id_map[c], FALSE) :
           /\ inactive' = o.inactive /\ snapshots' = o.snapshots
           /\ IF o.active = NoCtx THEN active' = NoCtx
              ELSE /\ active' = [o.active EXCEPT !.log = @ \cup {<<c, updates + 1>>}]
                   /\ updates' = updates + 1
    BY <1>4, <2>1 DEF Update
  <2>11. /\ Keyed(inactive') /\ Copies(o.active, inactive', snapshots') \subseteq AllCopies
         /\ o.active # NoCtx => o.active \in AllCopies /\ o.active.edb = f
    BY <2>7, <2>9, <2>10, ServedCopies
  <2>12. ASSUME NEW x \in AllCopies' PROVE Descends(x)
    <3>1. CASE x \in Copies(o.active, inactive', snapshots')
      BY <2>11, <3>1, SameDescends
    <3>2. CASE x = active'
      <4>1. PICK a : a = o.active
        OBVIOUS
      <4>2. a # NoCtx /\ a \in AllCopies /\ a.edb = f
        BY <2>10, <2>11, <2>12, <3>2, <4>1 DEF AllCopies, Copies
      <4>3. PICK v : v = <<c, updates + 1>>
        OBVIOUS
      <4>4. x = [a EXCEPT !.log = @ \cup {v}] /\ a \in Ctx /\ (x # NoCtx => ok /\ u = v)
        BY <2>2, <2>10, <3>2, <4>1, <4>2, <4>3, CopiesGenuine DEF Genuine
      <4>5. x.client = a.client /\ x.edb = f /\ x.log = a.log \cup {v}
        BY <4>2, <4>4 DEF Ctx
      <4>6. x # NoCtx
        BY <2>12 DEF AllCopies, Copies
      <4>7. f \notin careless => v \in Coming(replies', f)
        <5>1. f \notin careless => q.live
          BY <1>2, <2>1, <2>4 DEF CInv, Talk, Careful
        <5> QED BY <2>4, <2>5, <4>4, <4>6, <5>1 DEF Coming
      <4> QED BY <4>2, <4>5, <4>7 DEF Descends
    <3>3. x \in Copies(o.active, inactive', snapshots') \/ x = active'
      BY <2>12 DEF AllCopies, Copies
    <3> QED BY <3>1, <3>2, <3>3
  <2>13. Owners' /\ Known'
    BY <2>4, <2>6, <2>7, <2>11, <2>12, CopiesStep
  <2> QED BY <2>4, <2>8, <2>13 DEF CInv
<1> QED BY <1>1, <1>3, <1>4 DEF ServeUpdate

LEMMA FlushCopies ==
  ASSUME Inv, CInv, NEW c, FlushClientEdb(c)
  PROVE  Keyed(inactive') /\ AllCopies' \subseteq AllCopies /\ edb_id_map' = edb_id_map
<1>1. c \in DOMAIN edb_id_map /\ edb_id_map' = edb_id_map
  BY DEF FlushClientEdb, Shutdown
<1>2. PICK e \in Edbs : e = edb_id_map[c]
  BY <1>1 DEF Inv, Enclave
<1>3. PICK o \in Outcomes(c, edb_id_map[c], FALSE) :
        /\ active' = o.active /\ inactive' = o.inactive
        /\ snapshots' = o.snapshots \/ snapshots' \in Persisted(o, e)
  BY <1>2 DEF FlushClientEdb, Shutdown
<1>4. /\ Keyed(o.inactive) /\ o.snapshots \in [Edbs -> Ctx]
      /\ Copies(o.active, o.inactive, o.snapshots) \subseteq AllCopies
  BY <1>1, <1>3, ServedCopies
<1>5. Copies(o.active, o.inactive, snapshots') \subseteq Copies(o.active, o.inactive, o.snapshots)
  BY <1>3, <1>4, PersistedCopies
<1> QED BY <1>1, <1>3, <1>4, <1>5 DEF AllCopies

LEMMA ServeShutdownStep ==
  ASSUME Inv, CInv, ServeShutdown
  PROVE  CInv'
<1>1. PICK q : q = Head(queue)
  OBVIOUS
<1>2. Serving("SHUTDOWN") /\ q.kind = "SHUTDOWN" /\ queue # <<>> /\ ~Initial(q)
  BY <1>1 DEF ServeShutdown, Serving, Initial
<1>3. CASE Refused
  BY <1>2, <1>3, RefusedStep DEF Refused
<1>4. CASE FlushClientEdb(q.client) /\ Reply(active' # NoCtx, q.edb, NoUpdate)
  <2>1. PICK ok, e : Reply(ok, e, NoUpdate) /\ e = q.edb
    BY <1>4
  <2>2. PICK p : p = ReplyTo(q, ok, e, NoUpdate)
    OBVIOUS
  <2>3. /\ Talk' /\ Waiting' \subseteq Waiting
        /\ replies' = IF q.live THEN replies \cup {p} ELSE replies
        /\ UNCHANGED <<sessions, catalog, careless, torn>>
    BY <1>1, <1>2, <2>1, <2>2, ServeTalk
  <2>4. p.kind = "SHUTDOWN" /\ replies' \subseteq replies \cup {p} /\ replies \subseteq replies'
    BY <1>2, <2>2, <2>3 DEF ReplyTo
  <2>5. Keyed(inactive') /\ AllCopies' \subseteq AllCopies /\ edb_id_map' = edb_id_map
    BY <1>4, FlushCopies
  <2>6. Bindings'
    BY <2>3, <2>4, <2>5, BindSame DEF CInv, Initial
  <2>7. Owners' /\ Known'
    BY <2>3, <2>4, <2>5, SameDescends, CopiesStep
  <2> QED BY <2>3, <2>6, <2>7 DEF CInv
<1> QED BY <1>1, <1>3, <1>4 DEF ServeShutdown

LEMMA FlushNextStep ==
  ASSUME Inv, CInv, NEW c \in Clients, FlushNext(c)
  PROVE  CInv'
<1>1. /\ UNCHANGED <<sessions, catalog, queue, replies, saved, careless, torn, deleted, zombies>>
      /\ FlushClientEdb(c)
  BY DEF FlushNext, gateway, wire, history
<1>2. Waiting' = Waiting /\ Outs' = Outs
  BY <1>1 DEF Waiting, Outs
<1>3. Keyed(inactive') /\ AllCopies' \subseteq AllCopies /\ edb_id_map' = edb_id_map
  BY <1>1, FlushCopies
<1>4. Talk'
  <2>1. GatewayStays
    BY <1>1 DEF GatewayStays
  <2>2. InitOnce'
    BY <1>1, <1>2 DEF CInv, Talk, InitOnce, Initial
  <2> QED BY <1>1, <1>2, <2>1, <2>2, TalkServed DEF CInv
<1>5. Bindings'
  BY <1>1, <1>3 DEF CInv, Bindings, Initial
<1>6. Owners' /\ Known'
  BY <1>1, <1>2, <1>3, SameDescends, CopiesStep
<1> QED BY <1>4, <1>5, <1>6 DEF CInv

(* The sealed contexts are what is left of a process.                      *)
LEMMA ProcessEndsStep ==
  ASSUME Inv, CInv, ProcessEnds, torn => torn'
  PROVE  CInv'
<1>1. /\ active' = NoCtx /\ inactive' = Empty /\ snapshots' = snapshots
      /\ edb_id_map' = [c \in {} |-> 0] /\ queue' = <<>> /\ replies \subseteq replies'
      /\ UNCHANGED <<sessions, catalog, careless>>
  BY DEF ProcessEnds, gateway
<1>2. Waiting' = {} /\ DOMAIN edb_id_map' = {} /\ DOMAIN inactive' = {}
  BY <1>1 DEF Waiting, Empty
<1>3. Talk'
  BY TalkEnds DEF Inv, CInv
<1>4. Bindings'
  BY <1>2 DEF Bindings
<1>5. Keyed(inactive') /\ AllCopies' \subseteq AllCopies
  BY <1>1, <1>2 DEF Keyed, AllCopies, Copies
<1>6. Owners' /\ Known'
  BY <1>1, <1>2, <1>5, SameDescends, CopiesStep
<1> QED BY <1>3, <1>4, <1>6 DEF CInv

-----------------------------------------------------------------------------
LEMMA InitCInv == DbInit => CInv
<1> SUFFICES ASSUME DbInit PROVE CInv
  OBVIOUS
<1> USE DEF DbInit, Init
<1>1. Waiting = {} /\ Outs = {}
  BY DEF Waiting, Outs
<1>2. Talk
  BY <1>1 DEF Talk, Begun, Addressed, InitOnce, Careful, Closed
<1>3. Bindings
  BY DEF Bindings
<1>4. AllCopies = {} /\ DOMAIN inactive = {}
  BY DEF AllCopies, Copies, Empty
<1> QED BY <1>2, <1>3, <1>4 DEF CInv, Owners, Known

LEMMA StepCInv ==
  ASSUME Inv, CInv, [DbNext]_dbvars
  PROVE  CInv'
<1>1. CASE UNCHANGED dbvars
  BY <1>1, FrameStep DEF dbvars, gateway, wire, disk, history
<1>2. ASSUME NEW c \in Clients, NEW e \in {0} \cup Edbs, SessionInit(c, e) PROVE CInv'
  BY <1>2, SessionInitStep
<1>3. ASSUME NEW c \in Clients, Insert(c) \/ SessionShutdown(c) PROVE CInv'
  BY <1>3, SessionCallStep
<1>4. ASSUME NEW i \in DOMAIN queue, Timeout(i) PROVE CInv'
  BY <1>4, TimeoutStep
<1>5. ASSUME NEW r \in replies, Receive(r) PROVE CInv'
  BY <1>5, ReceiveStep
<1>6. ASSUME NEW e \in Edbs, CheckDelete(e) PROVE CInv'
  BY <1>6, FrameStep DEF CheckDelete, wire, disk, history
<1>7. CASE RemoveTree
  BY <1>7, RemoveTreeStep
<1>8. CASE ServerStep
  <2>1. CASE FlushRest
    BY <2>1, FrameStep DEF FlushRest, Rest, gateway, wire, history
  <2>2. CASE Exit
    BY <2>2, ProcessEndsStep DEF Exit
  <2>3. ASSUME NEW c \in Clients, FlushNext(c) PROVE CInv'
    BY <2>3, FlushNextStep
  <2> QED BY <1>8, <2>1, <2>2, <2>3, ServeCreateStep, ServeResumeStep, ServeUpdateStep,
             ServeShutdownStep DEF ServerStep
<1>9. CASE Signal \/ Start
  BY <1>9, FrameStep DEF Signal, Start, gateway, wire, disk, history
<1>10. CASE Crash \/ CrashRegistering
  <2>1. torn => torn'
    BY <1>10, Zenon DEF Crash, CrashRegistering
  <2> QED BY <1>10, <2>1, ProcessEndsStep DEF Crash, CrashRegistering
<1> QED BY <1>1, <1>2, <1>3, <1>4, <1>5, <1>6, <1>7, <1>8, <1>9, <1>10 DEF DbNext

(* The number of every document that a client's context knows is taken in  *)
(* the catalog of its session, or will be once the replies are read, as    *)
(* long as the database is used with care.                                 *)
THEOREM CatalogAlwaysCovers == DbSpec => []CatalogCovers
<1>1. ASSUME Inv, CInv, ~torn, NEW c \in DOMAIN edb_id_map, sessions[c].pc = "open",
             sessions[c].edb \in DOMAIN catalog \ careless, NEW x \in Served(c)
      PROVE  x.log \subseteq catalog[sessions[c].edb] \cup {r.update : r \in replies}
  <2>1. PICK e : e = sessions[c].edb
    OBVIOUS
  <2>2. edb_id_map[c] = e
    BY <1>1, <2>1 DEF CInv, Talk, Begun, Bindings, Inv, Enclave
  <2>3. x \in AllCopies /\ x.edb = e
    BY <1>1, <2>2, ServedCopies DEF Served
  <2>4. x.log \subseteq Listed(e) \cup Coming(replies, e)
    BY <1>1, <2>1, <2>3 DEF CInv, Known
  <2> QED BY <1>1, <2>1, <2>4 DEF Listed, Coming
<1>2. Inv /\ CInv => CatalogCovers
  BY <1>1 DEF CatalogCovers
<1>3. Inv /\ CInv /\ [DbNext]_dbvars => CInv'
  BY StepCInv
<1> QED BY <1>2, <1>3, InitCInv, AlwaysInv, PTL DEF DbSpec

(* A session is never served with a context of another database, although  *)
(* the gateway's clients do resume databases that others created: what it  *)
(* takes is that every session has a client id of its own, which           *)
(* session_init sees to until the ids are used up.                         *)
THEOREM SessionsServedByOwnContext == DbSpec => []ServedByOwnContext
<1>1. Inv /\ CInv => ServedByOwnContext
  BY ServedCopies DEF ServedByOwnContext, Served
<1>2. Inv /\ CInv /\ [DbNext]_dbvars => CInv'
  BY StepCInv
<1> QED BY <1>1, <1>2, InitCInv, AlwaysInv, PTL DEF DbSpec
=============================================================================
