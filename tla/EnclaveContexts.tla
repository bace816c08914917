--------------------------- MODULE EnclaveContexts ---------------------------
(***************************************************************************)
(* One enclave serving many clients (CryptoEnclave.cpp:                    *)
(* ecall_schedule_context and the context cache; Server.cpp:               *)
(* handle_request_core, flush_client_edb).                                 *)
(*                                                                         *)
(* At any moment one context is active; the contexts of other clients wait *)
(* in inactive_cache, keyed by client, and surplus ones are sealed to      *)
(* context.dat of their database.  The server remembers which database     *)
(* each client is connected to and asks the enclave to bring up that       *)
(* client's context before every request.                                  *)
(*                                                                         *)
(* A server may run several enclaves; a client stays with the one that     *)
(* served it first, so this is one enclave and the clients bound to it.    *)
(*                                                                         *)
(* What a context knows of its database (keys, version table, counters) is *)
(* abstracted to log: the acknowledged updates it reflects.                *)
(***************************************************************************)
EXTENDS Integers, FiniteSets, Functions

CONSTANTS
  Clients,      \* client ids on the wire (none is 0)
  NoClient,     \* client_id 0
  kInactiveContextCacheMax,
  OneEdbPerClient,  \* clients behave as in benchmark_main.cpp: an id creates one
                \* database and is never connected to another
  MaxEdbs,      \* bound: databases ever registered
  MaxUpdates    \* bound: updates ever acknowledged

ASSUME EnclaveContextsAssumption ==
  /\ NoClient \notin Clients
  /\ kInactiveContextCacheMax \in Nat
  /\ OneEdbPerClient \in BOOLEAN
  /\ MaxEdbs \in Nat /\ MaxUpdates \in Nat

VARIABLES
  active,       \* enclave: the active context
  inactive,     \* enclave: client -> context waiting in inactive_cache
  edb_id_map,   \* server: client -> database it is connected to
  next_db_id,   \* disk: meta.dat
  snapshots,    \* disk: database -> sealed context (NoCtx: there is none)
  creator,      \* history: database -> client that created it
  updates,      \* history: number of acknowledged updates
  acked         \* history: database -> acknowledged updates it must reflect

vars == <<active, inactive, edb_id_map, next_db_id, snapshots, creator,
          updates, acked>>

Edbs == 1..MaxEdbs
NoCtx == [client |-> NoClient, edb |-> 0, log |-> {}]
Empty == [c \in {} |-> NoCtx]
Put(f, k, v) == [x \in DOMAIN f \cup {k} |-> IF x = k THEN v ELSE f[x]]
Drop(f, k) == Restrict(f, DOMAIN f \ {k})

Init ==
  /\ active = NoCtx
  /\ inactive = Empty
  /\ edb_id_map = [c \in {} |-> 0]
  /\ next_db_id = 1
  /\ snapshots = [e \in Edbs |-> NoCtx]
  /\ creator = [e \in Edbs |-> NoClient]
  /\ updates = 0
  /\ acked = [e \in Edbs |-> {}]

-----------------------------------------------------------------------------
(* ecall_schedule_context.                                                 *)

(* Mutant: cached without asking whether there is an active context.       *)
Cached_Unguarded == Put(inactive, active.client, active)

(* cache_active_context: under the id the context itself carries.          *)
Cached == IF active = NoCtx THEN inactive ELSE Put(inactive, active.client, active)

(* Mutant: the victim is erased without being sealed.                      *)
Evictions_NotSealed ==
  IF Cardinality(DOMAIN Cached) <= kInactiveContextCacheMax
  THEN {[inactive |-> Cached, snapshots |-> snapshots]}
  ELSE {[inactive |-> Drop(Cached, v), snapshots |-> snapshots] : v \in DOMAIN Cached}

(* evict_one_inactive_context_if_needed: a random victim is sealed.  Each  *)
(* outcome is the cache and the snapshots afterwards.                      *)
Evictions ==
  IF Cardinality(DOMAIN Cached) <= kInactiveContextCacheMax
  THEN {[inactive |-> Cached, snapshots |-> snapshots]}
  ELSE {[inactive |-> Drop(Cached, v),
         snapshots |-> [snapshots EXCEPT ![Cached[v].edb] = Cached[v]]] :
          v \in DOMAIN Cached}

(* Mutant: current_edb_id is not set for a fresh context.                  *)
BroughtUp_NoEdb(ev, c, e, create) ==
  IF c \in DOMAIN ev.inactive THEN ev.inactive[c]
  ELSE IF create THEN [client |-> c, edb |-> 0, log |-> {}]
  ELSE ev.snapshots[e]

(* Mutant: the cache is not looked at.                                     *)
BroughtUp_IgnoresCache(ev, c, e, create) ==
  IF create THEN [client |-> c, edb |-> e, log |-> {}] ELSE ev.snapshots[e]

(* The context that is brought up: the one cached for the client, whatever *)
(* its database; a fresh one; or the sealed one, which keeps the client id *)
(* it was sealed with.                                                     *)
BroughtUp(ev, c, e, create) ==
  IF c \in DOMAIN ev.inactive THEN ev.inactive[c]
  ELSE IF create THEN [client |-> c, edb |-> e, log |-> {}]
  ELSE ev.snapshots[e]

(* Mutant: the entry stays in the cache beside the active context.         *)
Outcomes_KeepsEntry(c, e, create) ==
  IF active.client = c /\ active.edb = e
  THEN {[active |-> active, inactive |-> inactive, snapshots |-> snapshots]}
  ELSE {[active |-> BroughtUp(ev, c, e, create),
         inactive |-> ev.inactive,
         snapshots |-> ev.snapshots] : ev \in Evictions}

Outcomes(c, e, create) ==
  IF active.client = c /\ active.edb = e
  THEN {[active |-> active, inactive |-> inactive, snapshots |-> snapshots]}
  ELSE {[active |-> BroughtUp(ev, c, e, create),
         inactive |-> Drop(ev.inactive, c),
         snapshots |-> ev.snapshots] : ev \in Evictions}

-----------------------------------------------------------------------------
(* Mutant: meta.dat is not written.                                        *)
Create_NotCounted(c) ==
  /\ c \notin DOMAIN edb_id_map
  /\ next_db_id <= MaxEdbs
  /\ OneEdbPerClient => c \notin Range(creator)
  /\ creator' = [creator EXCEPT ![next_db_id] = c]
  /\ edb_id_map' = Put(edb_id_map, c, next_db_id)
  /\ \E o \in Outcomes(c, next_db_id, TRUE) :
       /\ active' = [o.active EXCEPT !.log = {}]
       /\ inactive' = o.inactive /\ snapshots' = o.snapshots
  /\ UNCHANGED <<next_db_id, updates, acked>>

(* INIT of a client the server does not know: a new database, whose key    *)
(* and dummies are set up in whatever context was brought up, so that      *)
(* nothing older in it stays readable.                                     *)
Create(c) ==
  /\ c \notin DOMAIN edb_id_map
  /\ next_db_id <= MaxEdbs
  /\ OneEdbPerClient => c \notin Range(creator)
  /\ creator' = [creator EXCEPT ![next_db_id] = c]
  /\ edb_id_map' = Put(edb_id_map, c, next_db_id)
  /\ next_db_id' = next_db_id + 1
  /\ \E o \in Outcomes(c, next_db_id, TRUE) :
       /\ active' = [o.active EXCEPT !.log = {}]
       /\ inactive' = o.inactive /\ snapshots' = o.snapshots
  /\ UNCHANGED <<updates, acked>>

(* Mutant: a missing context is created instead of loaded.                 *)
Schedule_Creates(c, e) ==
  \E o \in Outcomes(c, e, TRUE) :
    active' = o.active /\ inactive' = o.inactive /\ snapshots' = o.snapshots

(* Requests that only bring the client's context up.                       *)
Schedule(c, e) ==
  \E o \in Outcomes(c, e, FALSE) :
    active' = o.active /\ inactive' = o.inactive /\ snapshots' = o.snapshots

(* INIT in create mode of a client the server knows, and SELECT.           *)
Select(c) ==
  /\ c \in DOMAIN edb_id_map
  /\ Schedule(c, edb_id_map[c])
  /\ UNCHANGED <<edb_id_map, next_db_id, creator, updates, acked>>

(* INIT in resume mode of a database that is on disk, that is, has a       *)
(* context.dat.  The map is changed before the context is brought up.      *)
Resume(c, e) ==
  /\ snapshots[e] # NoCtx
  /\ OneEdbPerClient => creator[e] = c
  /\ edb_id_map' = Put(edb_id_map, c, e)
  /\ Schedule(c, e)
  /\ UNCHANGED <<next_db_id, creator, updates, acked>>

(* UPDATE; it is refused when there is no context to bring up.             *)
Update(c) ==
  /\ c \in DOMAIN edb_id_map
  /\ updates < MaxUpdates
  /\ \E o \in Outcomes(c, edb_id_map[c], FALSE) :
       /\ inactive' = o.inactive /\ snapshots' = o.snapshots
       /\ IF o.active = NoCtx
          THEN active' = NoCtx /\ UNCHANGED <<updates, acked>>
          ELSE /\ active' = [o.active EXCEPT !.log = @ \cup {<<c, updates + 1>>}]
               /\ updates' = updates + 1
               /\ acked' = [acked EXCEPT ![edb_id_map[c]] = @ \cup {<<c, updates + 1>>}]
  /\ UNCHANGED <<edb_id_map, next_db_id, creator>>

(* ecall_persist_context(e): the active context if it is e's, else one in  *)
(* the cache that is.                                                      *)
Persisted(o, e) ==
  IF o.active # NoCtx /\ o.active.edb = e
  THEN {[o.snapshots EXCEPT ![e] = o.active]}
  ELSE LET held == {k \in DOMAIN o.inactive : o.inactive[k].edb = e}
       IN  IF held = {} THEN {o.snapshots}
           ELSE {[o.snapshots EXCEPT ![e] = o.inactive[k]] : k \in held}

(* SHUTDOWN of one client.  When the whole server stops it does this for   *)
(* every client in edb_id_map and then exits (Restart).                    *)
Shutdown(c) ==
  /\ c \in DOMAIN edb_id_map
  /\ \E o \in Outcomes(c, edb_id_map[c], FALSE) :
       /\ active' = o.active /\ inactive' = o.inactive
       /\ IF o.active = NoCtx THEN snapshots' = o.snapshots
          ELSE snapshots' \in Persisted(o, edb_id_map[c])
  /\ UNCHANGED <<edb_id_map, next_db_id, creator, updates, acked>>

(* The server process stops, with or without having flushed: the enclave   *)
(* and edb_id_map are gone; what was not sealed cannot be expected back.   *)
Restart ==
  /\ active' = NoCtx /\ inactive' = Empty
  /\ edb_id_map' = [c \in {} |-> 0]
  /\ acked' = [e \in Edbs |-> snapshots[e].log]
  /\ UNCHANGED <<next_db_id, snapshots, creator, updates>>

Next ==
  \/ \E c \in Clients : Create(c)
  \/ \E c \in Clients : Select(c)
  \/ \E c \in Clients, e \in Edbs : Resume(c, e)
  \/ \E c \in Clients : Update(c)
  \/ \E c \in Clients : Shutdown(c)
  \/ Restart

Spec == Init /\ [][Next]_vars

-----------------------------------------------------------------------------
Updates == Clients \X (1..MaxUpdates)   \* by whom, and which
Ctx == [client : Clients \cup {NoClient}, edb : 0..MaxEdbs, log : SUBSET Updates]

(* Every variable has the shape of its C++ counterpart.                    *)
TypeOK ==
  /\ active \in Ctx
  /\ inactive \in [DOMAIN inactive -> Ctx \ {NoCtx}]
  /\ DOMAIN inactive \subseteq Clients
  /\ edb_id_map \in [DOMAIN edb_id_map -> Edbs] /\ DOMAIN edb_id_map \subseteq Clients
  /\ next_db_id \in 1..(MaxEdbs + 1)
  /\ snapshots \in [Edbs -> Ctx]
  /\ creator \in [Edbs -> Clients \cup {NoClient}]
  /\ updates \in 0..MaxUpdates
  /\ acked \in [Edbs -> SUBSET Updates]

(* The enclave never holds more than the active context and                *)
(* kInactiveContextCacheMax others.                                        *)
CacheBounded == Cardinality(DOMAIN inactive) <= kInactiveContextCacheMax

(* The context that a request of client c would be served with.            *)
Served(c) == {o.active : o \in Outcomes(c, edb_id_map[c], FALSE)} \ {NoCtx}

(* Whichever client asks next, and whichever context is evicted for it, it *)
(* is served with the context of the database it is connected to.          *)
ServedByOwnContext ==
  \A c \in DOMAIN edb_id_map : \A x \in Served(c) : x.edb = edb_id_map[c]

(* ... and that context reflects every update of the database that was     *)
(* acknowledged (and not lost with the server).                            *)
ServedUpToDate ==
  \A c \in DOMAIN edb_id_map : \A x \in Served(c) : x.log = acked[edb_id_map[c]]

(* A session that connected to an existing database, and is the only one   *)
(* whose updates were acknowledged, sees them all in its next request.     *)
ResumerReadsItsWrites ==
  \A c \in DOMAIN edb_id_map : LET e == edb_id_map[c] IN
    creator[e] # c /\ (\A u \in acked[e] : u[1] = c) =>
      \A x \in Served(c) : x.log = acked[e]

(* A connected client whose database ever had a context gets one: nothing  *)
(* is dropped between the active context, the cache and the disk.          *)
NeverStranded ==
  \A c \in DOMAIN edb_id_map :
    acked[edb_id_map[c]] # {} =>
      \A o \in Outcomes(c, edb_id_map[c], FALSE) : o.active # NoCtx

(* A database has at most one context in the enclave, so no two copies can *)
(* overwrite each other's sealed state.                                    *)
OneContextPerEdb ==
  /\ \A c1, c2 \in DOMAIN inactive : inactive[c1].edb = inactive[c2].edb => c1 = c2
  /\ active # NoCtx => \A c \in DOMAIN inactive : inactive[c].edb # active.edb

(* No step overwrites a sealed context with one that knows less.           *)
SealNeverForgets ==
  [][\A e \in Edbs : snapshots[e].log \subseteq snapshots'[e].log]_vars
=============================================================================
