------------------------------- MODULE Databases -------------------------------
(***************************************************************************)
(* The life of databases across three processes: the gateway with its      *)
(* sessions and catalogs (main.py, edb_persist.py), the server with its    *)
(* copy of every open database (server_main.cpp, Server.cpp,               *)
(* EncDBManager.cpp), and the directories both of them write               *)
(* (EdbDiskStore.cpp).  What the enclave does is EnclaveContexts, whose    *)
(* actions are parts of the server's actions here.                         *)
(*                                                                         *)
(* The clients are those of one enclave: in the server of main, with four  *)
(* enclaves, the first client and all from the fifth on (EnclavePool).     *)
(*                                                                         *)
(* Every session has a client id of its own.  A call is a connection; the  *)
(* server takes one after the other, also those whose caller gave up after *)
(* its two minutes.  Sessions only add documents; an update stands for its *)
(* document, for the number the catalog marks, and for the bitmaps and     *)
(* slots (blobs) that have to be stored for it.                            *)
(***************************************************************************)
EXTENDS EnclaveContexts, Sequences

CONSTANTS
  MaxQueue,     \* connections that can wait (main listens with a backlog of 1)
  MaxDeletes,   \* bound: databases ever deleted
  MaxRestarts   \* bound: server processes after the first

ASSUME DatabasesAssumption ==
  Clients \subseteq Nat /\ MaxQueue \in Nat /\ MaxDeletes \in Nat /\ MaxRestarts \in Nat

VARIABLES
  sessions,   \* gateway: client -> [pc, edb]
  catalog,    \* gateway: database -> updates whose numbers are taken
  deleting,   \* gateway: the database a delete request has checked, or 0
  queue,      \* connections the server has not served
  replies,    \* replies the gateway has not read
  process,    \* server: "up", "flushing", "destroying", "exiting", "gone"
  flushed,    \* server: clients a shutdown_flush is done with
  edbs,       \* server: open database -> its blobs
  files,      \* disk: database -> its blobs
  saved,      \* disk: catalog.json
  restarts,   \* counts the processes, for the bound
  torn,       \* history: meta.dat was lost in a crash
  deleted,    \* history: databases deleted by the gateway
  zombies,    \* history: those deleted while they were in edb_id_map
  careless    \* history: databases not used as CatalogCovers asks

gateway == <<sessions, catalog, deleting>>
wire == <<queue, replies>>
server == <<process, flushed>>
disk == <<edbs, files, saved>>
history == <<torn, deleted, zombies, careless>>
dbvars == <<vars, gateway, wire, server, disk, restarts, history>>

NoUpdate == <<NoClient, 0>>

DbInit ==
  /\ Init
  /\ sessions = [c \in Clients |-> [pc |-> "none", edb |-> 0]]
  /\ catalog = [e \in {} |-> {}] /\ deleting = 0
  /\ queue = <<>> /\ replies = {}
  /\ process = "up" /\ flushed = {}
  /\ edbs = [e \in {} |-> {}] /\ files = [e \in Edbs |-> {}] /\ saved = files
  /\ restarts = 0
  /\ torn = FALSE /\ deleted = {} /\ zombies = {} /\ careless = {}

OnDisk(e) == snapshots[e] # NoCtx   \* edb_exists_on_disk: it has a context.dat
Open(e) == {c \in Clients : sessions[c] = [pc |-> "open", edb |-> e]}

-----------------------------------------------------------------------------
(* The gateway.                                                            *)

Outstanding(c, kind) ==
  \/ \E i \in DOMAIN queue : queue[i].client = c /\ queue[i].kind = kind /\ queue[i].live
  \/ \E r \in replies : r.client = c /\ r.kind = kind
Queued(kind) == Cardinality({i \in DOMAIN queue : queue[i].kind = kind})

(* A call to a server that is stopping or gone fails and changes nothing.  *)
Send(c, kind, e) ==
  /\ process = "up" /\ Len(queue) < MaxQueue
  /\ queue' = Append(queue, [client |-> c, kind |-> kind, edb |-> e, live |-> TRUE])
  /\ UNCHANGED <<vars, catalog, deleting, replies, server, disk, restarts,
                 torn, deleted, zombies>>

(* session_init: of a new database (e is 0), or of one that is listed.     *)
SessionInit(c, e) ==
  /\ \A b \in Clients : sessions[b].pc = "none" <=> b >= c
  /\ sessions' = [sessions EXCEPT ![c].pc = "init"]
  /\ IF e = 0 THEN next_db_id + Queued("CREATE") <= MaxEdbs /\ Send(c, "CREATE", 0)
     ELSE OnDisk(e) /\ Send(c, "RESUME", e)
  /\ UNCHANGED careless

(* insert_doc, upload_doc.  The handler has looked its session up before   *)
(* it reads the file; the session may have been closed in the meantime.    *)
Insert(c) ==
  /\ sessions[c].edb # 0 /\ ~Outstanding(c, "UPDATE")
  /\ updates + Queued("UPDATE") < MaxUpdates
  /\ Send(c, "UPDATE", sessions[c].edb)
  /\ careless' = careless \cup
       IF Outstanding(c, "SHUTDOWN") \/ sessions[c].pc = "closed"
       THEN {sessions[c].edb} ELSE {}
  /\ UNCHANGED sessions

SessionShutdown(c) ==
  /\ sessions[c].pc = "open" /\ ~Outstanding(c, "SHUTDOWN")
  /\ Send(c, "SHUTDOWN", sessions[c].edb)
  /\ careless' = careless \cup
       IF Outstanding(c, "UPDATE") THEN {sessions[c].edb} ELSE {}
  /\ UNCHANGED sessions

(* The 120 seconds of call_encdb are over.  The connection still waits at  *)
(* the server, with the request in it.                                     *)
Timeout(i) ==
  LET q == queue[i] IN
  /\ q.live
  /\ queue' = [queue EXCEPT ![i].live = FALSE]
  /\ sessions' = IF q.kind \in {"CREATE", "RESUME"}
                 THEN [sessions EXCEPT ![q.client].pc = "closed"] ELSE sessions
  /\ careless' = careless \cup IF q.kind = "UPDATE" THEN {q.edb} ELSE {}
  /\ UNCHANGED <<vars, catalog, deleting, replies, server, disk, restarts,
                 torn, deleted, zombies>>

(* Mutant: a resumed database starts with an empty catalog.                *)
Restored_Empty(e) == {}

(* restore_edb_catalog                                                     *)
Restored(e) == saved[e]

(* What the handlers do with the reply.  Without a catalog in memory they  *)
(* fail with "catalog missing".                                            *)
Receive(r) ==
  LET e == r.edb IN
  /\ r \in replies /\ replies' = replies \ {r}
  /\ CASE r.kind \in {"CREATE", "RESUME"} /\ r.ok ->
            /\ sessions' = [sessions EXCEPT ![r.client] = [pc |-> "open", edb |-> e]]
            /\ catalog' = Put(catalog, e, IF r.kind = "CREATE" THEN {} ELSE Restored(e))
            /\ careless' = careless \cup
                 IF Open(e) # {} \/ (r.kind = "CREATE" /\ e \in DOMAIN catalog)
                 THEN {e} ELSE {}
            /\ UNCHANGED saved
       [] r.kind \in {"CREATE", "RESUME"} /\ ~r.ok ->
            /\ sessions' = [sessions EXCEPT ![r.client].pc = "closed"]
            /\ UNCHANGED <<catalog, careless, saved>>
       [] r.kind = "UPDATE" /\ r.ok /\ e \in DOMAIN catalog ->
            /\ catalog' = [catalog EXCEPT ![e] = @ \cup {r.update}]
            /\ UNCHANGED <<sessions, careless, saved>>
       [] r.kind = "SHUTDOWN" /\ r.ok /\ e \in DOMAIN catalog ->
            /\ saved' = [saved EXCEPT ![e] = catalog[e]]
            /\ sessions' = [sessions EXCEPT ![r.client].pc = "closed"]
            /\ UNCHANGED <<catalog, careless>>
       [] OTHER -> UNCHANGED <<sessions, catalog, careless, saved>>
  /\ UNCHANGED <<vars, deleting, queue, server, edbs, files, restarts,
                 torn, deleted, zombies>>

(* delete_database: the checks ...                                         *)
CheckDelete(e) ==
  /\ Cardinality(deleted) < MaxDeletes
  /\ deleting = 0 /\ OnDisk(e) /\ Open(e) = {}
  /\ deleting' = e
  /\ UNCHANGED <<vars, sessions, catalog, wire, server, disk, restarts, history>>

(* ... and shutil.rmtree.  The server is not told.                         *)
RemoveTree ==
  LET e == deleting IN
  /\ e # 0 /\ deleting' = 0
  /\ snapshots' = [snapshots EXCEPT ![e] = NoCtx]
  /\ files' = [files EXCEPT ![e] = {}] /\ saved' = [saved EXCEPT ![e] = {}]
  /\ catalog' = Drop(catalog, e)
  /\ deleted' = deleted \cup {e}
  /\ zombies' = IF e \in Range(edb_id_map) THEN zombies \cup {e} ELSE zombies \ {e}
  /\ careless' = IF e \in Range(edb_id_map) THEN careless \cup {e} ELSE careless
  /\ UNCHANGED <<active, inactive, edb_id_map, next_db_id, creator, updates, acked,
                 sessions, wire, server, edbs, restarts, torn>>

-----------------------------------------------------------------------------
(* The server: one request after the other.                                *)

(* The reply to the first connection; it goes nowhere if the caller has    *)
(* given up.                                                               *)
Reply(ok, e, u) ==
  LET q == Head(queue) IN
  /\ queue' = Tail(queue)
  /\ replies' = IF q.live
       THEN replies \cup
              {[client |-> q.client, kind |-> q.kind, ok |-> ok, edb |-> e, update |-> u]}
       ELSE replies

Serving(kind) ==
  /\ process = "up"
  /\ queue # <<>> /\ Head(queue).kind = kind
  /\ UNCHANGED <<gateway, process, flushed, saved, restarts, history>>

(* ocall_store_bitmaps, ocall_store_docs: blobs go to memory and to disk;  *)
(* those of a database that is not open are dropped.                       *)
Written(S) == [e \in DOMAIN edbs |-> edbs[e] \cup S[e]]
WrittenFiles(S) ==
  [e \in Edbs |-> IF e \in DOMAIN edbs THEN files[e] \cup S[e] ELSE files[e]]

(* The blobs of the contexts that a step has sealed.                       *)
SealedBlobs ==
  [e \in Edbs |-> IF snapshots'[e] # snapshots[e] THEN snapshots'[e].log ELSE {}]

Store(S) == edbs' = Written(S) /\ files' = WrittenFiles(S)

(* Mutant: the reply repeats the number of the request.                    *)
ServeCreate_Echoed ==
  /\ Serving("CREATE")
  /\ Create(Head(queue).client)
  /\ edbs' = Put(Written(SealedBlobs), next_db_id, {})
  /\ files' = WrittenFiles(SealedBlobs)
  /\ Reply(TRUE, Head(queue).edb, NoUpdate)

(* register_edb                                                            *)
ServeCreate ==
  /\ Serving("CREATE")
  /\ Create(Head(queue).client)
  /\ edbs' = Put(Written(SealedBlobs), next_db_id, {})
  /\ files' = WrittenFiles(SealedBlobs)
  /\ Reply(TRUE, next_db_id, NoUpdate)

(* Mutant: what is on disk is not read.                                    *)
OpenEdb_Empty(e) == IF e \in DOMAIN edbs THEN edbs ELSE Put(edbs, e, {})

(* open_edb *)
OpenEdb(e) == IF e \in DOMAIN edbs THEN edbs ELSE Put(edbs, e, files[e])

ServeResume ==
  LET q == Head(queue) IN
  /\ Serving("RESUME")
  /\ IF OnDisk(q.edb)
     THEN /\ Resume(q.client, q.edb)
          /\ edbs' = [e \in DOMAIN OpenEdb(q.edb) |-> OpenEdb(q.edb)[e] \cup SealedBlobs[e]]
          /\ files' = WrittenFiles(SealedBlobs)
          /\ Reply(TRUE, q.edb, NoUpdate)
     ELSE Reply(FALSE, q.edb, NoUpdate) /\ UNCHANGED <<vars, edbs, files>>

Refused ==
  /\ Head(queue).client \notin DOMAIN edb_id_map
  /\ Reply(FALSE, Head(queue).edb, NoUpdate) /\ UNCHANGED <<vars, edbs, files>>

ServeUpdate ==
  LET q == Head(queue) IN
  /\ Serving("UPDATE")
  /\ \/ Refused
     \/ /\ Update(q.client) /\ Store(SealedBlobs)
        /\ IF active' = NoCtx THEN Reply(FALSE, q.edb, NoUpdate)
           ELSE Reply(TRUE, q.edb, <<q.client, updates'>>)

(* flush_client_edb, with persist_edb.                                     *)
FlushClientEdb(c) ==
  LET e == edb_id_map[c] IN
  /\ Shutdown(c)
  /\ edbs' = Written(SealedBlobs)
  /\ files' = IF active' = NoCtx THEN WrittenFiles(SealedBlobs)
              ELSE [WrittenFiles(SealedBlobs) EXCEPT ![e] = @ \cup edbs'[e]]

ServeShutdown ==
  LET q == Head(queue) IN
  /\ Serving("SHUTDOWN")
  /\ \/ Refused
     \/ FlushClientEdb(q.client) /\ Reply(active' # NoCtx, q.edb, NoUpdate)

-----------------------------------------------------------------------------
(* The end of a process.                                                   *)

(* SIGINT or SIGTERM, once main has seen g_shutdown_requested: between two *)
(* connections.                                                            *)
Signal ==
  /\ process = "up" /\ process' = "flushing"
  /\ UNCHANGED <<vars, gateway, wire, flushed, disk, restarts, history>>

(* Mutant: a client that could not be flushed is tried again.              *)
FlushNext_Retries(c) ==
  /\ process \in {"flushing", "destroying"} /\ c \in DOMAIN edb_id_map \ flushed
  /\ FlushClientEdb(c)
  /\ flushed' = IF active' = NoCtx THEN flushed ELSE flushed \cup {c}
  /\ UNCHANGED <<gateway, wire, process, saved, restarts, history>>

(* shutdown_flush: the databases of edb_id_map, also of closed sessions.   *)
FlushNext(c) ==
  /\ process \in {"flushing", "destroying"} /\ c \in DOMAIN edb_id_map \ flushed
  /\ FlushClientEdb(c)
  /\ flushed' = flushed \cup {c}
  /\ UNCHANGED <<gateway, wire, process, saved, restarts, history>>

Rest(listed) ==
  /\ process \in {"flushing", "destroying"} /\ DOMAIN edb_id_map \subseteq flushed
  /\ edbs' = [e \in DOMAIN edbs \cup listed |-> OpenEdb(e)[e]]
  /\ files' = [e \in Edbs |-> IF e \in listed THEN files[e] \cup edbs'[e] ELSE files[e]]
  /\ process' = IF process = "flushing" THEN "destroying" ELSE "exiting"
  /\ flushed' = {}
  /\ UNCHANGED <<vars, gateway, wire, saved, restarts, history>>

(* Mutant: the databases that are open instead of those on disk.           *)
FlushRest_Open == Rest(DOMAIN edbs \cup {e \in Edbs : OnDisk(e)})

(* The rest of those on disk.  main calls shutdown_flush, and ~Server once *)
(* more.                                                                   *)
FlushRest == Rest({e \in Edbs : OnDisk(e)})

(* Memory and enclave are gone; those who wait find the connection closed. *)
ProcessEnds ==
  /\ process' = "gone" /\ flushed' = {}
  /\ active' = NoCtx /\ inactive' = Empty /\ edb_id_map' = [c \in {} |-> 0]
  /\ edbs' = [e \in {} |-> {}]
  /\ queue' = <<>>
  /\ replies' = replies \cup
       {[client |-> queue[i].client, kind |-> queue[i].kind, ok |-> FALSE,
         edb |-> queue[i].edb, update |-> NoUpdate] :
           i \in {j \in DOMAIN queue : queue[j].live}}
  /\ zombies' = {e \in zombies : OnDisk(e) \/ files[e] # {}}
  /\ UNCHANGED <<snapshots, creator, updates, acked, gateway, files, saved,
                 restarts, deleted, careless>>

Exit ==
  /\ process = "exiting" /\ ProcessEnds /\ UNCHANGED <<next_db_id, torn>>

(* Among other things, of SIGPIPE: nothing handles it, and a reply is two  *)
(* sends, the second of which raises it when the caller has gone.          *)
Crash == process # "gone" /\ ProcessEnds /\ UNCHANGED <<next_db_id, torn>>

(* A crash in register_edb: before meta.dat is written, after, or between  *)
(* truncating and writing it; an empty meta.dat reads as 1.                *)
CrashRegistering ==
  /\ process = "up" /\ queue # <<>> /\ Head(queue).kind = "CREATE"
  /\ next_db_id <= MaxEdbs /\ ProcessEnds
  /\ next_db_id' \in {next_db_id + 1, 1}
  /\ torn' = (torn \/ next_db_id' < next_db_id)

Start ==
  /\ process = "gone" /\ restarts < MaxRestarts
  /\ process' = "up" /\ restarts' = restarts + 1
  /\ UNCHANGED <<vars, gateway, wire, flushed, disk, history>>

ServerStep ==
  \/ ServeCreate \/ ServeResume \/ ServeUpdate \/ ServeShutdown
  \/ FlushRest \/ Exit
  \/ \E c \in Clients : FlushNext(c)

DbNext ==
  \/ \E c \in Clients, e \in {0} \cup Edbs : SessionInit(c, e)
  \/ \E c \in Clients : Insert(c) \/ SessionShutdown(c)
  \/ \E i \in DOMAIN queue : Timeout(i)
  \/ \E r \in replies : Receive(r)
  \/ \E e \in Edbs : CheckDelete(e)
  \/ RemoveTree
  \/ ServerStep
  \/ Signal \/ Crash \/ CrashRegistering \/ Start

DbSpec == DbInit /\ [][DbNext]_dbvars /\ WF_dbvars(ServerStep)

-----------------------------------------------------------------------------
Kinds == {"CREATE", "RESUME", "UPDATE", "SHUTDOWN"}

(* Every variable has the shape of its counterpart.                        *)
DbTypeOK ==
  /\ TypeOK
  /\ sessions \in [Clients -> [pc : {"none", "init", "open", "closed"}, edb : 0..MaxEdbs]]
  /\ DOMAIN catalog \subseteq Edbs /\ catalog \in [DOMAIN catalog -> SUBSET Updates]
  /\ deleting \in 0..MaxEdbs
  /\ queue \in Seq([client : Clients, kind : Kinds, edb : 0..MaxEdbs, live : BOOLEAN])
  /\ replies \subseteq [client : Clients, kind : Kinds, ok : BOOLEAN, edb : 0..MaxEdbs,
                        update : Updates \cup {NoUpdate}]
  /\ process \in {"up", "flushing", "destroying", "exiting", "gone"}
  /\ flushed \subseteq Clients
  /\ DOMAIN edbs \subseteq Edbs /\ edbs \in [DOMAIN edbs -> SUBSET Updates]
  /\ files \in [Edbs -> SUBSET Updates] /\ saved \in [Edbs -> SUBSET Updates]

(* A database that the gateway deleted stays deleted, unless a client was  *)
(* connected to it in edb_id_map at the time (where clients stay when      *)
(* their sessions are closed): nothing else recreates its files, neither a *)
(* request that was on its way nor the flushes at the end.                 *)
DeletedStays ==
  ~torn => \A e \in deleted \ zombies : ~OnDisk(e) /\ files[e] = {}

(* A sealed context can be used: the blobs it refers to are on disk, and,  *)
(* where the server has the database open, in the copy it answers the      *)
(* enclave from; and it has every database open that the enclave has a     *)
(* context of.                                                             *)
SealedIsStored ==
  /\ ~torn => \A e \in Edbs \ zombies :
       /\ snapshots[e].log \subseteq files[e]
       /\ e \in DOMAIN edbs => snapshots[e].log \subseteq edbs[e]
  /\ active # NoCtx => active.edb \in DOMAIN edbs
  /\ \A c \in DOMAIN inactive : inactive[c].edb \in DOMAIN edbs

(* An open session's catalog knows every document of the context that      *)
(* serves it (or its reply is on the way), so that alloc_doc_id does not   *)
(* hand out its number.  That is: if no insert timed out, or overlapped or *)
(* followed the shutdown of its session, the database was not deleted      *)
(* under a client or resumed before the gateway had the answer to its      *)
(* creation, and no two sessions had it open, those included that cannot   *)
(* be shut down because the server has been restarted.                     *)
CatalogCovers ==
  ~torn => \A c \in DOMAIN edb_id_map :
    LET e == sessions[c].edb IN
    sessions[c].pc = "open" /\ e \in DOMAIN catalog \ careless =>
      \A x \in Served(c) :
        x.log \subseteq catalog[e] \cup {r.update : r \in replies}

(* No number is given to a second database, also when the server dies      *)
(* while it registers one; unless it dies between truncating meta.dat and  *)
(* writing it.                                                             *)
NumbersNotReused ==
  [][~torn => \A e \in Edbs : creator[e] # NoClient => creator'[e] = creator[e]]_dbvars

(* A server that is told to stop stops: no request, and no database that   *)
(* cannot be flushed, keeps it.                                            *)
ShutdownCompletes == process = "flushing" ~> process = "gone"
=============================================================================
