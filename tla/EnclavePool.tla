------------------------------ MODULE EnclavePool ------------------------------
(***************************************************************************)
(* The worker threads of a server and the pool of enclaves they share      *)
(* (Server.cpp: EnclavePool, worker_loop, handle_request, ~Server), driven *)
(* the way benchmark_main.cpp drives them: one thread registers the        *)
(* clients one after the other, then every client has a thread of its own, *)
(* and when those have been joined the server is destroyed.                *)
(*                                                                         *)
(* A step is what a thread does while it holds queue_mtx or pool_mtx, or   *)
(* between two such sections.  What a request does inside an enclave is    *)
(* left out (EnclaveContexts); it succeeds or fails.                       *)
(***************************************************************************)
EXTENDS Integers, Sequences, FiniteSets

CONSTANTS NumEnclaves, NumClients, Workers

ASSUME EnclavePoolAssumption ==
  /\ NumEnclaves \in Nat \ {0} /\ NumClients \in Nat \ {0}
  /\ Workers # {} /\ IsFiniteSet(Workers)

VARIABLES
  task_queue,          \* the clients whose tasks wait for a worker
  call,                \* client -> its call of handle_request
  worker,              \* worker -> where it is, for which client, in which enclave
  busy,                \* enclave -> EnclaveInstance::busy
  client_enclave_map,  \* client -> the enclave it is bound to
  available_enclaves,  \* enclaves no client was ever given
  next_client,         \* the client that is registered next
  joined,              \* clients whose threads have ended
  server,              \* "registering", "up", "flushing", "stopping", "gone"
  stop_flag,
  flushed              \* clients whose databases ~Server has flushed

threads == <<task_queue, call, worker>>
pool == <<busy, client_enclave_map, available_enclaves>>
main == <<next_client, joined, server, stop_flag, flushed>>
vars == <<threads, pool, main>>

Enclaves == 1..NumEnclaves
Clients == 1..NumClients
NoEnclave == 0
NoClient == 0

NoCall == [pc |-> "idle", kind |-> "none", result |-> "none"]
Awake == [pc |-> "awake", client |-> NoClient, enclave |-> NoEnclave, result |-> "none"]

Init ==
  /\ task_queue = <<>>
  /\ call = [c \in Clients |-> NoCall]
  /\ worker = [w \in Workers |-> Awake]
  /\ busy = [e \in Enclaves |-> FALSE]
  /\ client_enclave_map = [c \in Clients |-> NoEnclave]
  /\ available_enclaves = [i \in Enclaves |-> i]
  /\ next_client = 1 /\ joined = {}
  /\ server = "registering" /\ stop_flag = FALSE /\ flushed = {}

-----------------------------------------------------------------------------
(* Callers of handle_request.                                              *)

Quiet == \A c \in Clients : call[c].pc = "idle"

(* The task is pushed under queue_mtx; notify_one comes after.             *)
Submit(c, kind) ==
  /\ call[c].pc = "idle"
  /\ task_queue' = Append(task_queue, c)
  /\ call' = [call EXCEPT ![c] = [pc |-> "notify", kind |-> kind, result |-> "none"]]
  /\ UNCHANGED <<worker, pool>>

(* Mutant: the next client is registered before the last one has answered. *)
Register_Overlapping ==
  /\ server = "registering" /\ next_client <= NumClients
  /\ Submit(next_client, "INIT")
  /\ next_client' = next_client + 1
  /\ UNCHANGED <<joined, server, stop_flag, flushed>>

(* The registering thread: INIT of the next client, then its inserts.      *)
Register ==
  /\ server = "registering" /\ Quiet /\ next_client <= NumClients
  /\ Submit(next_client, "INIT")
  /\ next_client' = next_client + 1
  /\ UNCHANGED <<joined, server, stop_flag, flushed>>

Insert ==
  /\ server = "registering" /\ Quiet /\ next_client > 1
  /\ Submit(next_client - 1, "USE")
  /\ UNCHANGED main

StartThreads ==
  /\ server = "registering" /\ Quiet /\ next_client > NumClients
  /\ server' = "up"
  /\ UNCHANGED <<threads, pool, next_client, joined, stop_flag, flushed>>

(* A client's own thread.                                                  *)
Select(c) ==
  /\ server = "up" /\ c \notin joined
  /\ Submit(c, "USE")
  /\ UNCHANGED main

Join(c) ==
  /\ server = "up" /\ c \notin joined /\ call[c].pc = "idle"
  /\ joined' = joined \cup {c}
  /\ UNCHANGED <<threads, pool, next_client, server, stop_flag, flushed>>

Wake(S) == [w \in Workers |-> IF w \in S THEN Awake ELSE worker[w]]
Asleep == {w \in Workers : worker[w].pc = "asleep"}

(* notify_one; the caller then blocks in fut.get().                        *)
Notify(c) ==
  /\ call[c].pc = "notify"
  /\ call' = [call EXCEPT ![c].pc = "waiting"]
  /\ IF Asleep = {} THEN worker' = worker
     ELSE \E w \in Asleep : worker' = Wake({w})
  /\ UNCHANGED <<task_queue, pool, main>>

(* Mutant: the caller does not wait for the future.                        *)
Return_Early(c) ==
  /\ call[c].pc = "waiting"
  /\ call' = [call EXCEPT ![c] = NoCall]
  /\ UNCHANGED <<task_queue, worker, pool, main>>

(* The future is ready.                                                    *)
Return(c) ==
  /\ call[c].pc = "waiting" /\ call[c].result # "none"
  /\ call' = [call EXCEPT ![c] = NoCall]
  /\ UNCHANGED <<task_queue, worker, pool, main>>

-----------------------------------------------------------------------------
(* worker_loop.                                                            *)

Goto(w, pc, c, e, result) ==
  worker' = [worker EXCEPT ![w] =
               [pc |-> pc, client |-> c, enclave |-> e, result |-> result]]

Take(w) ==
  /\ worker[w].pc = "awake" /\ task_queue # <<>>
  /\ task_queue' = Tail(task_queue)
  /\ Goto(w, "acquiring", Head(task_queue), NoEnclave, "none")
  /\ UNCHANGED <<call, pool, main>>

(* Mutant: wait without a predicate.                                       *)
Sleep_Unchecked(w) ==
  /\ worker[w].pc = "awake" /\ ~stop_flag
  /\ worker' = [worker EXCEPT ![w].pc = "asleep"]
  /\ UNCHANGED <<task_queue, call, pool, main>>

Sleep(w) ==
  /\ worker[w].pc = "awake" /\ task_queue = <<>> /\ ~stop_flag
  /\ worker' = [worker EXCEPT ![w].pc = "asleep"]
  /\ UNCHANGED <<task_queue, call, pool, main>>

Exit(w) ==
  /\ worker[w].pc = "awake" /\ task_queue = <<>> /\ stop_flag
  /\ worker' = [worker EXCEPT ![w].pc = "exited"]
  /\ UNCHANGED <<task_queue, call, pool, main>>

Idle == {e \in Enclaves : ~busy[e]}

(* Mutant: the search for an idle enclave starts at the other end.         *)
Offered_LastIdle(c) ==
  IF client_enclave_map[c] # NoEnclave THEN Idle \cap {client_enclave_map[c]}
  ELSE IF available_enclaves # <<>> /\ Head(available_enclaves) \in Idle
  THEN {Head(available_enclaves)}
  ELSE {e \in Idle : \A f \in Idle : f <= e}

(* What acquire has for client c, at most one enclave: the one it is bound *)
(* to if that is idle; for a new client the front of available_enclaves,   *)
(* which is dropped from it for good, or else the first idle enclave.      *)
Offered(c) ==
  IF client_enclave_map[c] # NoEnclave THEN Idle \cap {client_enclave_map[c]}
  ELSE IF available_enclaves # <<>> /\ Head(available_enclaves) \in Idle
  THEN {Head(available_enclaves)}
  ELSE {e \in Idle : \A f \in Idle : e <= f}

(* Mutant: the client instead of the enclave is put back.                  *)
Popped_ClientBack(c) ==
  IF client_enclave_map[c] = NoEnclave /\ available_enclaves # <<>>
  THEN Append(Tail(available_enclaves), c) ELSE available_enclaves

Popped(c) ==
  IF client_enclave_map[c] = NoEnclave /\ available_enclaves # <<>>
  THEN Tail(available_enclaves) ELSE available_enclaves

(* Mutant: the flag is read and not set.                                   *)
Grant_NotExclusive(w, e) ==
  /\ busy' = busy
  /\ client_enclave_map' = [client_enclave_map EXCEPT ![worker[w].client] = e]
  /\ Goto(w, "serving", worker[w].client, e, "none")

Grant(w, e) ==
  /\ busy' = [busy EXCEPT ![e] = TRUE]
  /\ client_enclave_map' = [client_enclave_map EXCEPT ![worker[w].client] = e]
  /\ Goto(w, "serving", worker[w].client, e, "none")

(* EnclavePool::acquire, up to the point where it would release pool_mtx.  *)
Acquire(w) ==
  LET c == worker[w].client IN
  /\ worker[w].pc = "acquiring"
  /\ available_enclaves' = Popped(c)
  /\ \/ \E e \in Offered(c) : Grant(w, e)
     \/ /\ Offered(c) = {}
        /\ IF client_enclave_map[c] # NoEnclave
           THEN Goto(w, "polling", c, NoEnclave, "none")
           ELSE Goto(w, "answering", c, NoEnclave, "no enclave")
        /\ UNCHANGED <<busy, client_enclave_map>>
  /\ UNCHANGED <<task_queue, call, main>>

(* One turn of the polling loop that finds the enclave idle ...            *)
PollSucceeds(w) ==
  /\ worker[w].pc = "polling"
  /\ \E e \in Offered(worker[w].client) : Grant(w, e)
  /\ UNCHANGED <<task_queue, call, available_enclaves, main>>

(* Mutant: the loop has no end of its own.                                 *)
PollTimesOut_Never(w) == FALSE /\ UNCHANGED vars

(* ... or the five seconds over, which is asked before anything else.      *)
PollTimesOut(w) ==
  /\ worker[w].pc = "polling"
  /\ Goto(w, "answering", worker[w].client, NoEnclave, "timeout")
  /\ UNCHANGED <<task_queue, call, pool, main>>

(* Mutant: the error path returns without releasing.                       *)
Release_NotOnError(w) ==
  /\ worker[w].pc = "serving"
  /\ \E r \in {"ok", "error"} :
       /\ busy' = [busy EXCEPT ![worker[w].enclave] = r = "error"]
       /\ Goto(w, "answering", worker[w].client, NoEnclave, r)
  /\ UNCHANGED <<task_queue, call, client_enclave_map, available_enclaves, main>>

(* The rest of handle_request_core: every way out of it releases.          *)
Release(w) ==
  /\ worker[w].pc = "serving"
  /\ busy' = [busy EXCEPT ![worker[w].enclave] = FALSE]
  /\ \E r \in {"ok", "error"} : Goto(w, "answering", worker[w].client, NoEnclave, r)
  /\ UNCHANGED <<task_queue, call, client_enclave_map, available_enclaves, main>>

(* done.set_value                                                          *)
Answer(w) ==
  /\ worker[w].pc = "answering"
  /\ call' = [call EXCEPT ![worker[w].client].result = worker[w].result]
  /\ worker' = [worker EXCEPT ![w] = Awake]
  /\ UNCHANGED <<task_queue, pool, main>>

WorkerStep(w) ==
  \/ Take(w) \/ Sleep(w) \/ Exit(w)
  \/ Acquire(w) \/ PollSucceeds(w) \/ PollTimesOut(w)
  \/ Release(w) \/ Answer(w)

-----------------------------------------------------------------------------
(* ~Server: shutdown_flush, then the flag, then notify_all and the joins.  *)

Destroy ==
  /\ server = "up" /\ joined = Clients
  /\ server' = "flushing"
  /\ UNCHANGED <<threads, pool, next_client, joined, stop_flag, flushed>>

(* One turn of the loop of shutdown_flush; a client whose enclave cannot   *)
(* be acquired is skipped.                                                 *)
Flush(c) ==
  /\ server = "flushing" /\ c \notin flushed
  /\ Offered(c) # {}
  /\ flushed' = flushed \cup {c}
  /\ UNCHANGED <<threads, pool, next_client, joined, server, stop_flag>>

Stop ==
  /\ server = "flushing"
  /\ \A c \in Clients : Offered(c) # {} => c \in flushed
  /\ server' = "stopping" /\ stop_flag' = TRUE
  /\ UNCHANGED <<threads, pool, next_client, joined, flushed>>

(* Mutant: notify_one.                                                     *)
NotifyAll_One ==
  /\ server = "stopping" /\ server' = "gone"
  /\ \E w \in Workers : worker' = Wake(Asleep \cap {w})
  /\ UNCHANGED <<task_queue, call, pool, next_client, joined, stop_flag, flushed>>

NotifyAll ==
  /\ server = "stopping" /\ server' = "gone"
  /\ worker' = Wake(Asleep)
  /\ UNCHANGED <<task_queue, call, pool, next_client, joined, stop_flag, flushed>>

Next ==
  \/ Register
  \/ Insert
  \/ StartThreads
  \/ \E c \in Clients : Select(c) \/ Join(c) \/ Notify(c) \/ Return(c) \/ Flush(c)
  \/ \E w \in Workers : WorkerStep(w)
  \/ Destroy
  \/ Stop
  \/ NotifyAll

(* Threads that can run do run, and so does the clock behind the polling   *)
(* loop.  Nothing is assumed of the callers: they may stop asking.         *)
Fairness ==
  /\ \A w \in Workers : WF_vars(WorkerStep(w))
  /\ \A c \in Clients : WF_vars(Notify(c)) /\ WF_vars(Return(c)) /\ WF_vars(Flush(c))
  /\ WF_vars(Stop) /\ WF_vars(NotifyAll)

Spec == Init /\ [][Next]_vars /\ Fairness

-----------------------------------------------------------------------------
Results == {"none", "ok", "error", "no enclave", "timeout"}

(* Every variable has the shape of its C++ counterpart.                    *)
TypeOK ==
  /\ task_queue \in Seq(Clients)
  /\ call \in [Clients -> [pc : {"idle", "notify", "waiting"},
                           kind : {"none", "INIT", "USE"}, result : Results]]
  /\ worker \in [Workers ->
       [pc : {"awake", "asleep", "exited", "acquiring", "polling", "serving", "answering"},
        client : Clients \cup {NoClient}, enclave : Enclaves \cup {NoEnclave},
        result : Results]]
  /\ busy \in [Enclaves -> BOOLEAN]
  /\ client_enclave_map \in [Clients -> Enclaves \cup {NoEnclave}]
  /\ available_enclaves \in Seq(Enclaves)
  /\ next_client \in 1..(NumClients + 1) /\ joined \subseteq Clients
  /\ server \in {"registering", "up", "flushing", "stopping", "gone"}
  /\ stop_flag \in BOOLEAN /\ flushed \subseteq Clients

Serving(e) == {w \in Workers : worker[w].pc = "serving" /\ worker[w].enclave = e}

(* No two requests are ever inside one enclave (whose context_manager is   *)
(* one global, without a lock).                                            *)
EnclaveExclusive ==
  \A v, w \in Workers :
    worker[v].pc = "serving" /\ worker[w].pc = "serving"
      /\ worker[v].enclave = worker[w].enclave => v = w

(* An enclave is marked busy exactly while a request is inside: no way out *)
(* of handle_request_core leaves it marked, none clears another's mark.    *)
BusyIffServing == \A e \in Enclaves : busy[e] <=> Serving(e) # {}

(* No client is turned away because every enclave is busy: that can only   *)
(* happen to a client that is not bound yet, and all are bound before the  *)
(* threads start.                                                          *)
NobodyTurnedAway == \A c \in Clients : call[c].result # "no enclave"

(* edb_id_map, which has no lock, is not written by the INIT of one client *)
(* while another request is looking into it.                               *)
MapNotRaced ==
  \A v, w \in Workers :
    /\ worker[v].pc \in {"acquiring", "polling", "serving"}
    /\ worker[w].pc \in {"acquiring", "polling", "serving"}
    /\ call[worker[v].client].kind = "INIT"
    => v = w

(* Registered one after the other, the clients beyond the number of        *)
(* enclaves all end up with the first enclave; the others keep the one     *)
(* client they got when they were new.                                     *)
LateClientsShareFirst ==
  \A e \in Enclaves \ {1} :
    Cardinality({c \in Clients : client_enclave_map[c] = e}) <= 1

ActivePcs == {"acquiring", "polling", "serving", "answering"}
WorksFor(w, c) == worker[w].pc \in ActivePcs /\ worker[w].client = c

(* No task and no wakeup is lost: the task of a call that has no answer is *)
(* in the queue or with a worker; while there are tasks in the queue a     *)
(* worker is awake or at work (and looks again), or a caller is about to   *)
(* notify one; and none sleeps on once ~Server has notified them all.      *)
NoLostWakeup ==
  /\ \A c \in Clients : call[c].pc # "idle" /\ call[c].result = "none" =>
       \/ \E i \in DOMAIN task_queue : task_queue[i] = c
       \/ \E w \in Workers : WorksFor(w, c)
  /\ task_queue # <<>> =>
       \/ \E w \in Workers : worker[w].pc \notin {"asleep", "exited"}
       \/ \E c \in Clients : call[c].pc = "notify"
  /\ server = "gone" => Asleep = {}

(* Every call of handle_request returns: no lost wakeup, no waiting for an *)
(* enclave without end.                                                    *)
EveryCallReturns == \A c \in Clients : call[c].pc # "idle" ~> call[c].pc = "idle"

(* A server that is being destroyed is destroyed: all workers are joined.  *)
WorkersJoined == stop_flag ~> \A w \in Workers : worker[w].pc = "exited"
=============================================================================
