--------------------------- MODULE EnclavePoolProofs ---------------------------
(***************************************************************************)
(* EnclavePool for any number of enclaves, clients and workers.            *)
(*                                                                         *)
(* That an enclave serves one request at a time needs only the marks       *)
(* (Exclusive).  That nobody is turned away, that the map is not raced and *)
(* that late clients share the first enclave hang on the order in which    *)
(* clients are registered: as long as that goes on there is one call at a  *)
(* time, so that a client that is not bound yet finds every enclave idle   *)
(* (Orderly).                                                              *)
(***************************************************************************)
EXTENDS EnclavePool, FiniteSetTheorems, TLAPS

USE EnclavePoolAssumption

-----------------------------------------------------------------------------
(* Exclusive.                                                              *)

ServingInside ==
  \A w \in Workers : worker[w].pc = "serving" => worker[w].enclave \in Enclaves

Exclusive == TypeOK /\ EnclaveExclusive /\ BusyIffServing /\ ServingInside

Pcs == {"awake", "asleep", "exited", "acquiring", "polling", "serving", "answering"}
WorkerStates == [pc : Pcs, client : Clients \cup {NoClient},
                 enclave : Enclaves \cup {NoEnclave}, result : Results]

(* What the steps that leave the enclaves alone have in common: no worker  *)
(* enters or leaves "serving".                                             *)
SameServing ==
  /\ busy' = busy
  /\ \A w \in Workers :
       \/ worker'[w] = worker[w]
       \/ worker'[w].pc # "serving" /\ worker[w].pc # "serving"

LEMMA SameServingKeeps ==
  ASSUME Exclusive, SameServing
  PROVE  EnclaveExclusive' /\ BusyIffServing' /\ ServingInside'
<1> USE DEF Exclusive, SameServing
<1>1. EnclaveExclusive'
  BY DEF EnclaveExclusive
<1>2. \A e \in Enclaves : Serving(e)' = Serving(e)
  BY DEF Serving
<1>3. BusyIffServing'
  BY <1>2, Zenon DEF BusyIffServing
<1>4. ServingInside'
  BY DEF ServingInside
<1> QED BY <1>1, <1>3, <1>4

(* acquire never offers what it may not give.                              *)
LEMMA OfferedIdle == \A c : Offered(c) \subseteq Idle
BY DEF Offered

LEMMA IdleEnclaves == Idle \subseteq Enclaves
BY DEF Idle

(* An idle enclave that is granted was not being served in.                *)
LEMMA GrantKeeps ==
  ASSUME Exclusive, NEW w \in Workers, worker[w].pc # "serving",
         NEW e \in Idle, Grant(w, e)
  PROVE  EnclaveExclusive' /\ BusyIffServing' /\ ServingInside'
<1> e \in Enclaves
  BY IdleEnclaves
<1>1. Serving(e) = {}
  BY Zenon DEF Exclusive, BusyIffServing, Idle
<1>2. \A v \in Workers : worker[v].pc = "serving" => worker[v].enclave # e
  BY <1>1 DEF Serving
<1>3. /\ worker' = [worker EXCEPT ![w] = worker'[w]]
      /\ worker'[w].pc = "serving" /\ worker'[w].enclave = e
  BY DEF Grant, Goto, Exclusive, TypeOK
<1>4. \A v \in Workers \ {w} : worker'[v] = worker[v]
  BY <1>3 DEF Exclusive, TypeOK
<1>5. EnclaveExclusive'
  BY <1>2, <1>3, <1>4 DEF EnclaveExclusive, Exclusive
<1>6. ServingInside'
  BY <1>3, <1>4 DEF ServingInside, Exclusive
<1>7. \A f \in Enclaves \ {e} : Serving(f)' = Serving(f)
  BY <1>3, <1>4 DEF Serving
<1>8. Serving(e)' # {}
  BY <1>3 DEF Serving
<1>9. busy' = [busy EXCEPT ![e] = TRUE] /\ busy \in [Enclaves -> BOOLEAN]
  BY DEF Grant, Exclusive, TypeOK
<1>10. BusyIffServing'
  <2> SUFFICES ASSUME NEW f \in Enclaves PROVE busy'[f] <=> Serving(f)' # {}
    BY Zenon DEF BusyIffServing
  <2>1. CASE f = e
    <3>1. busy'[e] = TRUE
      BY <1>9, Zenon
    <3> QED BY <2>1, <3>1, <1>8, Zenon
  <2>2. CASE f # e
    <3>1. busy'[f] = busy[f]
      BY <1>9, <2>2, Zenon
    <3> QED BY <2>2, <3>1, <1>7, Zenon DEF Exclusive, BusyIffServing
  <2> QED BY <2>1, <2>2
<1> QED BY <1>5, <1>6, <1>10

THEOREM InitExclusive == Init => Exclusive
<1> SUFFICES ASSUME Init PROVE Exclusive
  OBVIOUS
<1> USE DEF Init, Awake, NoCall, NoClient, NoEnclave
<1>1. TypeOK
  <2>1. call \in [Clients -> [pc : {"idle", "notify", "waiting"},
                              kind : {"none", "INIT", "USE"}, result : Results]]
    BY DEF Results
  <2>2. worker \in [Workers -> WorkerStates]
    BY DEF WorkerStates, Pcs, Results
  <2>3. available_enclaves \in Seq(Enclaves)
    BY DEF Enclaves
  <2>4. task_queue \in Seq(Clients) /\ next_client \in 1..(NumClients + 1)
    OBVIOUS
  <2>5. busy \in [Enclaves -> BOOLEAN]
    BY Zenon
  <2>6. client_enclave_map \in [Clients -> Enclaves \cup {NoEnclave}]
    BY Zenon
  <2>7. stop_flag \in BOOLEAN
    BY Zenon
  <2> QED BY <2>1, <2>2, <2>3, <2>4, <2>5, <2>6, <2>7 DEF TypeOK, WorkerStates, Pcs
<1>2. EnclaveExclusive
  BY DEF EnclaveExclusive
<1>3. \A e \in Enclaves : Serving(e) = {} /\ busy[e] = FALSE
  BY DEF Serving
<1>4. BusyIffServing
  BY <1>3, Zenon DEF BusyIffServing
<1>5. ServingInside
  BY DEF ServingInside
<1> QED BY <1>1, <1>2, <1>4, <1>5 DEF Exclusive

(* Every step keeps the types.                                             *)
LEMMA SubmitType ==
  ASSUME TypeOK, NEW c \in Clients, NEW k \in {"INIT", "USE"}, Submit(c, k)
  PROVE  /\ task_queue' \in Seq(Clients)
         /\ call' \in [Clients -> [pc : {"idle", "notify", "waiting"},
                              kind : {"none", "INIT", "USE"}, result : Results]]
<1>1. task_queue' \in Seq(Clients)
  BY DEF TypeOK, Submit
<1>2. [pc |-> "notify", kind |-> k, result |-> "none"]
        \in [pc : {"idle", "notify", "waiting"}, kind : {"none", "INIT", "USE"},
             result : Results]
  BY DEF Results
<1>3. call' \in [Clients -> [pc : {"idle", "notify", "waiting"},
                              kind : {"none", "INIT", "USE"}, result : Results]]
  BY <1>2 DEF TypeOK, Submit
<1> QED BY <1>1, <1>3

LEMMA GotoType ==
  ASSUME TypeOK, NEW w \in Workers, NEW pc \in Pcs, NEW c \in Clients \cup {NoClient},
         NEW e \in Enclaves \cup {NoEnclave}, NEW r \in Results, Goto(w, pc, c, e, r)
  PROVE  worker' \in [Workers -> WorkerStates]
BY DEF TypeOK, Goto, WorkerStates, Pcs

LEMMA GotoOnly ==
  ASSUME TypeOK, NEW w \in Workers, NEW pc, NEW c, NEW e, NEW r, Goto(w, pc, c, e, r)
  PROVE  /\ worker'[w] = [pc |-> pc, client |-> c, enclave |-> e, result |-> r]
         /\ worker'[w].pc = pc
         /\ \A v \in Workers \ {w} : worker'[v] = worker[v]
BY DEF TypeOK, Goto

LEMMA WakeType ==
  ASSUME TypeOK, NEW S, worker' = Wake(S)
  PROVE  worker' \in [Workers -> WorkerStates]
BY DEF TypeOK, Wake, Awake, WorkerStates, Pcs, Results

LEMMA PoppedType ==
  ASSUME TypeOK, NEW c
  PROVE  Popped(c) \in Seq(Enclaves)
BY DEF TypeOK, Popped

LEMMA GrantType ==
  ASSUME TypeOK, NEW w \in Workers, NEW e \in Enclaves, Grant(w, e)
  PROVE  /\ worker' \in [Workers -> WorkerStates]
         /\ busy' \in [Enclaves -> BOOLEAN]
         /\ client_enclave_map' \in [Clients -> Enclaves \cup {NoEnclave}]
<1>1. worker[w].client \in Clients \cup {NoClient}
  BY DEF TypeOK
<1>2. worker' \in [Workers -> WorkerStates]
  BY <1>1, GotoType DEF Grant, Pcs, Results
<1> QED BY <1>2 DEF TypeOK, Grant

LEMMA StepType == TypeOK /\ [Next]_vars => TypeOK'
<1> SUFFICES ASSUME TypeOK, [Next]_vars PROVE TypeOK'
  OBVIOUS
<1> USE DEF threads, pool, main
<1>w. worker \in [Workers -> WorkerStates]
  BY DEF TypeOK, WorkerStates, Pcs
<1>1. CASE Register
  <2>1. next_client \in Clients /\ next_client' \in 1..(NumClients + 1)
    BY <1>1 DEF Register, Clients, TypeOK
  <2> QED BY <1>1, <2>1, SubmitType DEF Register, Submit, TypeOK
<1>2. CASE Insert
  <2>1. next_client - 1 \in Clients
    BY <1>2 DEF Insert, Clients, TypeOK
  <2> QED BY <1>2, <2>1, SubmitType DEF Insert, Submit, TypeOK
<1>3. CASE StartThreads \/ Destroy \/ Stop
  BY <1>3 DEF StartThreads, Destroy, Stop, TypeOK
<1>4. ASSUME NEW c \in Clients, Select(c)
      PROVE  TypeOK'
  BY <1>4, SubmitType DEF Select, Submit, TypeOK
<1>5. ASSUME NEW c \in Clients, Join(c) \/ Return(c) \/ Flush(c)
      PROVE  TypeOK'
  <2>1. CASE Join(c)
    BY <2>1 DEF Join, TypeOK
  <2>2. CASE Return(c)
    <3>1. NoCall \in [pc : {"idle", "notify", "waiting"}, kind : {"none", "INIT", "USE"},
                      result : Results]
      BY DEF NoCall, Results
    <3> QED BY <2>2, <3>1 DEF Return, TypeOK
  <2>3. CASE Flush(c)
    BY <2>3 DEF Flush, TypeOK
  <2> QED BY <1>5, <2>1, <2>2, <2>3
<1>6. ASSUME NEW c \in Clients, Notify(c)
      PROVE  TypeOK'
  <2>1. worker' \in [Workers -> WorkerStates]
    BY <1>6, <1>w, WakeType DEF Notify
  <2>2. call' \in [Clients -> [pc : {"idle", "notify", "waiting"},
                               kind : {"none", "INIT", "USE"}, result : Results]]
    <3>1. call' = [call EXCEPT ![c].pc = "waiting"]
      BY <1>6 DEF Notify
    <3>2. call \in [Clients -> [pc : {"idle", "notify", "waiting"},
                               kind : {"none", "INIT", "USE"}, result : Results]]
      BY DEF TypeOK
    <3> QED BY <3>1, <3>2
  <2>3. UNCHANGED <<task_queue, pool, main>>
    BY <1>6 DEF Notify
  <2> QED BY <2>1, <2>2, <2>3 DEF TypeOK, WorkerStates, Pcs
<1>7. CASE NotifyAll
  <2>1. worker' \in [Workers -> WorkerStates]
    BY <1>7, WakeType DEF NotifyAll
  <2> QED BY <1>7, <2>1 DEF NotifyAll, TypeOK, WorkerStates, Pcs
<1>8. ASSUME NEW w \in Workers, WorkerStep(w)
      PROVE  TypeOK'
  <2>c. worker[w].client \in Clients \cup {NoClient}
    BY DEF TypeOK
  <2>1. CASE Take(w)
    <3>1. Head(task_queue) \in Clients /\ Tail(task_queue) \in Seq(Clients)
      BY <2>1 DEF Take, TypeOK
    <3>2. worker' \in [Workers -> WorkerStates]
      BY <2>1, <3>1, GotoType DEF Take, Pcs, Results
    <3> QED BY <2>1, <3>1, <3>2 DEF Take, TypeOK, WorkerStates, Pcs
  <2>2. CASE Sleep(w) \/ Exit(w)
    <3>1. worker' \in [Workers -> WorkerStates]
      BY <1>w, <2>2 DEF Sleep, Exit, WorkerStates, Pcs
    <3> QED BY <2>2, <3>1 DEF Sleep, Exit, TypeOK, WorkerStates, Pcs
  <2>3. CASE Acquire(w)
    <3> DEFINE c == worker[w].client
    <3>1. available_enclaves' \in Seq(Enclaves)
      BY <2>3, PoppedType DEF Acquire
    <3>2. CASE \E e \in Offered(c) : Grant(w, e)
      <4>1. PICK e \in Enclaves : Grant(w, e)
        BY <3>2, OfferedIdle, IdleEnclaves
      <4>2. /\ worker' \in [Workers -> WorkerStates]
            /\ busy' \in [Enclaves -> BOOLEAN]
            /\ client_enclave_map' \in [Clients -> Enclaves \cup {NoEnclave}]
        BY <4>1, GrantType
      <4> QED BY <2>3, <3>1, <4>2 DEF Acquire, TypeOK, WorkerStates, Pcs
    <3>3. CASE UNCHANGED <<busy, client_enclave_map>>
               /\ (Goto(w, "polling", c, NoEnclave, "none")
                     \/ Goto(w, "answering", c, NoEnclave, "no enclave"))
      <4>1. worker' \in [Workers -> WorkerStates]
        BY <2>c, <3>3, GotoType DEF Pcs, Results
      <4> QED BY <2>3, <3>1, <3>3, <4>1 DEF Acquire, TypeOK, WorkerStates, Pcs
    <3> QED BY <2>3, <3>2, <3>3 DEF Acquire
  <2>4. CASE PollSucceeds(w)
    <3>1. PICK e \in Enclaves : Grant(w, e)
      BY <2>4, OfferedIdle, IdleEnclaves DEF PollSucceeds
    <3>2. /\ worker' \in [Workers -> WorkerStates]
          /\ busy' \in [Enclaves -> BOOLEAN]
          /\ client_enclave_map' \in [Clients -> Enclaves \cup {NoEnclave}]
      BY <3>1, GrantType
    <3> QED BY <2>4, <3>2 DEF PollSucceeds, TypeOK, WorkerStates, Pcs
  <2>5. CASE PollTimesOut(w) \/ Release(w)
    <3>1. PICK r \in Results : Goto(w, "answering", worker[w].client, NoEnclave, r)
      BY <2>5 DEF PollTimesOut, Release, Results
    <3>3. worker' \in [Workers -> WorkerStates]
      BY <2>c, <3>1, GotoType DEF Pcs
    <3>2. busy' \in [Enclaves -> BOOLEAN]
      BY <2>5 DEF PollTimesOut, Release, TypeOK
    <3> QED BY <2>5, <3>2, <3>3 DEF PollTimesOut, Release, TypeOK, WorkerStates, Pcs
  <2>6. CASE Answer(w)
    <3>1. worker' \in [Workers -> WorkerStates]
      BY <1>w, <2>6 DEF Answer, Awake, WorkerStates, Pcs, Results
    <3>2. worker[w].result \in Results
      BY DEF TypeOK
    <3>3. call' \in [Clients -> [pc : {"idle", "notify", "waiting"},
                                 kind : {"none", "INIT", "USE"}, result : Results]]
      <4>1. call' = [call EXCEPT ![worker[w].client].result = worker[w].result]
        BY <2>6 DEF Answer
      <4>2. call \in [Clients -> [pc : {"idle", "notify", "waiting"},
                                 kind : {"none", "INIT", "USE"}, result : Results]]
        BY DEF TypeOK
      <4> QED BY <3>2, <4>1, <4>2
    <3>4. UNCHANGED <<task_queue, pool, main>>
      BY <2>6 DEF Answer
    <3> QED BY <3>1, <3>3, <3>4 DEF TypeOK, WorkerStates, Pcs
  <2> QED BY <1>8, <2>1, <2>2, <2>3, <2>4, <2>5, <2>6 DEF WorkerStep
<1>9. CASE UNCHANGED vars
  BY <1>9 DEF vars, TypeOK
<1> QED BY <1>1, <1>2, <1>3, <1>4, <1>5, <1>6, <1>7, <1>8, <1>9 DEF Next

(* The request that leaves an enclave was the only one in it.              *)
LEMMA ReleaseKeeps ==
  ASSUME Exclusive, NEW w \in Workers, Release(w)
  PROVE  EnclaveExclusive' /\ BusyIffServing' /\ ServingInside'
<1>1. PICK e \in Enclaves : worker[w].pc = "serving" /\ worker[w].enclave = e
  BY DEF Release, Exclusive, ServingInside
<1>2. worker'[w].pc = "answering" /\ \A v \in Workers \ {w} : worker'[v] = worker[v]
  BY DEF Release, Goto, Exclusive, TypeOK
<1>3. EnclaveExclusive'
  BY <1>2 DEF EnclaveExclusive, Exclusive
<1>4. ServingInside'
  BY <1>2 DEF ServingInside, Exclusive
<1>5. Serving(e)' = {}
  <2> SUFFICES ASSUME NEW v \in Workers, worker'[v].pc = "serving", worker'[v].enclave = e
               PROVE  FALSE
    BY DEF Serving
  <2> QED BY <1>1, <1>2 DEF Exclusive, EnclaveExclusive
<1>6. \A f \in Enclaves \ {e} : Serving(f)' = Serving(f)
  BY <1>1, <1>2 DEF Serving
<1>7. busy' = [busy EXCEPT ![e] = FALSE] /\ busy \in [Enclaves -> BOOLEAN]
  BY <1>1 DEF Release, Exclusive, TypeOK
<1>8. BusyIffServing'
  <2> SUFFICES ASSUME NEW f \in Enclaves PROVE busy'[f] <=> Serving(f)' # {}
    BY Zenon DEF BusyIffServing
  <2>1. CASE f = e
    <3>1. busy'[e] = FALSE
      BY <1>1, <1>7, Zenon
    <3> QED BY <2>1, <3>1, <1>5, Zenon
  <2>2. CASE f # e
    <3>1. busy'[f] = busy[f]
      BY <1>7, <2>2, Zenon
    <3> QED BY <2>2, <3>1, <1>6, Zenon DEF Exclusive, BusyIffServing
  <2> QED BY <2>1, <2>2
<1> QED BY <1>3, <1>4, <1>8

LEMMA StepExclusive == Exclusive /\ [Next]_vars => Exclusive'
<1> SUFFICES ASSUME Exclusive, [Next]_vars PROVE Exclusive'
  OBVIOUS
<1> USE DEF threads, pool, main
<1>t. TypeOK /\ TypeOK'
  BY StepType DEF Exclusive
<1>s. SUFFICES SameServing \/ (EnclaveExclusive' /\ BusyIffServing' /\ ServingInside')
  BY <1>t, SameServingKeeps DEF Exclusive
<1>1. CASE UNCHANGED <<busy, worker>>
  BY <1>1 DEF SameServing
<1>2. ASSUME NEW S \in SUBSET Asleep, UNCHANGED busy, worker' = Wake(S)
      PROVE  SameServing
  BY <1>2 DEF SameServing, Wake, Asleep, Awake
<1>3. CASE Register \/ Insert \/ StartThreads \/ Destroy \/ Stop
  BY <1>1, <1>3 DEF Register, Insert, Submit, StartThreads, Destroy, Stop
<1>4. ASSUME NEW c \in Clients, Select(c) \/ Join(c) \/ Return(c) \/ Flush(c)
      PROVE  SameServing
  BY <1>1, <1>4 DEF Select, Submit, Join, Return, Flush, SameServing
<1>5. ASSUME NEW c \in Clients, Notify(c)
      PROVE  SameServing
  <2>1. CASE worker' = worker
    BY <1>5, <2>1 DEF Notify, SameServing
  <2>2. CASE \E w \in Asleep : worker' = Wake({w})
    BY <1>2, <1>5, <2>2 DEF Notify
  <2> QED BY <1>5, <2>1, <2>2 DEF Notify
<1>6. CASE NotifyAll
  BY <1>2, <1>6 DEF NotifyAll
<1>7. ASSUME NEW w \in Workers, WorkerStep(w)
      PROVE  SameServing \/ (EnclaveExclusive' /\ BusyIffServing' /\ ServingInside')
  <2>2. CASE Take(w) \/ Sleep(w) \/ Exit(w) \/ PollTimesOut(w) \/ Answer(w)
    BY <1>t, <2>2 DEF Take, Sleep, Exit, PollTimesOut, Answer, Awake, Goto, SameServing, TypeOK
  <2>3. CASE Acquire(w)
    <3>1. CASE \E e \in Offered(worker[w].client) : Grant(w, e)
      <4>1. PICK e \in Idle : Grant(w, e)
        BY <3>1, OfferedIdle
      <4> QED BY <2>3, <4>1, GrantKeeps DEF Acquire
    <3>2. CASE UNCHANGED busy
               /\ (Goto(w, "polling", worker[w].client, NoEnclave, "none")
                     \/ Goto(w, "answering", worker[w].client, NoEnclave, "no enclave"))
      <4>1. worker[w].pc = "acquiring"
        BY <2>3 DEF Acquire
      <4>2. worker'[w].pc # "serving" /\ \A v \in Workers \ {w} : worker'[v] = worker[v]
        <5>1. PICK pc \in {"polling", "answering"}, r \in Results :
                Goto(w, pc, worker[w].client, NoEnclave, r)
          BY <3>2 DEF Results
        <5> QED BY <1>t, <5>1, GotoOnly
      <4> QED BY <3>2, <4>1, <4>2 DEF SameServing
    <3> QED BY <2>3, <3>1, <3>2 DEF Acquire
  <2>4. CASE PollSucceeds(w)
    <3>1. PICK e \in Idle : Grant(w, e)
      BY <2>4, OfferedIdle DEF PollSucceeds
    <3> QED BY <2>4, <3>1, GrantKeeps DEF PollSucceeds
  <2>5. CASE Release(w)
    BY <2>5, ReleaseKeeps
  <2> QED BY <1>7, <2>2, <2>3, <2>4, <2>5 DEF WorkerStep
<1>8. CASE UNCHANGED vars
  BY <1>1, <1>8 DEF vars
<1> QED BY <1>3, <1>4, <1>5, <1>6, <1>7, <1>8 DEF Next

THEOREM AlwaysExclusive == Spec => []Exclusive
<1>1. Init => Exclusive
  BY InitExclusive
<1>2. Exclusive /\ [Next]_vars => Exclusive'
  BY StepExclusive
<1> QED BY <1>1, <1>2, PTL DEF Spec

(* Every variable keeps its type, whatever the threads do.                 *)
THEOREM PoolTypeCorrect == Spec => []TypeOK
<1>1. Exclusive => TypeOK
  BY DEF Exclusive
<1> QED BY <1>1, AlwaysExclusive, PTL

(* Two requests are never inside one enclave, for any number of workers,   *)
(* enclaves and clients: acquire marks what it gives under pool_mtx, and   *)
(* the context managers need no lock of their own.                         *)
THEOREM EnclaveAlwaysExclusive == Spec => []EnclaveExclusive
<1>1. Exclusive => EnclaveExclusive
  BY DEF Exclusive
<1> QED BY <1>1, AlwaysExclusive, PTL

(* No enclave is lost to the pool: it is marked exactly while a request is *)
(* inside, errors included.                                                *)
THEOREM BusyAlwaysIffServing == Spec => []BusyIffServing
<1>1. Exclusive => BusyIffServing
  BY DEF Exclusive
<1> QED BY <1>1, AlwaysExclusive, PTL

-----------------------------------------------------------------------------
(* Tasks.  A task is in one place: in the queue once, or with one worker.  *)

Pending(c) == call[c].pc # "idle" /\ call[c].result = "none"

WorkersPending ==
  \A w \in Workers : worker[w].pc \in ActivePcs =>
    worker[w].client \in Clients /\ Pending(worker[w].client)

OneWorkerPerCall ==
  \A c \in Clients : \A v, w \in Workers : WorksFor(v, c) /\ WorksFor(w, c) => v = w

QueuePending ==
  \A i \in DOMAIN task_queue :
    Pending(task_queue[i]) /\ \A w \in Workers : ~WorksFor(w, task_queue[i])

QueueDistinct ==
  \A i, j \in DOMAIN task_queue : task_queue[i] = task_queue[j] => i = j

Tasks == WorkersPending /\ OneWorkerPerCall /\ QueuePending /\ QueueDistinct

THEOREM InitTasks == Init => Tasks
BY DEF Init, Tasks, WorkersPending, OneWorkerPerCall, QueuePending, QueueDistinct,
       WorksFor, ActivePcs, Awake

(* Steps that neither hand a task on nor answer one.                       *)
SameTasks ==
  /\ UNCHANGED task_queue
  /\ \A c \in Clients : Pending(c) => Pending(c)'
  /\ \A w \in Workers : worker'[w].pc \in ActivePcs =>
       worker[w].pc \in ActivePcs /\ worker'[w].client = worker[w].client

LEMMA SameTasksKeep ==
  ASSUME TypeOK, Tasks, SameTasks
  PROVE  Tasks'
<1> USE DEF Tasks, SameTasks, WorksFor
<1>1. \A i \in DOMAIN task_queue : task_queue[i] \in Clients
  BY DEF TypeOK
<1>2. WorkersPending'
  <2> SUFFICES ASSUME NEW w \in Workers, worker'[w].pc \in ActivePcs
               PROVE  worker'[w].client \in Clients /\ Pending(worker[w].client)'
                        /\ worker'[w].client = worker[w].client
    BY DEF WorkersPending, Pending
  <2>1. PICK c \in Clients : worker[w].client = c /\ Pending(c)
    BY DEF WorkersPending
  <2>2. worker'[w].client = c /\ Pending(c)'
    BY <2>1
  <2> QED BY <2>1, <2>2 DEF Pending
<1>3. OneWorkerPerCall'
  BY DEF OneWorkerPerCall
<1>4. QueuePending'
  BY <1>1 DEF QueuePending, Pending
<1>5. QueueDistinct'
  BY DEF QueueDistinct
<1> QED BY <1>2, <1>3, <1>4, <1>5

(* A new task is that of a client none was under way for.                  *)
LEMMA SubmitTasks ==
  ASSUME TypeOK, Tasks, NEW c \in Clients, NEW k, Submit(c, k)
  PROVE  Tasks'
<1> DEFINE n == Len(task_queue)
<1>1. ~Pending(c)
  BY DEF Submit, Pending
<1>2. /\ task_queue \in Seq(Clients) /\ n \in Nat
      /\ \A i \in 1..n : task_queue'[i] = task_queue[i]
      /\ task_queue'[n + 1] = c /\ DOMAIN task_queue' = 1..(n + 1)
      /\ DOMAIN task_queue = 1..n
  BY DEF TypeOK, Submit
<1>3. Pending(c)' /\ \A d \in Clients \ {c} : Pending(d) => Pending(d)'
  BY DEF TypeOK, Submit, Pending
<1>4. worker' = worker
  BY DEF Submit, pool
<1>5. \A w \in Workers : ~WorksFor(w, c)
  BY <1>1 DEF Tasks, WorkersPending, WorksFor
<1>6. \A i \in 1..n : task_queue[i] # c /\ task_queue[i] \in Clients
  BY <1>1, <1>2 DEF Tasks, QueuePending
<1> HIDE DEF n
<1>7. WorkersPending'
  <2> SUFFICES ASSUME NEW w \in Workers, worker[w].pc \in ActivePcs,
                      NEW d \in Clients, worker[w].client = d
               PROVE  Pending(d)'
    BY <1>4 DEF Tasks, WorkersPending, Pending
  <2>1. Pending(d)
    BY DEF Tasks, WorkersPending
  <2> QED BY <1>1, <1>3, <2>1
<1>8. OneWorkerPerCall'
  BY <1>4 DEF Tasks, OneWorkerPerCall, WorksFor
<1>9. QueuePending'
  <2> SUFFICES ASSUME NEW i \in 1..(n + 1), NEW d, task_queue'[i] = d
               PROVE  Pending(d)' /\ \A w \in Workers : ~WorksFor(w, d)
    BY <1>2, <1>4 DEF QueuePending, Pending, WorksFor
  <2>1. CASE i = n + 1
    BY <1>2, <1>3, <1>5, <2>1
  <2>2. CASE i \in 1..n
    <3>1. d = task_queue[i] /\ d \in Clients \ {c}
      BY <1>2, <1>6, <2>2
    <3>2. Pending(d) /\ \A w \in Workers : ~WorksFor(w, d)
      BY <1>2, <2>2, <3>1 DEF Tasks, QueuePending
    <3> QED BY <1>3, <3>1, <3>2
  <2> QED BY <1>2, <2>1, <2>2
<1>10. QueueDistinct'
  BY <1>2, <1>6 DEF Tasks, QueueDistinct
<1> QED BY <1>7, <1>8, <1>9, <1>10 DEF Tasks

(* A worker takes what is in the queue only once.                          *)
LEMMA TakeTasks ==
  ASSUME TypeOK, Tasks, NEW w \in Workers, Take(w)
  PROVE  Tasks'
<1> DEFINE c == Head(task_queue)
           n == Len(task_queue)
<1> USE DEF threads
<1>1. /\ task_queue \in Seq(Clients) /\ n \in Nat \ {0} /\ c \in Clients
      /\ DOMAIN task_queue = 1..n /\ DOMAIN task_queue' = 1..(n - 1)
      /\ \A i \in 1..(n - 1) : task_queue'[i] = task_queue[i + 1]
      /\ c = task_queue[1]
  BY DEF TypeOK, Take
<1>2. PICK u : /\ u = worker'[w] /\ u.pc = "acquiring" /\ u.client = c
               /\ \A v \in Workers \ {w} : worker'[v] = worker[v]
  <2>1. Goto(w, "acquiring", c, NoEnclave, "none")
    BY DEF Take
  <2> HIDE DEF c
  <2>2. worker'[w] = [pc |-> "acquiring", client |-> c, enclave |-> NoEnclave,
                      result |-> "none"]
    BY <2>1, GotoOnly
  <2>3. \A v \in Workers \ {w} : worker'[v] = worker[v]
    BY <2>1, GotoOnly
  <2> QED BY <2>2, <2>3
<1>3. /\ worker'[w].pc = "acquiring" /\ worker'[w].client = c
      /\ \A v \in Workers \ {w} : worker'[v] = worker[v]
  BY <1>2
<1>4. call' = call
  BY DEF Take
<1>5. worker[w].pc \notin ActivePcs
  BY DEF Take, ActivePcs
<1>6. Pending(c) /\ \A v \in Workers : ~WorksFor(v, c)
  BY <1>1 DEF Tasks, QueuePending
<1>7. \A i \in 2..n : task_queue[i] # c
  BY <1>1 DEF Tasks, QueueDistinct
<1> HIDE DEF c, n
<1>8. PICK d : d = c
  OBVIOUS
<1>9. WorkersPending'
  BY <1>1, <1>3, <1>4, <1>6 DEF Tasks, WorkersPending, Pending
<1>10. \A v \in Workers, b \in Clients :
         WorksFor(v, b)' => (v = w /\ b = d) \/ WorksFor(v, b)
  BY <1>3, <1>8 DEF WorksFor
<1>11. OneWorkerPerCall'
  BY <1>6, <1>8, <1>10 DEF Tasks, OneWorkerPerCall
<1>12. QueuePending'
  <2> SUFFICES ASSUME NEW i \in 1..(n - 1), NEW b, b = task_queue'[i]
               PROVE  Pending(b) /\ \A v \in Workers : ~WorksFor(v, b)'
    BY <1>1, <1>4 DEF QueuePending, Pending, WorksFor
  <2>1. b = task_queue[i + 1] /\ i + 1 \in 2..n /\ b \in Clients
    BY <1>1
  <2>2. b # d /\ Pending(b) /\ \A v \in Workers : ~WorksFor(v, b)
    BY <1>1, <1>7, <1>8, <2>1 DEF Tasks, QueuePending
  <2> QED BY <1>10, <2>1, <2>2
<1>13. QueueDistinct'
  BY <1>1 DEF Tasks, QueueDistinct
<1> QED BY <1>9, <1>11, <1>12, <1>13 DEF Tasks

(* An answer ends the only task of its client.                             *)
LEMMA AnswerTasks ==
  ASSUME TypeOK, Tasks, NEW w \in Workers, Answer(w)
  PROVE  Tasks'
<1> USE DEF threads
<1>1. worker[w].pc \in ActivePcs
  BY DEF Answer, ActivePcs
<1>2. PICK c \in Clients : WorksFor(w, c) /\ worker[w].client = c
  BY <1>1 DEF Tasks, WorkersPending, WorksFor
<1>3. worker'[w].pc \notin ActivePcs /\ \A v \in Workers \ {w} : worker'[v] = worker[v]
  BY DEF Answer, Awake, ActivePcs, TypeOK
<1>4. \A d \in Clients \ {c} : Pending(d) => Pending(d)'
  BY <1>2 DEF Answer, Pending, TypeOK
<1>5. task_queue' = task_queue /\ \A i \in DOMAIN task_queue : task_queue[i] \in Clients
  BY DEF Answer, TypeOK
<1>6. \A v \in Workers : \A d : WorksFor(v, d)' => WorksFor(v, d) /\ v # w
  BY <1>3 DEF WorksFor
<1>7. WorkersPending'
  <2> SUFFICES ASSUME NEW v \in Workers, NEW d, WorksFor(v, d)'
               PROVE  d \in Clients /\ Pending(d)'
    BY DEF WorkersPending, WorksFor, Pending
  <2>1. WorksFor(v, d) /\ v # w
    BY <1>6
  <2>2. d \in Clients /\ Pending(d)
    BY <2>1 DEF Tasks, WorkersPending, WorksFor
  <2>3. d # c
    BY <1>2, <2>1, <2>2 DEF Tasks, OneWorkerPerCall
  <2> QED BY <1>4, <2>2, <2>3
<1>8. OneWorkerPerCall'
  BY <1>6 DEF Tasks, OneWorkerPerCall
<1>9. QueuePending'
  <2> SUFFICES ASSUME NEW i \in DOMAIN task_queue, NEW d, d = task_queue[i]
               PROVE  Pending(d)' /\ \A v \in Workers : ~WorksFor(v, d)'
    BY <1>5 DEF QueuePending, Pending, WorksFor
  <2>1. d \in Clients /\ Pending(d) /\ \A v \in Workers : ~WorksFor(v, d)
    BY <1>5 DEF Tasks, QueuePending
  <2> QED BY <1>2, <1>4, <1>6, <2>1
<1>10. QueueDistinct'
  BY <1>5 DEF Tasks, QueueDistinct
<1> QED BY <1>7, <1>8, <1>9, <1>10 DEF Tasks

LEMMA StepTasks == Exclusive /\ Tasks /\ [Next]_vars => Tasks'
<1> SUFFICES ASSUME Exclusive, Tasks, [Next]_vars PROVE Tasks'
  OBVIOUS
<1> USE DEF threads, pool, main
<1>t. TypeOK
  BY DEF Exclusive
<1>s. SameTasks => Tasks'
  BY <1>t, SameTasksKeep
<1>1. CASE Register
  <2>1. next_client \in Clients
    BY <1>1, <1>t DEF Register, Clients, TypeOK
  <2> QED BY <1>1, <1>t, <2>1, SubmitTasks DEF Register
<1>2. CASE Insert
  <2>1. next_client - 1 \in Clients
    BY <1>2, <1>t DEF Insert, Clients, TypeOK
  <2> QED BY <1>2, <1>t, <2>1, SubmitTasks DEF Insert
<1>3. CASE StartThreads \/ Destroy \/ Stop \/ UNCHANGED vars
  BY <1>3, <1>s DEF StartThreads, Destroy, Stop, vars, SameTasks, Pending
<1>4. ASSUME NEW c \in Clients, Select(c)
      PROVE  Tasks'
  BY <1>4, <1>t, SubmitTasks DEF Select
<1>5. ASSUME NEW c \in Clients, Join(c) \/ Flush(c)
      PROVE  Tasks'
  BY <1>5, <1>s DEF Join, Flush, SameTasks, Pending
<1>6. ASSUME NEW c \in Clients, Return(c)
      PROVE  Tasks'
  <2>1. \A d \in Clients : Pending(d) => Pending(d)'
    BY <1>6, <1>t DEF Return, Pending, TypeOK
  <2> QED BY <1>6, <1>s, <2>1 DEF Return, SameTasks
<1>7. ASSUME NEW c \in Clients, Notify(c)
      PROVE  Tasks'
  <2>1. \A d \in Clients : Pending(d) => Pending(d)'
    BY <1>7, <1>t DEF Notify, Pending, TypeOK
  <2>2. worker' = worker \/ \E w \in Asleep : worker' = Wake({w})
    BY <1>7 DEF Notify
  <2>3. \A w \in Workers : worker'[w] = worker[w] \/ worker'[w].pc = "awake"
    BY <2>2 DEF Wake, Awake
  <2> QED BY <1>7, <1>s, <2>1, <2>3 DEF Notify, SameTasks, ActivePcs
<1>8. CASE NotifyAll
  <2>1. \A w \in Workers : worker'[w] = worker[w] \/ worker'[w].pc = "awake"
    BY <1>8 DEF NotifyAll, Wake, Awake
  <2> QED BY <1>8, <1>s, <2>1 DEF NotifyAll, SameTasks, Pending, ActivePcs
<1>9. ASSUME NEW w \in Workers, WorkerStep(w)
      PROVE  Tasks'
  <2>g. ASSUME NEW pc, NEW e, NEW r, worker[w].pc \in ActivePcs,
               Goto(w, pc, worker[w].client, e, r), UNCHANGED <<task_queue, call>>
        PROVE  SameTasks
    <3>1. /\ worker'[w] = [pc |-> pc, client |-> worker[w].client, enclave |-> e,
                           result |-> r]
          /\ \A v \in Workers \ {w} : worker'[v] = worker[v]
      BY <1>t, <2>g, GotoOnly
    <3>2. worker'[w].client = worker[w].client
      BY <3>1
    <3> QED BY <2>g, <3>1, <3>2 DEF SameTasks, Pending
  <2>1. CASE Take(w)
    BY <1>t, <2>1, TakeTasks
  <2>2. CASE Answer(w)
    BY <1>t, <2>2, AnswerTasks
  <2>3. CASE Sleep(w) \/ Exit(w)
    <3>1. \A v \in Workers : worker'[v] = worker[v] \/ worker'[v].pc \in {"asleep", "exited"}
      BY <1>t, <2>3 DEF Sleep, Exit, TypeOK
    <3> QED BY <1>s, <2>3, <3>1 DEF Sleep, Exit, SameTasks, Pending, ActivePcs
  <2>4. CASE Acquire(w)
    <3>1. /\ worker[w].pc \in ActivePcs /\ UNCHANGED <<task_queue, call>>
          /\ \E pc, e, r : Goto(w, pc, worker[w].client, e, r)
      <4>1. CASE \E e \in Offered(worker[w].client) : Grant(w, e)
        BY <2>4, <4>1 DEF Acquire, Grant, ActivePcs
      <4>2. CASE Goto(w, "polling", worker[w].client, NoEnclave, "none")
                   \/ Goto(w, "answering", worker[w].client, NoEnclave, "no enclave")
        BY <2>4, <4>2 DEF Acquire, ActivePcs
      <4> QED BY <2>4, <4>1, <4>2 DEF Acquire
    <3> QED BY <1>s, <2>g, <3>1
  <2>5. CASE PollSucceeds(w) \/ PollTimesOut(w) \/ Release(w)
    BY <1>s, <2>5, <2>g DEF PollSucceeds, PollTimesOut, Release, Grant, ActivePcs
  <2> QED BY <1>9, <2>1, <2>2, <2>3, <2>4, <2>5 DEF WorkerStep
<1> QED BY <1>1, <1>2, <1>3, <1>4, <1>5, <1>6, <1>7, <1>8, <1>9 DEF Next

-----------------------------------------------------------------------------
(* Orderly.  Clients are registered one after the other, and there is one  *)
(* call at a time while that goes on.                                      *)

Registering == server = "registering"

CallsRegistered ==
  \A c \in Clients : call[c].pc # "idle" =>
    c < next_client /\ (Registering => c = next_client - 1)

AllRegistered == ~Registering => next_client = NumClients + 1

InitsEarly ==
  \A c \in Clients : call[c].kind = "INIT" => Registering /\ call[c].pc # "idle"

(* The client that is not bound yet is the one whose INIT is on its way to *)
(* acquire.                                                                *)
Bound ==
  \A c \in Clients : c < next_client /\ client_enclave_map[c] = NoEnclave =>
    /\ Registering /\ c = next_client - 1 /\ Pending(c)
    /\ \A w \in Workers : WorksFor(w, c) => worker[w].pc = "acquiring"

NoRefusal == \A w \in Workers : worker[w].result # "no enclave"

(* What is left in available_enclaves is nobody's.                         *)
AvailableFresh ==
  /\ \A i \in DOMAIN available_enclaves : \A c \in Clients :
       client_enclave_map[c] # available_enclaves[i]
  /\ \A i, j \in DOMAIN available_enclaves :
       available_enclaves[i] = available_enclaves[j] => i = j

OneClientEach ==
  \A c, d \in Clients :
    client_enclave_map[c] = client_enclave_map[d]
      /\ client_enclave_map[c] \notin {1, NoEnclave} => c = d

Orderly ==
  /\ CallsRegistered /\ AllRegistered /\ InitsEarly /\ Bound
  /\ NoRefusal /\ NobodyTurnedAway /\ AvailableFresh /\ OneClientEach

THEOREM InitOrderly == Init => Orderly
<1> SUFFICES ASSUME Init PROVE Orderly
  OBVIOUS
<1> USE DEF Init, NoCall, Awake
<1>1. CallsRegistered /\ AllRegistered /\ InitsEarly /\ NoRefusal /\ NobodyTurnedAway
  BY DEF CallsRegistered, AllRegistered, InitsEarly, Registering, NoRefusal,
         NobodyTurnedAway
<1>2. Bound
  BY DEF Bound, Clients
<1>3. AvailableFresh /\ OneClientEach
  BY DEF AvailableFresh, OneClientEach, Enclaves, NoEnclave
<1> QED BY <1>1, <1>2, <1>3 DEF Orderly

(* Steps that bind nobody, call nothing and leave the phase as it is.      *)
SameOrder ==
  /\ UNCHANGED <<client_enclave_map, available_enclaves, next_client>>
  /\ server' = "registering" <=> Registering
  /\ \A c \in Clients :
       /\ call'[c].pc # "idle" => call[c].pc # "idle"
       /\ call'[c].kind = "INIT" => call[c].kind = "INIT" /\ call'[c].pc # "idle"
       /\ call'[c].result # "no enclave"
       /\ Pending(c) => Pending(c)' \/ client_enclave_map[c] # NoEnclave
       /\ \A w \in Workers : WorksFor(w, c)' =>
            \/ client_enclave_map[c] # NoEnclave
            \/ worker'[w].pc = "acquiring"
            \/ WorksFor(w, c) /\ worker[w].pc # "acquiring"
  /\ \A w \in Workers : worker'[w].result # "no enclave"

LEMMA SameOrderKeeps ==
  ASSUME Orderly, SameOrder
  PROVE  Orderly'
<1> USE DEF Orderly, SameOrder, Registering
<1>1. CallsRegistered' /\ AllRegistered'
  BY DEF CallsRegistered, AllRegistered
<1>2. InitsEarly'
  BY DEF InitsEarly
<1>3. Bound'
  <2> SUFFICES ASSUME NEW c \in Clients, c < next_client, client_enclave_map[c] = NoEnclave
               PROVE  /\ server' = "registering" /\ c = next_client - 1 /\ Pending(c)'
                      /\ \A w \in Workers : WorksFor(w, c)' => worker'[w].pc = "acquiring"
    BY DEF Bound, Pending, WorksFor
  <2>1. /\ Registering /\ c = next_client - 1 /\ Pending(c)
        /\ \A w \in Workers : WorksFor(w, c) => worker[w].pc = "acquiring"
    BY DEF Bound
  <2> QED BY <2>1
<1>4. NoRefusal' /\ NobodyTurnedAway'
  BY DEF NoRefusal, NobodyTurnedAway
<1>5. AvailableFresh' /\ OneClientEach'
  BY DEF AvailableFresh, OneClientEach
<1> QED BY <1>1, <1>2, <1>3, <1>4, <1>5

(* When no call is under way, every client registered so far is bound.     *)
LEMMA QuietBound ==
  ASSUME Orderly, Quiet \/ ~Registering
  PROVE  \A c \in Clients : c < next_client => client_enclave_map[c] # NoEnclave
BY DEF Orderly, Bound, Pending, Quiet

LEMMA SubmitOrderly ==
  ASSUME TypeOK, Tasks, Orderly, NEW c \in Clients, NEW k \in {"INIT", "USE"}, Submit(c, k),
         \A d \in Clients : d < next_client => client_enclave_map[d] # NoEnclave,
         server' = server, next_client' \in {next_client, next_client + 1},
         next_client' = next_client + 1 => Registering,
         c < next_client', k = "INIT" => Registering,
         Registering => Quiet /\ c = next_client' - 1
  PROVE  Orderly'
<1> USE DEF pool, Registering
<1>1. /\ \A d \in Clients \ {c} : call'[d] = call[d]
      /\ call'[c].pc = "notify" /\ call'[c].kind = k /\ call'[c].result = "none"
      /\ next_client \in Nat /\ Clients \subseteq Nat
      /\ UNCHANGED <<worker, client_enclave_map, available_enclaves, busy>>
  BY DEF Submit, TypeOK, Clients
<1>2. CallsRegistered'
  BY <1>1 DEF Orderly, CallsRegistered, Quiet
<1>3. AllRegistered'
  BY <1>1 DEF Orderly, AllRegistered
<1>4. InitsEarly'
  BY <1>1 DEF Orderly, InitsEarly
<1>5. Bound'
  <2> SUFFICES ASSUME NEW d \in Clients, d < next_client', client_enclave_map[d] = NoEnclave
               PROVE  /\ Registering /\ d = next_client' - 1 /\ Pending(d)'
                      /\ \A w \in Workers : ~WorksFor(w, d)
    BY <1>1 DEF Bound, Pending, WorksFor
  <2>1. d = c /\ Registering /\ c = next_client' - 1
    BY <1>1
  <2>2. call[c].pc = "idle"
    BY DEF Submit
  <2>3. \A w \in Workers : ~WorksFor(w, d)
    BY <2>1, <2>2 DEF Tasks, WorkersPending, WorksFor, Pending
  <2>4. Pending(c)'
    BY <1>1 DEF Pending
  <2> QED BY <2>1, <2>3, <2>4 DEF Pending
<1>6. NoRefusal' /\ NobodyTurnedAway'
  BY <1>1 DEF Orderly, NoRefusal, NobodyTurnedAway
<1>7. AvailableFresh' /\ OneClientEach'
  BY <1>1 DEF Orderly, AvailableFresh, OneClientEach
<1> QED BY <1>2, <1>3, <1>4, <1>5, <1>6, <1>7 DEF Orderly

(* A client that is new to the pool finds every enclave idle: the only     *)
(* call there is is its own.                                               *)
LEMMA AllIdle ==
  ASSUME Exclusive, Tasks, Orderly, NEW w \in Workers, worker[w].pc = "acquiring",
         client_enclave_map[worker[w].client] = NoEnclave
  PROVE  Idle = Enclaves
<1>1. PICK c \in Clients : worker[w].client = c /\ Pending(c) /\ WorksFor(w, c)
  BY DEF Tasks, WorkersPending, WorksFor, ActivePcs
<1>2. Registering /\ c = next_client - 1
  BY <1>1 DEF Orderly, CallsRegistered, Bound, Pending
<1>3. \A v \in Workers : worker[v].pc # "serving"
  <2> SUFFICES ASSUME NEW v \in Workers, worker[v].pc = "serving" PROVE FALSE
    OBVIOUS
  <2>1. PICK d \in Clients : WorksFor(v, d) /\ Pending(d)
    BY DEF Tasks, WorkersPending, WorksFor, ActivePcs
  <2>2. d = c
    BY <1>2, <2>1 DEF Orderly, CallsRegistered, Pending
  <2>3. v = w
    BY <1>1, <2>1, <2>2 DEF Tasks, OneWorkerPerCall
  <2> QED BY <2>3
<1>4. \A e \in Enclaves : Serving(e) = {}
  BY <1>3 DEF Serving
<1>5. \A e \in Enclaves : ~busy[e]
  BY <1>4, Zenon DEF Exclusive, BusyIffServing
<1> QED BY <1>5 DEF Idle

(* It is bound to a fresh enclave, or to the first one.                    *)
LEMMA BindOrderly ==
  ASSUME Exclusive, Tasks, Orderly, NEW w \in Workers, Acquire(w),
         client_enclave_map[worker[w].client] = NoEnclave
  PROVE  Orderly'
<1> USE DEF main, Registering
<1>t. TypeOK
  BY DEF Exclusive
<1>1. Idle = Enclaves
  BY AllIdle DEF Acquire
<1>2. PICK c \in Clients : worker[w].client = c
  BY DEF Acquire, Tasks, WorkersPending, ActivePcs
<1>3. PICK e \in Enclaves :
        /\ IF available_enclaves # <<>>
           THEN e = Head(available_enclaves) /\ available_enclaves' = Tail(available_enclaves)
           ELSE e = 1 /\ available_enclaves' = available_enclaves
        /\ Grant(w, e)
  <2>1. CASE available_enclaves # <<>>
    <3>1. Head(available_enclaves) \in Enclaves
      BY <1>t, <2>1 DEF TypeOK
    <3>2. Offered(c) = {Head(available_enclaves)}
      BY <1>1, <1>2, <2>1, <3>1 DEF Offered
    <3> QED BY <1>2, <2>1, <3>1, <3>2 DEF Acquire, Popped
  <2>2. CASE available_enclaves = <<>>
    <3>1. 1 \in Enclaves /\ \A f \in Enclaves : 1 <= f
      BY EnclavePoolAssumption DEF Enclaves
    <3>2. Enclaves \subseteq Nat
      BY DEF Enclaves
    <3>3. Offered(c) = {1}
      <4>1. {x \in Enclaves : \A f \in Enclaves : x <= f} = {1}
        <5>1. ASSUME NEW x \in Enclaves, \A f \in Enclaves : x <= f
              PROVE  x = 1
          <6>1. x <= 1 /\ 1 <= x /\ x \in Nat
            BY <3>1, <3>2, <5>1
          <6> QED BY <6>1
        <5> QED BY <3>1, <5>1
      <4>2. Offered(c) = {x \in Enclaves : \A f \in Enclaves : x <= f}
        BY <1>1, <1>2, <2>2 DEF Offered
      <4> QED BY <4>1, <4>2
    <3> QED BY <1>2, <2>2, <3>1, <3>3 DEF Acquire, Popped
  <2> QED BY <2>1, <2>2
<1>4. /\ client_enclave_map' = [client_enclave_map EXCEPT ![c] = e]
      /\ client_enclave_map \in [Clients -> Enclaves \cup {NoEnclave}]
      /\ NoEnclave \notin Enclaves
      /\ UNCHANGED <<call, main>>
  <2>1. client_enclave_map' = [client_enclave_map EXCEPT ![c] = e]
    BY <1>2, <1>3 DEF Grant
  <2>2. client_enclave_map \in [Clients -> Enclaves \cup {NoEnclave}]
    BY <1>t DEF TypeOK
  <2>3. NoEnclave \notin Enclaves
    BY DEF NoEnclave, Enclaves
  <2>4. UNCHANGED <<call, main>>
    BY DEF Acquire
  <2> QED BY <2>1, <2>2, <2>3, <2>4
<1>5. CallsRegistered' /\ AllRegistered' /\ InitsEarly' /\ NobodyTurnedAway'
  BY <1>4 DEF Orderly, CallsRegistered, AllRegistered, InitsEarly, NobodyTurnedAway
<1>6. worker'[w].result = "none" /\ \A v \in Workers \ {w} : worker'[v] = worker[v]
  <2>1. Goto(w, "serving", c, e, "none")
    BY <1>2, <1>3 DEF Grant
  <2>2. worker'[w] = [pc |-> "serving", client |-> c, enclave |-> e, result |-> "none"]
    BY <1>t, <2>1, GotoOnly
  <2>3. \A v \in Workers \ {w} : worker'[v] = worker[v]
    BY <1>t, <2>1, GotoOnly
  <2> QED BY <2>2, <2>3
<1>7. NoRefusal'
  BY <1>6 DEF Orderly, NoRefusal
<1>8. c = next_client - 1
  BY <1>2, <1>4 DEF Orderly, CallsRegistered, Bound, Tasks, WorkersPending, Pending,
                    ActivePcs, Acquire
<1>9. Bound'
  <2> SUFFICES ASSUME NEW d \in Clients, d < next_client, client_enclave_map'[d] = NoEnclave
               PROVE  FALSE
    BY <1>4 DEF Bound
  <2>1. d # c /\ client_enclave_map[d] = NoEnclave
    BY <1>4
  <2> QED BY <1>8, <2>1 DEF Orderly, Bound
<1>10. AvailableFresh'
  <2>1. CASE available_enclaves # <<>>
    <3> DEFINE n == Len(available_enclaves)
    <3>1. /\ n \in Nat \ {0} /\ e = available_enclaves[1]
          /\ DOMAIN available_enclaves = 1..n /\ DOMAIN available_enclaves' = 1..(n - 1)
          /\ \A i \in 1..(n - 1) : available_enclaves'[i] = available_enclaves[i + 1]
      <4>1. e = Head(available_enclaves) /\ available_enclaves' = Tail(available_enclaves)
        BY <1>3, <2>1
      <4>2. available_enclaves \in Seq(Enclaves)
        BY <1>t DEF TypeOK
      <4> QED BY <2>1, <4>1, <4>2
    <3> HIDE DEF n
    <3>2. \A i, j \in 1..n : available_enclaves[i] = available_enclaves[j] => i = j
      BY <3>1 DEF Orderly, AvailableFresh
    <3>3. \A i \in 1..n : \A d \in Clients : client_enclave_map[d] # available_enclaves[i]
      BY <3>1 DEF Orderly, AvailableFresh
    <3>4. \A i \in 1..(n - 1) : i + 1 \in 1..n /\ i + 1 # 1 /\ 1 \in 1..n
      BY <3>1
    <3>5. \A i \in 1..(n - 1) : available_enclaves[i + 1] # e
      BY <3>1, <3>2, <3>4
    <3>6. \A i \in 1..(n - 1) : \A d \in Clients :
            client_enclave_map'[d] # available_enclaves'[i]
      BY <1>4, <3>1, <3>3, <3>4, <3>5
    <3>7. \A i, j \in 1..(n - 1) : available_enclaves'[i] = available_enclaves'[j] => i = j
      BY <3>1, <3>2, <3>4
    <3> QED BY <3>1, <3>6, <3>7 DEF AvailableFresh
  <2>2. CASE available_enclaves = <<>>
    BY <1>3, <2>2 DEF AvailableFresh
  <2> QED BY <2>1, <2>2
<1>11. OneClientEach'
  <2>1. e = 1 \/ \A d \in Clients : client_enclave_map[d] # e
    <3>1. CASE available_enclaves # <<>>
      <4>1. 1 \in DOMAIN available_enclaves /\ e = available_enclaves[1]
        BY <1>3, <1>t, <3>1 DEF TypeOK
      <4> QED BY <4>1 DEF Orderly, AvailableFresh
    <3>2. CASE available_enclaves = <<>>
      BY <1>3, <3>2
    <3> QED BY <3>1, <3>2
  <2> QED BY <1>4, <2>1 DEF Orderly, OneClientEach
<1> QED BY <1>5, <1>7, <1>9, <1>10, <1>11 DEF Orderly

LEMMA StepOrderly == Exclusive /\ Tasks /\ Orderly /\ [Next]_vars => Orderly'
<1> SUFFICES ASSUME Exclusive, Tasks, Orderly, [Next]_vars PROVE Orderly'
  OBVIOUS
<1> USE DEF threads, pool, main, Registering
<1>t. TypeOK
  BY DEF Exclusive
<1>s. SameOrder => Orderly'
  BY SameOrderKeeps
<1>r. /\ \A c \in Clients : call[c].result # "no enclave"
      /\ \A c \in Clients : call[c].kind = "INIT" => call[c].pc # "idle"
      /\ \A w \in Workers : worker[w].result # "no enclave"
  BY DEF Orderly, NobodyTurnedAway, InitsEarly, NoRefusal
<1>1. CASE Register
  <2>1. /\ next_client \in Clients /\ Registering /\ Quiet
        /\ next_client' = next_client + 1 /\ server' = server
        /\ Submit(next_client, "INIT")
    BY <1>1, <1>t DEF Register, Clients, TypeOK
  <2>2. next_client \in Nat
    BY <1>t DEF TypeOK
  <2>3. next_client < next_client' /\ next_client = next_client' - 1
    BY <2>1, <2>2
  <2> QED BY <1>t, <2>1, <2>3, QuietBound, SubmitOrderly
<1>2. CASE Insert
  <2>1. /\ next_client - 1 \in Clients /\ Registering /\ Quiet
        /\ next_client' = next_client /\ server' = server
        /\ Submit(next_client - 1, "USE")
    BY <1>2, <1>t DEF Insert, Clients, TypeOK
  <2>2. next_client \in Nat /\ next_client # next_client + 1
    BY <1>t DEF TypeOK
  <2>3. next_client - 1 < next_client'
    BY <2>1, <2>2
  <2> QED BY <1>t, <2>1, <2>2, <2>3, QuietBound, SubmitOrderly
<1>3. CASE StartThreads
  <2>1. next_client = NumClients + 1 /\ Quiet
    BY <1>3, <1>t, EnclavePoolAssumption DEF StartThreads, TypeOK
  <2>2. \A c \in Clients : client_enclave_map[c] # NoEnclave
    BY <2>1, QuietBound, EnclavePoolAssumption DEF Clients
  <2>3. CallsRegistered' /\ AllRegistered' /\ InitsEarly'
    BY <1>3, <1>r, <2>1 DEF StartThreads, CallsRegistered, AllRegistered, InitsEarly, Quiet
  <2>4. Bound'
    BY <1>3, <2>2 DEF StartThreads, Bound
  <2>5. NoRefusal' /\ NobodyTurnedAway' /\ AvailableFresh' /\ OneClientEach'
    BY <1>3 DEF StartThreads, Orderly, NoRefusal, NobodyTurnedAway, AvailableFresh,
                OneClientEach
  <2> QED BY <2>3, <2>4, <2>5 DEF Orderly
<1>4. ASSUME NEW c \in Clients, Select(c)
      PROVE  Orderly'
  <2>1. ~Registering /\ next_client' = next_client /\ server' = server /\ Submit(c, "USE")
    BY <1>4 DEF Select
  <2>2. next_client = NumClients + 1
    BY <2>1 DEF Orderly, AllRegistered
  <2>3. c < next_client /\ next_client # next_client + 1
    BY <2>2, EnclavePoolAssumption DEF Clients
  <2> QED BY <1>t, <2>1, <2>3, QuietBound, SubmitOrderly
<1>5. ASSUME NEW c \in Clients, Join(c) \/ Flush(c)
      PROVE  Orderly'
  BY <1>5, <1>s, <1>r DEF Join, Flush, SameOrder, Pending, WorksFor
<1>6. CASE Destroy \/ Stop \/ UNCHANGED vars
  BY <1>6, <1>s, <1>r DEF Destroy, Stop, vars, SameOrder, Pending, WorksFor
<1>7. ASSUME NEW c \in Clients, Return(c)
      PROVE  Orderly'
  <2>1. /\ \A d \in Clients \ {c} : call'[d] = call[d]
        /\ call'[c] = NoCall /\ ~Pending(c)
    BY <1>7, <1>t DEF Return, TypeOK, Pending
  <2>2. call'[c].pc = "idle" /\ call'[c].kind = "none" /\ call'[c].result = "none"
    BY <2>1 DEF NoCall
  <2>3. \A d \in Clients : Pending(d) => Pending(d)'
    BY <2>1 DEF Pending
  <2>4. \A v \in Workers, d \in Clients : WorksFor(v, d)' => WorksFor(v, d)
    BY <1>7 DEF Return, WorksFor
  <2>5. \A v \in Workers : worker'[v] = worker[v]
    BY <1>7 DEF Return
  <2>6. \A d \in Clients :
          /\ call'[d].pc # "idle" => call[d].pc # "idle"
          /\ call'[d].kind = "INIT" => call[d].kind = "INIT" /\ call'[d].pc # "idle"
          /\ call'[d].result # "no enclave"
    BY <1>r, <2>1, <2>2
  <2>7. UNCHANGED <<client_enclave_map, available_enclaves, next_client, server>>
    BY <1>7 DEF Return
  <2> QED BY <1>s, <1>r, <2>3, <2>4, <2>5, <2>6, <2>7 DEF SameOrder
<1>8. ASSUME NEW S, worker' = Wake(S)
      PROVE  \A w \in Workers :
               worker'[w] = worker[w] \/ (worker'[w].pc = "awake" /\ worker'[w].result = "none")
  BY <1>8 DEF Wake, Awake
<1>9. ASSUME NEW c \in Clients, Notify(c)
      PROVE  Orderly'
  <2>1. /\ \A d \in Clients \ {c} : call'[d] = call[d]
        /\ call'[c].kind = call[c].kind /\ call'[c].result = call[c].result
        /\ call'[c].pc # "idle" /\ call[c].pc # "idle"
    BY <1>9, <1>t DEF Notify, TypeOK
  <2>2. \A w \in Workers :
          worker'[w] = worker[w] \/ (worker'[w].pc = "awake" /\ worker'[w].result = "none")
    BY <1>8, <1>9 DEF Notify
  <2>3. \A v \in Workers, d \in Clients :
          WorksFor(v, d)' => WorksFor(v, d) /\ worker'[v] = worker[v]
    BY <2>2 DEF WorksFor, ActivePcs
  <2>4. \A d \in Clients :
          /\ call'[d].pc # "idle" => call[d].pc # "idle"
          /\ call'[d].kind = "INIT" => call[d].kind = "INIT" /\ call'[d].pc # "idle"
          /\ call'[d].result # "no enclave"
    BY <1>r, <2>1
  <2>5. \A d \in Clients : Pending(d) => Pending(d)'
    BY <2>1 DEF Pending
  <2>6. UNCHANGED <<client_enclave_map, available_enclaves, next_client, server>>
    BY <1>9 DEF Notify
  <2>7. \A v \in Workers : worker'[v].result # "no enclave"
    BY <1>r, <2>2
  <2> QED BY <1>s, <2>3, <2>4, <2>5, <2>6, <2>7 DEF SameOrder
<1>10. CASE NotifyAll
  <2>1. \A w \in Workers :
          worker'[w] = worker[w] \/ (worker'[w].pc = "awake" /\ worker'[w].result = "none")
    BY <1>8, <1>10 DEF NotifyAll
  <2> QED BY <1>10, <1>s, <1>r, <2>1 DEF NotifyAll, SameOrder, Pending, WorksFor, ActivePcs
<1>11. ASSUME NEW w \in Workers, WorkerStep(w)
       PROVE  Orderly'
  <2> DEFINE c == worker[w].client
  <2>c. worker[w].pc \in ActivePcs => c \in Clients /\ WorksFor(w, c)
    BY DEF Tasks, WorkersPending, WorksFor
  <2>g. ASSUME NEW pc \in ActivePcs, NEW e, NEW r, r # "no enclave",
               Goto(w, pc, c, e, r), worker[w].pc \in ActivePcs,
               worker[w].pc # "acquiring" \/ client_enclave_map[c] # NoEnclave,
               UNCHANGED <<call, client_enclave_map, available_enclaves, main>>
        PROVE  Orderly'
    <3> HIDE DEF c
    <3>1. /\ worker'[w] = [pc |-> pc, client |-> c, enclave |-> e, result |-> r]
          /\ \A v \in Workers \ {w} : worker'[v] = worker[v]
      <4>1. Goto(w, pc, c, e, r)
        BY <2>g
      <4>2. worker'[w] = [pc |-> pc, client |-> c, enclave |-> e, result |-> r]
        BY <1>t, <4>1, GotoOnly
      <4>3. \A v \in Workers \ {w} : worker'[v] = worker[v]
        BY <1>t, <4>1, GotoOnly
      <4> QED BY <4>2, <4>3
    <3>2. worker'[w].client = c /\ worker'[w].result = r
      BY <3>1
    <3>3. \A v \in Workers : worker'[v].result # "no enclave"
      BY <1>r, <2>g, <3>1, <3>2
    <3>4. \A v \in Workers, d \in Clients : WorksFor(v, d)' =>
            \/ client_enclave_map[d] # NoEnclave
            \/ worker'[v].pc = "acquiring"
            \/ WorksFor(v, d) /\ worker[v].pc # "acquiring"
      <4> SUFFICES ASSUME NEW v \in Workers, NEW d \in Clients, WorksFor(v, d)',
                          worker'[v].pc # "acquiring", client_enclave_map[d] = NoEnclave
                   PROVE  WorksFor(v, d) /\ worker[v].pc # "acquiring"
        OBVIOUS
      <4>1. CASE v = w
        <5>1. d = c
          BY <3>2, <4>1 DEF WorksFor
        <5> QED BY <2>c, <2>g, <4>1, <5>1
      <4>2. CASE v # w
        BY <3>1, <4>2 DEF WorksFor
      <4> QED BY <4>1, <4>2
    <3> QED BY <1>r, <1>s, <2>g, <3>3, <3>4 DEF SameOrder, Pending
  <2>1. CASE Take(w)
    <3>1. Goto(w, "acquiring", Head(task_queue), NoEnclave, "none")
      BY <2>1 DEF Take
    <3>2. /\ worker'[w].pc = "acquiring" /\ worker'[w].result = "none"
          /\ \A v \in Workers \ {w} : worker'[v] = worker[v]
      <4>1. worker'[w] = [pc |-> "acquiring", client |-> Head(task_queue),
                          enclave |-> NoEnclave, result |-> "none"]
        BY <1>t, <3>1, GotoOnly
      <4>2. \A v \in Workers \ {w} : worker'[v] = worker[v]
        BY <1>t, <3>1, GotoOnly
      <4> QED BY <4>1, <4>2
    <3>3. \A v \in Workers, d \in Clients :
            WorksFor(v, d)' => worker'[v].pc = "acquiring" \/ WorksFor(v, d)
      BY <3>2 DEF WorksFor
    <3>4. \A v \in Workers : worker'[v].result # "no enclave"
      BY <1>r, <3>2
    <3>5. \A v \in Workers : worker'[v].pc # "acquiring" => worker[v] = worker'[v]
      BY <3>2
    <3>6. UNCHANGED <<call, client_enclave_map, available_enclaves, next_client, server>>
      BY <2>1 DEF Take
    <3> QED BY <1>r, <1>s, <3>3, <3>4, <3>5, <3>6 DEF SameOrder, Pending
  <2>2. CASE Sleep(w) \/ Exit(w)
    <3>1. \A v \in Workers :
            \/ worker'[v] = worker[v]
            \/ worker'[v].pc \in {"asleep", "exited"} /\ worker'[v].result = worker[v].result
      BY <1>t, <2>2 DEF Sleep, Exit, TypeOK
    <3> QED BY <1>r, <1>s, <2>2, <3>1, ZenonT(60) DEF Sleep, Exit, SameOrder, Pending, WorksFor, ActivePcs
  <2>3. CASE Acquire(w)
    <3>1. CASE client_enclave_map[c] = NoEnclave
      BY <2>3, <3>1, BindOrderly
    <3>2. CASE client_enclave_map[c] # NoEnclave
      <4>1. available_enclaves' = available_enclaves
        BY <2>3, <3>2 DEF Acquire, Popped
      <4>2. Offered(c) \subseteq {client_enclave_map[c]}
        BY <3>2 DEF Offered
      <4>3. worker[w].pc \in ActivePcs /\ worker[w].pc = "acquiring" /\ UNCHANGED <<call, main>>
        BY <2>3 DEF Acquire, ActivePcs
      <4>4. CASE \E e \in Offered(c) : Grant(w, e)
        <5>1. client_enclave_map' = client_enclave_map
          BY <1>t, <2>c, <4>2, <4>3, <4>4 DEF Grant, TypeOK
        <5>2. PICK e : Goto(w, "serving", c, e, "none")
          BY <4>4 DEF Grant
        <5> QED BY <2>g, <3>2, <4>1, <4>3, <5>1, <5>2 DEF ActivePcs
      <4>5. CASE Goto(w, "polling", c, NoEnclave, "none")
                 /\ UNCHANGED client_enclave_map
        BY <2>g, <3>2, <4>1, <4>3, <4>5 DEF ActivePcs
      <4> QED BY <2>3, <3>2, <4>4, <4>5 DEF Acquire
    <3> QED BY <3>1, <3>2
  <2>4. CASE PollSucceeds(w)
    <3>1. /\ worker[w].pc \in ActivePcs /\ worker[w].pc = "polling"
          /\ UNCHANGED <<call, available_enclaves, main>>
      BY <2>4 DEF PollSucceeds, ActivePcs
    <3>2. PICK e \in Offered(c) : Grant(w, e)
      BY <2>4 DEF PollSucceeds
    <3>3. client_enclave_map[c] # NoEnclave
      BY <2>c, <3>1 DEF Orderly, Bound, CallsRegistered, Tasks, WorkersPending, Pending
    <3>4. client_enclave_map' = client_enclave_map
      BY <1>t, <2>c, <3>1, <3>2, <3>3 DEF Grant, Offered, TypeOK
    <3>5. Goto(w, "serving", c, e, "none")
      BY <3>2 DEF Grant
    <3> QED BY <2>g, <3>1, <3>3, <3>4, <3>5 DEF ActivePcs
  <2>5. CASE PollTimesOut(w) \/ Release(w)
    <3>1. /\ worker[w].pc \in ActivePcs /\ worker[w].pc # "acquiring"
          /\ UNCHANGED <<call, client_enclave_map, available_enclaves, main>>
      BY <2>5 DEF PollTimesOut, Release, ActivePcs
    <3>2. PICK r \in {"timeout", "ok", "error"} : Goto(w, "answering", c, NoEnclave, r)
      BY <2>5 DEF PollTimesOut, Release
    <3> QED BY <2>g, <3>1, <3>2 DEF ActivePcs
  <2>6. CASE Answer(w)
    <3>1. /\ WorksFor(w, c) /\ c \in Clients /\ worker[w].pc = "answering" /\ Pending(c)
          /\ UNCHANGED <<client_enclave_map, available_enclaves, next_client, server>>
      BY <2>6, <2>c DEF Answer, ActivePcs, Tasks, WorkersPending
    <3>2. client_enclave_map[c] # NoEnclave
      BY <3>1 DEF Orderly, Bound, CallsRegistered, Pending
    <3>3. /\ call'[c].pc = call[c].pc /\ call'[c].kind = call[c].kind
          /\ call'[c].result = worker[w].result
          /\ \A d \in Clients \ {c} : call'[d] = call[d]
      BY <1>t, <2>6, <3>1 DEF Answer, TypeOK
    <3>4. worker'[w] = Awake /\ \A v \in Workers \ {w} : worker'[v] = worker[v]
      BY <1>t, <2>6 DEF Answer, TypeOK
    <3>5. worker'[w].pc = "awake" /\ worker'[w].result = "none"
      BY <3>4 DEF Awake
    <3>6. \A v \in Workers, d \in Clients :
            WorksFor(v, d)' => WorksFor(v, d) /\ worker'[v] = worker[v]
      BY <3>4, <3>5 DEF WorksFor, ActivePcs
    <3>7. \A d \in Clients :
            /\ call'[d].pc # "idle" => call[d].pc # "idle"
            /\ call'[d].kind = "INIT" => call[d].kind = "INIT" /\ call'[d].pc # "idle"
            /\ call'[d].result # "no enclave"
            /\ Pending(d) => Pending(d)' \/ client_enclave_map[d] # NoEnclave
      BY <1>r, <3>2, <3>3 DEF Pending
    <3>8. \A v \in Workers : worker'[v].result # "no enclave"
      BY <1>r, <3>4, <3>5
    <3> QED BY <1>s, <3>1, <3>6, <3>7, <3>8 DEF SameOrder
  <2> QED BY <1>11, <2>1, <2>2, <2>3, <2>4, <2>5, <2>6 DEF WorkerStep
<1> QED BY <1>1, <1>2, <1>3, <1>4, <1>5, <1>6, <1>7, <1>9, <1>10, <1>11 DEF Next

THEOREM AlwaysOrderly == Spec => [](Exclusive /\ Tasks /\ Orderly)
<1>1. Init => Exclusive /\ Tasks /\ Orderly
  BY InitExclusive, InitTasks, InitOrderly
<1>2. Exclusive /\ Tasks /\ Orderly /\ [Next]_vars => (Exclusive /\ Tasks /\ Orderly)'
  BY StepExclusive, StepTasks, StepOrderly
<1> QED BY <1>1, <1>2, PTL DEF Spec

(* No client is ever told that there is no enclave for it, however few     *)
(* enclaves there are: acquire can only refuse a client that is new to the *)
(* pool, and that one comes while nothing else is under way.               *)
THEOREM NobodyEverTurnedAway == Spec => []NobodyTurnedAway
<1>1. Orderly => NobodyTurnedAway
  BY DEF Orderly
<1> QED BY <1>1, AlwaysOrderly, PTL

(* edb_id_map needs no lock: INIT, which writes it, is the only request    *)
(* there is while it is under way.                                         *)
THEOREM MapNeverRaced == Spec => []MapNotRaced
<1>1. Tasks /\ Orderly => MapNotRaced
  <2> SUFFICES ASSUME Tasks, Orderly, NEW v \in Workers, NEW w \in Workers,
                      worker[v].pc \in {"acquiring", "polling", "serving"},
                      worker[w].pc \in {"acquiring", "polling", "serving"},
                      call[worker[v].client].kind = "INIT"
               PROVE  v = w
    BY DEF MapNotRaced
  <2>1. PICK c \in Clients : WorksFor(v, c) /\ Pending(c) /\ call[c].kind = "INIT"
    BY DEF Tasks, WorkersPending, WorksFor, ActivePcs
  <2>2. PICK d \in Clients : WorksFor(w, d) /\ Pending(d)
    BY DEF Tasks, WorkersPending, WorksFor, ActivePcs
  <2>3. Registering /\ c = next_client - 1 /\ d = next_client - 1
    BY <2>1, <2>2 DEF Orderly, InitsEarly, CallsRegistered, Pending
  <2> QED BY <2>1, <2>2, <2>3 DEF Tasks, OneWorkerPerCall
<1> QED BY <1>1, AlwaysOrderly, PTL

(* Beyond the number of enclaves every client is given the first one; no   *)
(* other enclave is ever shared.                                           *)
THEOREM LateClientsAlwaysShareFirst == Spec => []LateClientsShareFirst
<1>1. Orderly => LateClientsShareFirst
  <2> SUFFICES ASSUME Orderly, NEW e \in Enclaves \ {1}
               PROVE  Cardinality({c \in Clients : client_enclave_map[c] = e}) <= 1
    BY DEF LateClientsShareFirst
  <2> DEFINE S == {c \in Clients : client_enclave_map[c] = e}
  <2>1. CASE S = {}
    BY <2>1, FS_EmptySet
  <2>2. CASE S # {}
    <3>1. PICK c \in S : TRUE
      BY <2>2
    <3>2. e \notin {1, NoEnclave}
      BY DEF Enclaves, NoEnclave
    <3>3. S = {c}
      BY <3>1, <3>2 DEF Orderly, OneClientEach
    <3>4. Cardinality({c}) = 1
      BY FS_Singleton
    <3> QED BY <3>3, <3>4
  <2> QED BY <2>1, <2>2
<1> QED BY <1>1, AlwaysOrderly, PTL

-----------------------------------------------------------------------------
(* Wakeups.  What the end of the server waits for (Ending), and where every *)
(* task is until it is answered.                                           *)

Ending ==
  /\ server = "registering" => joined = {}
  /\ server \notin {"registering", "up"} => joined = Clients
  /\ \A c \in joined : call[c].pc = "idle"
  /\ stop_flag <=> server \in {"stopping", "gone"}
  /\ \A w \in Workers : worker[w].pc = "exited" => stop_flag

(* What is answered is an answer: done.set_value wakes the caller.         *)
Answers == \A w \in Workers : worker[w].pc = "answering" => worker[w].result # "none"

Held(c) == (\E i \in DOMAIN task_queue : task_queue[i] = c) \/ \E w \in Workers : WorksFor(w, c)

TaskHeld == \A c \in Clients : Pending(c) => Held(c)

Attended ==
  task_queue # <<>> =>
    \/ \E w \in Workers : worker[w].pc \notin {"asleep", "exited"}
    \/ \E c \in Clients : call[c].pc = "notify"

NoneLeftAsleep == server = "gone" => Asleep = {}

LEMMA NoLostWakeupParts == NoLostWakeup <=> TaskHeld /\ Attended /\ NoneLeftAsleep
BY DEF NoLostWakeup, TaskHeld, Held, Pending, Attended, NoneLeftAsleep

Wakeups == Ending /\ Answers /\ TaskHeld /\ Attended /\ NoneLeftAsleep

LEMMA InitWakeups == Init => Wakeups
BY DEF Init, NoCall, Awake, Wakeups, Ending, Answers, TaskHeld, Pending, Attended,
       NoneLeftAsleep, Asleep

(* While a call is under way the server is not stopping, and so no worker  *)
(* has left.                                                               *)
LEMMA CallKeepsWorkers ==
  ASSUME TypeOK, Ending, NEW c \in Clients, call[c].pc # "idle"
  PROVE  ~stop_flag /\ \A w \in Workers : worker[w].pc # "exited"
BY DEF Ending

(* What any step does to a worker: it moves its own, or wakes sleepers.    *)
WorkerMoves(w) ==
  \/ worker'[w] = worker[w]
  \/ worker[w].pc = "asleep" /\ worker'[w].pc = "awake"

LEMMA WakeMoves ==
  ASSUME TypeOK, NEW S \in SUBSET Asleep, worker' = Wake(S)
  PROVE  \A w \in Workers : WorkerMoves(w) /\ (w \in S => worker'[w].pc = "awake")
BY DEF TypeOK, Wake, Awake, Asleep, WorkerMoves

(* Steps of the callers and of ~Server.                                    *)
LEMMA CallerEnding ==
  ASSUME TypeOK, Ending, \A w \in Workers : WorkerMoves(w),
         UNCHANGED stop_flag, UNCHANGED server, UNCHANGED joined,
         \A c \in Clients : call'[c].pc # "idle" => c \notin joined
  PROVE  Ending'
BY DEF Ending, WorkerMoves, TypeOK

LEMMA CallerHeld ==
  ASSUME TypeOK, TaskHeld, Answers, \A w \in Workers : WorkerMoves(w), UNCHANGED task_queue,
         \A c \in Clients : Pending(c)' => Pending(c)
  PROVE  TaskHeld' /\ Answers'
<1>1. \A w \in Workers, c \in Clients : WorksFor(w, c) => WorksFor(w, c)'
  BY DEF WorksFor, ActivePcs, WorkerMoves
<1>2. \A c \in Clients : Held(c) => Held(c)'
  BY <1>1 DEF Held
<1>3. TaskHeld'
  BY <1>2 DEF TaskHeld
<1>4. Answers'
  BY DEF Answers, WorkerMoves
<1> QED BY <1>3, <1>4

LEMMA SubmitWakeups ==
  ASSUME TypeOK, Wakeups, NEW c \in Clients \ joined, NEW k, Submit(c, k),
         UNCHANGED joined, UNCHANGED server, UNCHANGED stop_flag, server # "gone"
  PROVE  Wakeups'
<1> USE DEF Wakeups
<1>1. /\ worker' = worker /\ call'[c].pc = "notify"
      /\ \A d \in Clients \ {c} : call'[d] = call[d]
  BY DEF Submit, pool, TypeOK
<1>2. \E i \in DOMAIN task_queue' : task_queue'[i] = c
  <2>1. Len(task_queue) + 1 \in DOMAIN task_queue'
        /\ task_queue'[Len(task_queue) + 1] = c
    BY DEF Submit, TypeOK
  <2> QED BY <2>1
<1>3. \A i \in DOMAIN task_queue : i \in DOMAIN task_queue' /\ task_queue'[i] = task_queue[i]
  BY DEF Submit, TypeOK
<1>4. Ending'
  <2>1. \A d \in joined : call'[d].pc = "idle"
    BY <1>1 DEF Ending, TypeOK
  <2> QED BY <1>1, <2>1 DEF Ending
<1>5. TaskHeld'
  <2> SUFFICES ASSUME NEW d \in Clients, Pending(d)' PROVE Held(d)'
    BY DEF TaskHeld
  <2>1. CASE d = c
    BY <1>2, <2>1 DEF Held
  <2>2. CASE d # c
    <3>1. Held(d)
      BY <1>1, <2>2 DEF TaskHeld, Pending
    <3> QED BY <1>1, <1>3, <3>1 DEF Held, WorksFor
  <2> QED BY <2>1, <2>2
<1>6. Attended' /\ NoneLeftAsleep' /\ Answers'
  BY <1>1 DEF Attended, NoneLeftAsleep, Answers
<1> QED BY <1>4, <1>5, <1>6

(* A worker at work, whatever it does next, is awake or at work; only the  *)
(* task it answers leaves its hands.                                       *)
LEMMA WorkMoves ==
  ASSUME TypeOK, Wakeups, Tasks, NEW w \in Workers, NEW c, worker[w].client = c,
         worker[w].pc \in ActivePcs, UNCHANGED <<task_queue, call, main>>,
         NEW pc \in ActivePcs, NEW e, NEW r, pc = "answering" => r # "none",
         Goto(w, pc, c, e, r)
  PROVE  Wakeups'
<1> USE DEF Wakeups, main
<1>1. worker'[w] = [pc |-> pc, client |-> c, enclave |-> e, result |-> r]
  BY GotoOnly
<1>2. worker'[w].pc = pc /\ worker'[w].client = c /\ worker'[w].result = r
  BY <1>1
<1>3. \A v \in Workers \ {w} : worker'[v] = worker[v]
  BY GotoOnly
<1>4. \A v \in Workers, d \in Clients : WorksFor(v, d) => WorksFor(v, d)'
  BY <1>2, <1>3 DEF WorksFor
<1>5. TaskHeld'
  <2>1. \A d \in Clients : Held(d) => Held(d)'
    BY <1>4 DEF Held
  <2> QED BY <2>1 DEF TaskHeld, Pending
<1>6. Ending'
  BY <1>2, <1>3 DEF Ending, ActivePcs
<1>7. Answers'
  BY <1>2, <1>3 DEF Answers
<1>8. Attended'
  BY <1>2 DEF Attended, ActivePcs
<1>9. NoneLeftAsleep'
  BY <1>2, <1>3 DEF NoneLeftAsleep, Asleep, ActivePcs
<1> QED BY <1>5, <1>6, <1>7, <1>8, <1>9

LEMMA TakeWakeups ==
  ASSUME TypeOK, Wakeups, NEW w \in Workers, Take(w)
  PROVE  Wakeups'
<1> USE DEF Wakeups, main
<1>1. PICK c \in Clients : c = Head(task_queue)
  BY DEF Take, TypeOK
<1>2. Goto(w, "acquiring", c, NoEnclave, "none")
  BY <1>1 DEF Take
<1>3. worker'[w] = [pc |-> "acquiring", client |-> c, enclave |-> NoEnclave, result |-> "none"]
  BY <1>2, GotoOnly
<1>4. worker'[w].pc = "acquiring" /\ worker'[w].client = c
  BY <1>3
<1>5. \A v \in Workers \ {w} : worker'[v] = worker[v]
  BY <1>2, GotoOnly
<1>6. UNCHANGED <<call, server, joined, stop_flag>>
  BY DEF Take
<1>7. \A d \in Clients : Held(d) => Held(d)'
  <2> SUFFICES ASSUME NEW d \in Clients, Held(d) PROVE Held(d)'
    OBVIOUS
  <2>1. ASSUME NEW v \in Workers, WorksFor(v, d) PROVE Held(d)'
    <3>1. v # w
      BY <2>1 DEF WorksFor, Take, ActivePcs
    <3>2. WorksFor(v, d)'
      BY <1>5, <2>1, <3>1 DEF WorksFor
    <3> QED BY <3>2 DEF Held
  <2>2. ASSUME NEW i \in DOMAIN task_queue, task_queue[i] = d PROVE Held(d)'
    <3>1. CASE i = 1
      <4>1. d = c
        BY <1>1, <2>2, <3>1 DEF TypeOK, Take
      <4>2. WorksFor(w, d)'
        BY <1>4, <4>1 DEF WorksFor, ActivePcs
      <4> QED BY <4>2 DEF Held
    <3>2. CASE i # 1
      <4>1. i - 1 \in DOMAIN task_queue' /\ task_queue'[i - 1] = d
        BY <2>2, <3>2 DEF TypeOK, Take
      <4> QED BY <4>1 DEF Held
    <3> QED BY <3>1, <3>2
  <2> QED BY <2>1, <2>2 DEF Held
<1>8. TaskHeld'
  BY <1>6, <1>7 DEF TaskHeld, Pending
<1>9. Ending'
  BY <1>4, <1>5, <1>6 DEF Ending
<1>10. Answers' /\ Attended'
  BY <1>4, <1>5 DEF Answers, Attended
<1>11. NoneLeftAsleep'
  BY <1>4, <1>5, <1>6 DEF NoneLeftAsleep, Asleep
<1> QED BY <1>8, <1>9, <1>10, <1>11

(* A worker goes to sleep, or leaves, only after it has seen the queue     *)
(* empty, and sleeps only while the flag is not set.                       *)
LEMMA RestWakeups ==
  ASSUME TypeOK, Wakeups, NEW w \in Workers, Sleep(w) \/ Exit(w)
  PROVE  Wakeups'
<1> USE DEF Wakeups, main
<1>1. /\ worker[w].pc = "awake" /\ task_queue = <<>>
      /\ UNCHANGED <<task_queue, call, server, joined, stop_flag>>
      /\ \A v \in Workers \ {w} : worker'[v] = worker[v]
      /\ \/ worker'[w].pc = "asleep" /\ ~stop_flag
         \/ worker'[w].pc = "exited" /\ stop_flag
  BY DEF Sleep, Exit, TypeOK
<1>2. \A v \in Workers, d \in Clients : WorksFor(v, d) => WorksFor(v, d)'
  BY <1>1 DEF WorksFor, ActivePcs
<1>3. TaskHeld'
  BY <1>1, <1>2 DEF TaskHeld, Held, Pending
<1>4. Ending'
  BY <1>1 DEF Ending
<1>5. Answers' /\ Attended'
  BY <1>1 DEF Answers, Attended
<1>6. NoneLeftAsleep'
  BY <1>1 DEF NoneLeftAsleep, Asleep, Ending
<1> QED BY <1>3, <1>4, <1>5, <1>6

LEMMA AnswerWakeups ==
  ASSUME TypeOK, Tasks, Wakeups, NEW w \in Workers, Answer(w)
  PROVE  Wakeups'
<1> USE DEF Wakeups, main
<1>1. PICK c \in Clients : worker[w].client = c /\ worker[w].result # "none"
  BY DEF Answer, ActivePcs, Tasks, WorkersPending, Answers
<1>2. /\ ~Pending(c)' /\ call'[c].pc = call[c].pc
      /\ \A d \in Clients \ {c} : call'[d] = call[d]
      /\ UNCHANGED <<task_queue, server, joined, stop_flag>>
  BY <1>1 DEF Answer, TypeOK, Pending
<1>3. worker'[w].pc = "awake" /\ \A v \in Workers \ {w} : worker'[v] = worker[v]
  BY DEF Answer, TypeOK, Awake
<1>4. TaskHeld'
  <2> SUFFICES ASSUME NEW d \in Clients \ {c}, Pending(d) PROVE Held(d)'
    BY <1>2 DEF TaskHeld, Pending
  <2>1. Held(d)
    BY DEF TaskHeld
  <2>2. ~WorksFor(w, d)
    BY <1>1 DEF WorksFor
  <2>3. \A v \in Workers : WorksFor(v, d) => WorksFor(v, d)'
    BY <1>3, <2>2 DEF WorksFor
  <2> QED BY <1>2, <2>1, <2>3 DEF Held
<1>5. Ending'
  <2>1. \A d \in joined : call'[d].pc = "idle"
    BY <1>2 DEF Ending, TypeOK
  <2> QED BY <1>2, <1>3, <2>1 DEF Ending
<1>6. Answers' /\ Attended'
  BY <1>3 DEF Answers, Attended
<1>7. NoneLeftAsleep'
  BY <1>2, <1>3 DEF NoneLeftAsleep, Asleep
<1> QED BY <1>4, <1>5, <1>6, <1>7

LEMMA WorkerWakeups ==
  ASSUME TypeOK, Tasks, Wakeups, NEW w \in Workers, WorkerStep(w)
  PROVE  Wakeups'
<1> DEFINE c == worker[w].client
<1>1. CASE Acquire(w)
  <2>1. CASE \E e \in Offered(c) : Grant(w, e)
    <3>1. PICK e : Goto(w, "serving", c, e, "none")
      BY <2>1 DEF Grant
    <3> QED BY <1>1, <3>1, WorkMoves DEF Acquire, ActivePcs
  <2>2. CASE Goto(w, "polling", c, NoEnclave, "none")
    BY <1>1, <2>2, WorkMoves DEF Acquire, ActivePcs
  <2>3. CASE Goto(w, "answering", c, NoEnclave, "no enclave")
    <3>1. PICK r : r # "none" /\ Goto(w, "answering", c, NoEnclave, r)
      BY <2>3
    <3> QED BY <1>1, <3>1, WorkMoves DEF Acquire, ActivePcs
  <2> QED BY <1>1, <2>1, <2>2, <2>3 DEF Acquire
<1>2. CASE PollSucceeds(w)
  <2>1. PICK e : Goto(w, "serving", c, e, "none")
    BY <1>2 DEF PollSucceeds, Grant
  <2> QED BY <1>2, <2>1, WorkMoves DEF PollSucceeds, ActivePcs
<1>3. CASE PollTimesOut(w) \/ Release(w)
  <2>1. PICK r \in {"timeout", "ok", "error"} : Goto(w, "answering", c, NoEnclave, r)
    BY <1>3 DEF PollTimesOut, Release
  <2> QED BY <1>3, <2>1, WorkMoves DEF PollTimesOut, Release, ActivePcs
<1> QED BY <1>1, <1>2, <1>3, TakeWakeups, RestWakeups, AnswerWakeups DEF WorkerStep

(* A notification that finds nobody asleep is not needed: every worker is  *)
(* awake or at work, because none has left while there are calls.          *)
LEMMA NotifyWakeups ==
  ASSUME TypeOK, Wakeups, NEW c \in Clients, Notify(c)
  PROVE  Wakeups'
<1> USE DEF Wakeups, main, pool
<1>1. /\ UNCHANGED <<task_queue, server, joined, stop_flag>>
      /\ call[c].pc = "notify" /\ call'[c].pc = "waiting" /\ call'[c].result = call[c].result
      /\ \A d \in Clients \ {c} : call'[d] = call[d]
  BY DEF Notify, TypeOK
<1>2. PICK S \in SUBSET Asleep : worker' = Wake(S) /\ (Asleep # {} => S # {})
  <2>1. CASE Asleep = {}
    <3>1. Wake({}) = worker
      BY DEF Wake, TypeOK
    <3> QED BY <2>1, <3>1 DEF Notify
  <2>2. CASE Asleep # {}
    BY <2>2 DEF Notify
  <2> QED BY <2>1, <2>2
<1>3. \A w \in Workers : WorkerMoves(w) /\ (w \in S => worker'[w].pc = "awake")
  BY <1>2, WakeMoves
<1>4. Ending'
  BY <1>1, <1>3, CallerEnding DEF Ending
<1>5. TaskHeld' /\ Answers'
  BY <1>1, <1>3, CallerHeld DEF Pending
<1>6. \E w \in Workers : worker'[w].pc \notin {"asleep", "exited"}
  <2>1. CASE S # {}
    BY <1>3, <2>1 DEF Asleep
  <2>2. CASE Asleep = {}
    <3>1. PICK w \in Workers : TRUE
      BY EnclavePoolAssumption
    <3>2. worker[w].pc # "exited"
      BY <1>1, CallKeepsWorkers
    <3>3. worker[w].pc # "asleep"
      BY <2>2 DEF Asleep
    <3> QED BY <1>3, <3>2, <3>3 DEF WorkerMoves
  <2> QED BY <1>2, <2>1, <2>2
<1>7. Attended'
  BY <1>6 DEF Attended
<1>8. NoneLeftAsleep'
  BY <1>1, <1>3 DEF NoneLeftAsleep, Asleep, WorkerMoves
<1> QED BY <1>4, <1>5, <1>7, <1>8

LEMMA StepWakeups ==
  Exclusive /\ Tasks /\ Wakeups /\ [Next]_vars => Wakeups'
<1> SUFFICES ASSUME Exclusive, Tasks, Wakeups, [Next]_vars PROVE Wakeups'
  OBVIOUS
<1> USE DEF threads, pool, main
<1>t. TypeOK
  BY DEF Exclusive
<1>e. Ending /\ Answers /\ TaskHeld /\ Attended /\ NoneLeftAsleep
  BY DEF Wakeups
<1>1. CASE Register
  <2>1. next_client \in Clients \ joined
    BY <1>1, <1>t, <1>e DEF Register, Clients, TypeOK, Ending
  <2> QED BY <1>1, <1>t, <2>1, SubmitWakeups DEF Register
<1>2. CASE Insert
  <2>1. next_client - 1 \in Clients \ joined
    BY <1>2, <1>t, <1>e DEF Insert, Clients, TypeOK, Ending
  <2> QED BY <1>2, <1>t, <2>1, SubmitWakeups DEF Insert
<1>3. ASSUME NEW c \in Clients, Select(c)
      PROVE  Wakeups'
  BY <1>3, <1>t, SubmitWakeups DEF Select
<1>4. CASE StartThreads \/ Destroy \/ Stop \/ \E c \in Clients : Join(c) \/ Flush(c)
  <2>1. UNCHANGED <<task_queue, call, worker>> /\ (server' = "gone" => server = "gone")
    BY <1>4 DEF StartThreads, Destroy, Stop, Join, Flush
  <2>2. TaskHeld' /\ Answers' /\ Attended' /\ NoneLeftAsleep'
    BY <1>e, <2>1 DEF TaskHeld, Held, Pending, WorksFor, Answers, Attended,
                      NoneLeftAsleep, Asleep
  <2>3. Ending'
    <3>1. CASE StartThreads
      BY <1>e, <3>1 DEF StartThreads, Ending
    <3>2. CASE Destroy
      BY <1>e, <3>2 DEF Destroy, Ending
    <3>3. CASE Stop
      BY <1>e, <3>3 DEF Stop, Ending
    <3>4. ASSUME NEW c \in Clients, Join(c) \/ Flush(c) PROVE Ending'
      BY <1>e, <3>4 DEF Join, Flush, Ending
    <3> QED BY <1>4, <3>1, <3>2, <3>3, <3>4
  <2> QED BY <2>2, <2>3 DEF Wakeups
<1>5. ASSUME NEW c \in Clients, Return(c)
      PROVE  Wakeups'
  <2>1. /\ call'[c].pc = "idle" /\ call[c].pc = "waiting"
        /\ \A d \in Clients \ {c} : call'[d] = call[d]
        /\ UNCHANGED <<task_queue, worker, server, joined, stop_flag>>
    BY <1>5, <1>t DEF Return, NoCall, TypeOK
  <2>2. \A w \in Workers : WorkerMoves(w)
    BY <2>1 DEF WorkerMoves
  <2>3. Ending'
    BY <1>t, <1>e, <2>1, <2>2, CallerEnding DEF Ending
  <2>4. TaskHeld' /\ Answers'
    BY <1>t, <1>e, <2>1, <2>2, CallerHeld DEF Pending
  <2>5. Attended' /\ NoneLeftAsleep'
    BY <1>e, <2>1 DEF Attended, NoneLeftAsleep, Asleep
  <2> QED BY <2>3, <2>4, <2>5 DEF Wakeups
<1>6. ASSUME NEW c \in Clients, Notify(c)
      PROVE  Wakeups'
  BY <1>6, <1>t, NotifyWakeups
<1>7. CASE NotifyAll
  <2>1. \A w \in Workers : WorkerMoves(w) /\ (w \in Asleep => worker'[w].pc = "awake")
    BY <1>7, <1>t, WakeMoves DEF NotifyAll
  <2>2. UNCHANGED <<task_queue, call, joined, stop_flag>>
    BY <1>7 DEF NotifyAll
  <2>3. TaskHeld' /\ Answers'
    BY <1>t, <1>e, <2>1, <2>2, CallerHeld DEF Pending
  <2>4. Attended' /\ NoneLeftAsleep'
    BY <1>e, <2>1, <2>2 DEF Attended, NoneLeftAsleep, Asleep, WorkerMoves
  <2>5. Ending'
    BY <1>7, <1>e, <2>1, <2>2 DEF NotifyAll, Ending, WorkerMoves
  <2> QED BY <2>3, <2>4, <2>5 DEF Wakeups
<1>8. ASSUME NEW w \in Workers, WorkerStep(w)
      PROVE  Wakeups'
  BY <1>8, <1>t, WorkerWakeups
<1>9. CASE UNCHANGED vars
  BY <1>9, <1>e DEF vars, Wakeups, Ending, Answers, TaskHeld, Held, Pending, WorksFor,
                    Attended, NoneLeftAsleep, Asleep
<1> QED BY <1>1, <1>2, <1>3, <1>4, <1>5, <1>6, <1>7, <1>8, <1>9 DEF Next

THEOREM AlwaysWakeups == Spec => [](Exclusive /\ Tasks /\ Wakeups)
<1>1. Init => Exclusive /\ Tasks /\ Wakeups
  BY InitExclusive, InitTasks, InitWakeups
<1>2. Exclusive /\ Tasks /\ Wakeups /\ [Next]_vars => (Exclusive /\ Tasks /\ Wakeups)'
  BY StepExclusive, StepTasks, StepWakeups
<1> QED BY <1>1, <1>2, PTL DEF Spec

(* No task and no wakeup is lost, however the pushes, the notifications,   *)
(* the looks at the queue and the destructor interleave: this is what      *)
(* every call's return and the joins of ~Server rest on.                   *)
THEOREM NoWakeupEverLost == Spec => []NoLostWakeup
<1>1. Wakeups => NoLostWakeup
  BY NoLostWakeupParts DEF Wakeups
<1> QED BY <1>1, AlwaysWakeups, PTL

(* shutdown_flush skips a client whose enclave cannot be acquired.  When   *)
(* ~Server is done with it, it has skipped nobody: the threads have been   *)
(* joined, so that no request is inside an enclave, and every client is    *)
(* bound to one.                                                           *)
EverybodyFlushed == server \in {"stopping", "gone"} => flushed = Clients

LEMMA StepFlushed ==
  Exclusive /\ Tasks /\ Orderly /\ Wakeups /\ EverybodyFlushed /\ [Next]_vars
    => EverybodyFlushed'
<1> SUFFICES ASSUME Exclusive, Tasks, Orderly, Wakeups, EverybodyFlushed, [Next]_vars
             PROVE  EverybodyFlushed'
  OBVIOUS
<1> USE DEF threads, pool, main, EverybodyFlushed
<1>1. CASE Stop
  <2>1. \A c \in Clients : call[c].pc = "idle"
    BY <1>1 DEF Stop, Wakeups, Ending
  <2>2. \A w \in Workers : worker[w].pc # "serving"
    BY <2>1 DEF Tasks, WorkersPending, Pending, ActivePcs
  <2>3. \A e \in Enclaves : Serving(e) = {}
    BY <2>2 DEF Serving
  <2>4. Idle = Enclaves
    <3>1. \A e \in Enclaves : ~busy[e]
      BY <2>3, Zenon DEF Exclusive, BusyIffServing
    <3> QED BY <3>1, Zenon DEF Idle
  <2>5. ASSUME NEW c \in Clients PROVE c \in flushed
    <3>1. next_client = NumClients + 1
      BY <1>1 DEF Stop, Orderly, AllRegistered, Registering
    <3>2. client_enclave_map[c] \in Enclaves
      BY <3>1, <1>1, EnclavePoolAssumption
        DEF Stop, Orderly, Bound, Registering, Clients, Exclusive, TypeOK
    <3>3. client_enclave_map[c] # NoEnclave
      BY <3>2 DEF Enclaves, NoEnclave
    <3>4. Offered(c) # {}
      BY <2>4, <3>2, <3>3 DEF Offered
    <3> QED BY <1>1, <3>4 DEF Stop
  <2> QED BY <1>1, <2>5 DEF Stop, Exclusive, TypeOK
<1>2. CASE NotifyAll \/ UNCHANGED vars
  BY <1>2 DEF NotifyAll, vars
<1>3. CASE Register \/ Insert \/ StartThreads \/ Destroy
  BY <1>3 DEF Register, Insert, StartThreads, Destroy
<1>4. ASSUME NEW c \in Clients, Select(c) \/ Join(c) \/ Notify(c) \/ Return(c) \/ Flush(c)
      PROVE  EverybodyFlushed'
  BY <1>4 DEF Select, Join, Notify, Return, Flush
<1>5. ASSUME NEW w \in Workers, WorkerStep(w)
      PROVE  EverybodyFlushed'
  BY <1>5 DEF WorkerStep, Take, Sleep, Exit, Acquire, PollSucceeds, PollTimesOut, Release,
              Answer
<1> QED BY <1>1, <1>2, <1>3, <1>4, <1>5 DEF Next

THEOREM DestructionFlushesAll == Spec => []EverybodyFlushed
<1>1. Init => EverybodyFlushed
  BY DEF Init, EverybodyFlushed
<1> QED BY <1>1, AlwaysOrderly, AlwaysWakeups, StepFlushed, PTL DEF Spec
=============================================================================
