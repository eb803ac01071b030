------------------------ MODULE OptimSchedulerProofs ------------------------
(***************************************************************************)
(* Theorems of OptimScheduler for every number of cores, every threshold,  *)
(* and as many requests as the counter can hold.                           *)
(***************************************************************************)
EXTENDS OptimScheduler, TLAPS, FiniteSetTheorems

(* Arithmetic of the 32-bit counters: a sum that fits does not wrap. *)
LEMMA ModulusFacts ==
  /\ Modulus \in Nat \ {0}
  /\ \A x \in Int : x % Modulus \in 0 .. Modulus - 1
  /\ \A x \in 0 .. Modulus - 1 : x % Modulus = x
  BY BoundsAssumption

(* Multiples of the threshold: what SMT needs to know of Thresh * n. *)
LEMMA ThreshFacts ==
  \A n \in Int : /\ Thresh * n \in Int
                 /\ Thresh * (n + 1) = Thresh * n + Thresh
                 /\ n >= 0 => Thresh * n >= n
  BY ThreshAssumption

-----------------------------------------------------------------------------
(* Only the master core's server leaves its loop, and only the threads of  *)
(* cores the configuration names ever run.                                 *)
RolesInv ==
  /\ \A c \in Cores : server[c] # "idle" => c = Master
  /\ \A c \in Cores \ Active : optim[c] = "create"

(* The packet pool has one name: one thread at most is past its creation.  *)
SoloInv ==
  /\ ~pool => \A c \in Cores : optim[c] = "create"
  /\ \A c, d \in Cores : optim[c] # "create" /\ optim[d] # "create" => c = d

(* A thread publishes its context before it announces itself, and setup    *)
(* waits for an announcement.                                              *)
ReadyInv ==
  /\ \A c \in Cores : optim[c] \notin {"create", "publish"} => c \in published
  /\ isReady => \E c \in Active : c \in published
  /\ main # "setup" => isReady

(* 1 between the master's AddTask and its Reduce. *)
Open == IF server[Master] \in {"signal", "reduce"} THEN 1 ELSE 0

(* The requests of a task are subtracted later, and are there until then.  *)
CountInv ==
  /\ counted = nbTot + Thresh * (signals - Open)
  /\ Open <= signals
  /\ server[Master] # "idle" => nbTot > Thresh

(* As long as no wake-up was idle the counter of tasks is exact, and a     *)
(* thread that has a round to run has a task.                              *)
DueInv ==
  ~idleWakeup =>
    /\ tasks = signals - rounds
    /\ \A c \in Cores : optim[c] \in {"woken", "round"} => tasks >= 1

TypeInv  == TypeOK /\ RolesInv
StartInv == TypeInv /\ SoloInv /\ ReadyInv
TotalInv == TypeInv /\ CountInv
TaskInv  == TotalInv /\ SoloInv /\ DueInv

(* The master core is one of the cores. *)
LEMMA MasterCore == Master \in Cores
  BY MaxCpusAssumption DEF Master, Cores

(* The set of servers between AddTask and Reduce is the master or nothing. *)
LEMMA UnreducedOpen == ASSUME TypeInv PROVE Cardinality(Unreduced) = Open
<1>1. CASE server[Master] \in {"signal", "reduce"}
  <2>1. Unreduced = {Master}
    BY <1>1, MasterCore DEF Unreduced, TypeInv, RolesInv
  <2> QED BY <1>1, <2>1, FS_Singleton DEF Open
<1>2. CASE server[Master] \notin {"signal", "reduce"}
  <2>1. Unreduced = {}
    BY <1>2 DEF Unreduced, TypeInv, RolesInv
  <2> QED BY <1>2, <2>1, FS_EmptySet DEF Open
<1> QED BY <1>1, <1>2

(* The configuration's threads are threads. *)
LEMMA ActiveCores == ASSUME TypeOK PROVE Active \subseteq Cores
  BY MaxCpusAssumption DEF TypeOK, Active, Cores

-----------------------------------------------------------------------------
(* The invariant holds at the start. *)
LEMMA InitInv == Init => TaskInv /\ ReadyInv
<1> SUFFICES ASSUME Init PROVE TaskInv /\ ReadyInv
  OBVIOUS
<1>1. TypeOK
  <2>1. idleWakeup \in BOOLEAN
    BY Zenon DEF Init
  <2>2. masterReady \in BOOLEAN /\ pool \in BOOLEAN /\ isReady \in BOOLEAN /\ halted \in BOOLEAN
    BY Zenon DEF Init
  <2> QED BY <2>1, <2>2, ModulusFacts, BoundsAssumption DEF Init, TypeOK
<1>2. RolesInv
  BY DEF Init, RolesInv
<1>3. Open = 0
  BY MasterCore DEF Init, Open
<1>4. CountInv
  BY <1>3, MasterCore, ThreshFacts, ThreshAssumption DEF Init, CountInv
<1>5. DueInv /\ SoloInv /\ ReadyInv
  BY DEF Init, DueInv, SoloInv, ReadyInv
<1> QED BY <1>1, <1>2, <1>4, <1>5 DEF TaskInv, TotalInv, TypeInv

(* Every step keeps the types and the roles of the threads. *)
LEMMA StepTypes == ASSUME TypeInv, [Next]_vars PROVE TypeInv'
<1> USE DEF TypeInv, TypeOK, RolesInv, ServerAt, OptimAt, history, started, setup
<1>a. CASE Main
  BY <1>a DEF Main, Launch, SetupReturns, StartHeating, rest, Active
<1>b. CASE MasterThreadReady
  <2>1. masterReady' \in BOOLEAN
    BY <1>b, Zenon DEF MasterThreadReady
  <2> QED BY <1>b, <2>1 DEF MasterThreadReady, rest, Active
<1>1. ASSUME NEW c \in Cores, CountRequest(c) PROVE TypeInv'
  <2>1. server' \in [Cores -> {"idle", "due", "signal", "reduce"}]
    BY <1>1 DEF CountRequest
  <2>2. \A d \in Cores : server'[d] # "idle" => d = Master
    BY <1>1 DEF CountRequest, Triggers
  <2>3. nbTot' \in 0 .. Modulus - 1 /\ counted' \in 0 .. MaxRequests
    BY <1>1, ModulusFacts, BoundsAssumption DEF CountRequest
  <2> QED BY <1>1, <2>1, <2>2, <2>3 DEF CountRequest, Active
<1>2. ASSUME NEW c \in Cores, AddTask(c) PROVE TypeInv'
  BY <1>2, ModulusFacts DEF AddTask, Active
<1>3. ASSUME NEW c \in Cores, NEW w \in Active, Wake(w), UNCHANGED ncpus PROVE
        /\ optim' \in [Cores -> {"create", "publish", "announce", "idle", "locked",
                              "empty", "waiting", "woken", "round", "done"}]
        /\ \A d \in Cores \ Active' : optim'[d] = "create"
        /\ idleWakeup' \in BOOLEAN
  BY <1>3 DEF Wake, Active
<1>4. ASSUME NEW c \in Cores, Signal(c) PROVE TypeInv'
  <2>1. Waiting \subseteq Active
    BY DEF Waiting
  <2>2. CASE Waiting = {} /\ UNCHANGED <<optim, idleWakeup>>
    BY <1>4, <2>2 DEF Signal, Active
  <2>3. ASSUME NEW w \in Waiting, Wake(w) PROVE TypeInv'
    BY <1>3, <1>4, <2>1, <2>3 DEF Signal, Active
  <2> QED BY <1>4, <2>2, <2>3 DEF Signal
<1>5. ASSUME NEW c \in Cores, Reduce(c) PROVE TypeInv'
  BY <1>5, ModulusFacts, ThreshAssumption DEF Reduce, Active
<1>6. ASSUME NEW c \in Active, SpuriousWakeup(c) PROVE TypeInv'
  BY <1>3, <1>6, ActiveCores DEF SpuriousWakeup, Active
<1>7. ASSUME NEW c \in Active, Optim(c) PROVE TypeInv'
  <2>1. c \in Cores
    BY ActiveCores
  <2>a. CASE CreateContext(c)
    BY <2>1, <2>a DEF CreateContext, rest, Active
  <2>b. CASE Publish(c)
    BY <2>1, <2>b DEF Publish, rest, Active
  <2>c. CASE Announce(c)
    BY <2>1, <2>c DEF Announce, rest, Active
  <2>2. CASE Lock(c)
    BY <2>1, <2>2 DEF Lock, Active
  <2>3. CASE ReadTasks(c)
    BY <2>1, <2>3 DEF ReadTasks, Active
  <2>4. CASE Wait(c)
    BY <2>1, <2>4 DEF Wait, Active
  <2>5. CASE Relock(c)
    BY <2>1, <2>5 DEF Relock, Active
  <2>6. CASE FinishRound(c)
    BY <2>1, <2>6, ModulusFacts, BoundsAssumption DEF FinishRound, Active
  <2>7. CASE Unlock(c)
    BY <2>1, <2>7 DEF Unlock, Active
  <2> QED BY <1>7, <2>a, <2>b, <2>c, <2>2, <2>3, <2>4, <2>5, <2>6, <2>7 DEF Optim
<1>8. CASE UNCHANGED vars
  BY <1>8 DEF vars, Active
<1> QED BY <1>a, <1>b, <1>1, <1>2, <1>4, <1>5, <1>6, <1>7, <1>8, ActiveCores DEF Next, Server

(* The numbers of CountInv are integers. *)
LEMMA CountTypes ==
  ASSUME TypeOK
  PROVE  /\ nbTot \in Nat /\ counted \in Nat /\ signals \in Nat /\ rounds \in Nat /\ tasks \in Nat
         /\ nbTot < Modulus /\ tasks < Modulus /\ counted < Modulus
         /\ Open \in {0, 1}
  BY ModulusFacts, BoundsAssumption DEF TypeOK, Open

(* What is signalled was counted: neither counter is ever full. *)
LEMMA RoomLeft ==
  ASSUME TotalInv
  PROVE  /\ nbTot + (signals - Open) <= counted
         /\ server[Master] = "due" => signals + 1 < counted
<1>1. Thresh * (signals - Open) >= signals - Open
  BY CountTypes, ThreshFacts DEF TotalInv, TypeInv, CountInv
<1>2. Thresh * (signals - Open) \in Int
  BY CountTypes, ThreshFacts DEF TotalInv, TypeInv
<1>3. nbTot + (signals - Open) <= counted
  BY <1>1, <1>2, CountTypes DEF TotalInv, TypeInv, CountInv
<1>4. ASSUME server[Master] = "due" PROVE signals + 1 < counted
  <2>1. Open = 0 /\ nbTot > Thresh
    BY <1>4 DEF Open, TotalInv, CountInv
  <2> QED BY <1>3, <2>1, CountTypes, ThreshAssumption DEF TotalInv, TypeInv
<1> QED BY <1>3, <1>4

(* A step of another kind changes nothing CountInv is about. *)
LEMMA CountFrame ==
  ASSUME TotalInv, UNCHANGED <<nbTot, server, counted, signals>>
  PROVE  CountInv'
  BY DEF TotalInv, CountInv, Open

(* Every step keeps the requests in the books. *)
LEMMA StepCount == ASSUME TotalInv, [Next]_vars PROVE CountInv'
<1> USE DEF ServerAt
<1>0. CASE Main \/ MasterThreadReady
  BY <1>0, CountFrame DEF Main, Launch, SetupReturns, StartHeating, MasterThreadReady, rest, history
<1>1. ASSUME NEW c \in Cores, CountRequest(c) PROVE CountInv'
  <2>1. (nbTot + 1) % Modulus = nbTot + 1
    <3>1. nbTot + 1 \in 0 .. Modulus - 1
      BY <1>1, RoomLeft, CountTypes, BoundsAssumption
         DEF TotalInv, TypeInv, CountInv, CountRequest
    <3> QED BY <3>1, ModulusFacts
  <2>2. nbTot' = nbTot + 1 /\ counted' = counted + 1 /\ signals' = signals
    BY <1>1, <2>1 DEF CountRequest
  <2>3. Open' = Open
    BY <1>1, MasterCore DEF CountRequest, Open, TotalInv, TypeInv, TypeOK
  <2>4. server'[Master] # "idle" => nbTot' > Thresh
    BY <1>1, <2>1, <2>2, MasterCore, CountTypes, ThreshAssumption
       DEF CountRequest, Triggers, TotalInv, TypeInv, TypeOK, CountInv
  <2>5. Thresh * (signals - Open) \in Int
    BY CountTypes, ThreshFacts DEF TotalInv, TypeInv
  <2> QED BY <2>2, <2>3, <2>4, <2>5, CountTypes DEF TotalInv, TypeInv, CountInv
<1>2. ASSUME NEW c \in Cores, AddTask(c) PROVE CountInv'
  <2>1. c = Master
    BY <1>2 DEF AddTask, TotalInv, TypeInv, RolesInv
  <2>2. Open = 0 /\ Open' = 1
    BY <1>2, <2>1 DEF AddTask, Open, TotalInv, TypeInv, TypeOK
  <2>3. signals' = signals + 1 /\ signals' - Open' = signals - Open
    BY <1>2, <2>2, CountTypes DEF AddTask, TotalInv, TypeInv
  <2>4. nbTot > Thresh /\ UNCHANGED <<nbTot, counted>>
    BY <1>2, <2>1 DEF AddTask, TotalInv, CountInv
  <2> QED BY <2>2, <2>3, <2>4, CountTypes DEF TotalInv, TypeInv, CountInv
<1>3. ASSUME NEW c \in Cores, Signal(c) PROVE CountInv'
  <2>1. c = Master
    BY <1>3 DEF Signal, TotalInv, TypeInv, RolesInv
  <2>2. Open' = Open
    BY <1>3, <2>1 DEF Signal, Open, TotalInv, TypeInv, TypeOK
  <2> QED BY <1>3, <2>1, <2>2 DEF Signal, TotalInv, CountInv
<1>4. ASSUME NEW c \in Cores, Reduce(c) PROVE CountInv'
  <2>1. c = Master
    BY <1>4 DEF Reduce, TotalInv, TypeInv, RolesInv
  <2>2. nbTot > Thresh
    BY <1>4, <2>1 DEF Reduce, TotalInv, CountInv
  <2>3. nbTot' = nbTot - Thresh
    <3>1. nbTot - Thresh \in 0 .. Modulus - 1
      BY <2>2, CountTypes, ThreshAssumption, ModulusFacts DEF TotalInv, TypeInv
    <3> QED BY <1>4, <3>1, ModulusFacts DEF Reduce
  <2>4. Open = 1 /\ Open' = 0
    BY <1>4, <2>1, MasterCore DEF Reduce, Open, TotalInv, TypeInv, TypeOK
  <2>5. Thresh * (signals - 1 + 1) = Thresh * (signals - 1) + Thresh
    BY CountTypes, ThreshFacts DEF TotalInv, TypeInv
  <2>6. Thresh * (signals - 1) \in Int /\ signals - 1 + 1 = signals - 0
    BY CountTypes, ThreshFacts DEF TotalInv, TypeInv
  <2>7. server'[Master] = "idle"
    BY <1>4, <2>1, MasterCore DEF Reduce, TotalInv, TypeInv, TypeOK
  <2>8. counted' = nbTot' + Thresh * (signals' - Open')
    BY <1>4, <2>3, <2>4, <2>5, <2>6, CountTypes, ThreshAssumption
       DEF Reduce, history, TotalInv, TypeInv, CountInv
  <2> QED BY <1>4, <2>4, <2>7, <2>8, CountTypes
          DEF Reduce, history, TotalInv, TypeInv, CountInv
<1>5. ASSUME NEW c \in Active, Optim(c) \/ SpuriousWakeup(c) PROVE CountInv'
  BY <1>5, CountFrame
     DEF Optim, CreateContext, Publish, Announce, Lock, ReadTasks, Wait, Relock,
         FinishRound, Unlock, SpuriousWakeup, rest, history
<1>6. CASE UNCHANGED vars
  BY <1>6, CountFrame DEF vars, history
<1> QED BY <1>0, <1>1, <1>2, <1>3, <1>4, <1>5, <1>6, ActiveCores
        DEF Next, Server, TotalInv, TypeInv

(* Only CreateContext takes a thread past the creation of its context. *)
LEMMA CreatedFrame ==
  ASSUME TypeInv, [Next]_vars,
         ~ \E c \in Active : CreateContext(c)
  PROVE  pool' = pool /\ \A d \in Cores : optim'[d] = "create" <=> optim[d] = "create"
<1> USE DEF TypeInv, TypeOK, ServerAt, OptimAt, started, setup
<1>1. CASE Main \/ MasterThreadReady
  BY <1>1 DEF Main, Launch, SetupReturns, StartHeating, MasterThreadReady, rest
<1>2. ASSUME NEW c \in Cores, CountRequest(c) \/ AddTask(c) \/ Reduce(c)
      PROVE  UNCHANGED <<pool, optim>>
  BY <1>2 DEF CountRequest, AddTask, Reduce
<1>3. ASSUME NEW c \in Cores, Signal(c) \/ SpuriousWakeup(c)
      PROVE  pool' = pool /\ \A d \in Cores : optim'[d] = "create" <=> optim[d] = "create"
  BY <1>3 DEF Signal, SpuriousWakeup, Wake, Waiting
<1>4. ASSUME NEW c \in Active, Optim(c)
      PROVE  pool' = pool /\ \A d \in Cores : optim'[d] = "create" <=> optim[d] = "create"
  BY <1>4 DEF Optim, Publish, Announce, Lock, ReadTasks, Wait, Relock, FinishRound, Unlock
<1>5. CASE UNCHANGED vars
  BY <1>5 DEF vars
<1> QED BY <1>1, <1>2, <1>3, <1>4, <1>5, ActiveCores DEF Next, Server

(* The second thread to create its context ends the process. *)
LEMMA StepSolo == ASSUME TypeInv, SoloInv, [Next]_vars PROVE SoloInv'
<1>1. ASSUME NEW c \in Active, CreateContext(c) PROVE SoloInv'
  <2>1. CASE pool
    BY <1>1, <2>1 DEF CreateContext, SoloInv
  <2>2. CASE ~pool
    <3>1. pool' /\ \A d \in Cores : d # c => optim'[d] = "create"
      BY <1>1, <2>2 DEF CreateContext, OptimAt, SoloInv, TypeInv, TypeOK
    <3> QED BY <3>1 DEF SoloInv
  <2> QED BY <2>1, <2>2
<1>2. ASSUME ~ \E c \in Active : CreateContext(c) PROVE SoloInv'
  BY <1>2, CreatedFrame DEF SoloInv
<1> QED BY <1>1, <1>2

(* Types, roles and books hold together, whatever the OptimCache threads do. *)
LEMMA TotalInvariant == Spec => []TotalInv
<1>1. Init => TotalInv
  BY InitInv DEF TaskInv
<1>2. TotalInv /\ [Next]_vars => TotalInv'
  BY StepTypes, StepCount DEF TotalInv
<1> QED BY <1>1, <1>2, PTL DEF Spec

(* Every variable keeps its type: the 32-bit counters, the labels of both  *)
(* kinds of thread, the owner of the mutex.                                *)
THEOREM SchedulerTypes == Spec => []TypeOK
<1>1. TotalInv => TypeOK
  BY DEF TotalInv, TypeInv
<1> QED BY <1>1, TotalInvariant, PTL

(* Every request counts towards exactly one round, for any number of cores *)
(* and any threshold: control_plane_get_obj_hv compares and reduces the    *)
(* counter in different steps, but only the master core's thread does.     *)
THEOREM RequestsCounted == Spec => []RequestsConserved
<1>1. TotalInv => RequestsConserved
  BY UnreducedOpen DEF TotalInv, CountInv, RequestsConserved
<1> QED BY <1>1, TotalInvariant, PTL

-----------------------------------------------------------------------------
(* A step that touches neither tasks nor a thread's label keeps DueInv. *)
LEMMA DueFrame ==
  ASSUME TaskInv, UNCHANGED <<tasks, optim, signals, rounds, idleWakeup>>
  PROVE  DueInv'
  BY DEF TaskInv, DueInv

(* A thread that is woken while there is a task has one. *)
LEMMA WakeDue ==
  ASSUME TaskInv, NEW w \in Cores, Wake(w), UNCHANGED <<tasks, signals, rounds>>
  PROVE  DueInv'
<1> SUFFICES ASSUME ~idleWakeup'
             PROVE  tasks' = signals' - rounds' /\ tasks' >= 1
  BY DEF DueInv
<1>1. ~idleWakeup /\ tasks # 0
  BY DEF Wake
<1> QED BY <1>1, CountTypes DEF TaskInv, DueInv, TotalInv, TypeInv

(* Every step keeps the tasks exact as long as no wake-up was idle. *)
LEMMA StepDue == ASSUME TaskInv, [Next]_vars PROVE DueInv'
<1> USE DEF ServerAt, OptimAt
<1>0. CASE Main \/ MasterThreadReady
  BY <1>0, DueFrame DEF Main, Launch, SetupReturns, StartHeating, MasterThreadReady, rest, history
<1>1. ASSUME NEW c \in Cores, CountRequest(c) \/ Reduce(c) PROVE DueInv'
  BY <1>1, DueFrame DEF CountRequest, Reduce, history
<1>2. ASSUME NEW c \in Cores, AddTask(c) PROVE DueInv'
  <2>1. c = Master
    BY <1>2 DEF AddTask, TaskInv, TotalInv, TypeInv, RolesInv
  <2>2. signals + 1 < counted
    BY <1>2, <2>1, RoomLeft DEF AddTask, TaskInv
  <2>3. ASSUME tasks = signals - rounds PROVE tasks' = tasks + 1
    <3>1. tasks + 1 \in 0 .. Modulus - 1
      BY <2>2, <2>3, CountTypes, ModulusFacts DEF TaskInv, TotalInv, TypeInv
    <3> QED BY <1>2, <3>1, ModulusFacts DEF AddTask
  <2> QED BY <1>2, <2>3, CountTypes DEF AddTask, TaskInv, TotalInv, TypeInv, DueInv
<1>3. ASSUME NEW c \in Cores, Signal(c) PROVE DueInv'
  BY <1>3, DueFrame, WakeDue DEF Signal, Waiting
<1>4. ASSUME NEW c \in Cores, SpuriousWakeup(c) PROVE DueInv'
  BY <1>4, WakeDue DEF SpuriousWakeup
<1>5. ASSUME NEW c \in Active, Optim(c) PROVE DueInv'
  <2> SUFFICES ASSUME ~idleWakeup'
               PROVE  /\ tasks' = signals' - rounds'
                      /\ \A d \in Cores : optim'[d] \in {"woken", "round"} => tasks' >= 1
    BY DEF DueInv
  <2> DEFINE Due(d) == optim[d] \in {"woken", "round"}
  <2>1. c \in Cores /\ optim \in [Cores -> {"create", "publish", "announce", "idle", "locked",
                                        "empty", "waiting", "woken", "round", "done"}]
    BY ActiveCores DEF TaskInv, TotalInv, TypeInv, TypeOK
  <2>2. ~idleWakeup
    BY <1>5 DEF Optim, CreateContext, Publish, Announce, Lock, ReadTasks, Wait, Relock,
                FinishRound, Unlock, rest, history
  <2>3. tasks = signals - rounds /\ \A d \in Cores : Due(d) => tasks >= 1
    BY <2>2 DEF TaskInv, DueInv
  <2>4. CASE CreateContext(c) \/ Publish(c) \/ Announce(c) \/ Lock(c) \/ Wait(c) \/ Unlock(c)
    <3>1. UNCHANGED <<tasks, signals, rounds>>
      BY <2>4 DEF CreateContext, Publish, Announce, Lock, Wait, Unlock, rest, history
    <3>2. \A d \in Cores : optim'[d] \in {"woken", "round"} => Due(d)
      BY <2>1, <2>4 DEF CreateContext, Publish, Announce, Lock, Wait, Unlock
    <3> QED BY <2>3, <3>1, <3>2
  <2>5. CASE ReadTasks(c)
    <3>1. UNCHANGED <<tasks, signals, rounds>>
      BY <2>5 DEF ReadTasks, history
    <3>2. \A d \in Cores : optim'[d] \in {"woken", "round"} => Due(d) \/ tasks # 0
      BY <2>1, <2>5 DEF ReadTasks
    <3> QED BY <2>3, <3>1, <3>2, CountTypes DEF TaskInv, TotalInv, TypeInv
  <2>6. CASE Relock(c)
    <3>1. UNCHANGED <<tasks, signals, rounds>>
      BY <2>6 DEF Relock, history
    <3>2. \A d \in Cores : optim'[d] \in {"woken", "round"} => Due(d)
      BY <2>1, <2>6 DEF Relock
    <3> QED BY <2>3, <3>1, <3>2
  <2>7. CASE FinishRound(c)
    <3>1. Due(c)
      BY <2>7 DEF FinishRound
    <3>2. tasks - 1 \in 0 .. Modulus - 1
      BY <2>1, <2>3, <3>1, CountTypes, ModulusFacts DEF TaskInv, TotalInv, TypeInv
    <3>3. tasks' = tasks - 1 /\ rounds' = rounds + 1 /\ signals' = signals
      BY <2>7, <3>2, ModulusFacts DEF FinishRound
    <3>4. ASSUME NEW d \in Cores PROVE optim'[d] \notin {"woken", "round"}
      <4>1. d # c => optim[d] = "create"
        BY <2>1, <3>1 DEF TaskInv, SoloInv
      <4> QED BY <2>1, <2>7, <4>1 DEF FinishRound
    <3> QED BY <2>3, <3>3, <3>4, CountTypes DEF TaskInv, TotalInv, TypeInv
  <2> QED BY <1>5, <2>4, <2>5, <2>6, <2>7 DEF Optim
<1>6. CASE UNCHANGED vars
  BY <1>6, DueFrame DEF vars, history
<1> QED BY <1>0, <1>1, <1>2, <1>3, <1>4, <1>5, <1>6, ActiveCores
        DEF Next, Server, TaskInv, TotalInv, TypeInv

(* No round runs without a task as long as no wait has ended when there    *)
(* was none: apart from the wait that is not repeated, the counter, its    *)
(* unsigned test and the decrement after the round are right, whatever     *)
(* signals are lost and however many cores there are.  With two threads    *)
(* past the creation of their contexts it would not be so: one finds the   *)
(* task the other is woken for.                                            *)
THEOREM RoundsHaveTasks == Spec => []RoundsDue
<1>1. Init => TaskInv
  BY InitInv
<1>2. TaskInv /\ [Next]_vars => TaskInv'
  BY StepTypes, StepCount, StepSolo, StepDue DEF TaskInv, TotalInv
<1>3. TaskInv => RoundsDue
  BY CountTypes DEF TaskInv, TotalInv, TypeInv, DueInv, RoundsDue
<1> QED BY <1>1, <1>2, <1>3, PTL DEF Spec

-----------------------------------------------------------------------------
(* Every step keeps the order of start-up. *)
LEMMA StepReady == ASSUME StartInv, [Next]_vars PROVE ReadyInv'
<1> USE DEF StartInv, TypeInv, TypeOK, ReadyInv, ServerAt, OptimAt, started, setup
<1>1. CASE Main \/ MasterThreadReady
  BY <1>1 DEF Main, Launch, SetupReturns, StartHeating, MasterThreadReady, rest, Active
<1>2. ASSUME NEW c \in Cores, CountRequest(c) \/ AddTask(c) \/ Reduce(c) PROVE ReadyInv'
  BY <1>2 DEF CountRequest, AddTask, Reduce, Active
<1>3. ASSUME NEW c \in Cores, Signal(c) \/ SpuriousWakeup(c) PROVE ReadyInv'
  BY <1>3 DEF Signal, SpuriousWakeup, Wake, Waiting, Active
<1>4. ASSUME NEW c \in Active, Optim(c) PROVE ReadyInv'
  <2>1. c \in Cores
    BY ActiveCores
  <2>2. CASE CreateContext(c) \/ Publish(c)
    BY <2>1, <2>2 DEF CreateContext, Publish, Active
  <2>3. CASE Announce(c)
    BY <2>1, <2>3 DEF Announce, Active
  <2>4. CASE Lock(c) \/ ReadTasks(c) \/ Wait(c) \/ Relock(c) \/ FinishRound(c) \/ Unlock(c)
    BY <2>1, <2>4 DEF Lock, ReadTasks, Wait, Relock, FinishRound, Unlock, Active
  <2> QED BY <1>4, <2>2, <2>3, <2>4 DEF Optim
<1>5. CASE UNCHANGED vars
  BY <1>5 DEF vars, Active
<1> QED BY <1>1, <1>2, <1>3, <1>4, <1>5, ActiveCores DEF Next, Server

(* With one core a thread that heats finds the context it uses: setup      *)
(* waits for an announcement, and the announcement follows the assignment. *)
THEOREM StartUpOrdered == Spec => []ContextsReady
<1>1. Init => StartInv
  BY InitInv DEF TaskInv, TotalInv, StartInv
<1>2. StartInv /\ [Next]_vars => StartInv'
  BY StepTypes, StepSolo, StepReady DEF StartInv
<1>3. StartInv => ContextsReady
  BY MaxCpusAssumption DEF StartInv, TypeInv, TypeOK, ReadyInv, ContextsReady, Active
<1> QED BY <1>1, <1>2, <1>3, PTL DEF Spec
=============================================================================
