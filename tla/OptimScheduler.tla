--------------------------- MODULE OptimScheduler ---------------------------
(***************************************************************************)
(* What starts a round of OptimCache (core.c), from control_plane_setup    *)
(* on: the server threads count requests, the one of the master core turns *)
(* every nb_reqs_thresh of them into a task and signals, the OptimCache    *)
(* threads wait for tasks on a condition variable.  Every core has one     *)
(* thread of each kind.                                                    *)
(***************************************************************************)
EXTENDS Integers, FiniteSets

CONSTANTS MaxCpus,       \* bound: cores a configuration may name
          Thresh,        \* nb_reqs_thresh
          Modulus,       \* 2^32: both counters are 32 bits wide
          SpuriousWakeups,  \* whether a wait may end without a signal
          MaxRequests,   \* bound: requests
          MaxRounds      \* bound: rounds

ASSUME MaxCpusAssumption == MaxCpus \in Nat \ {0}
ASSUME ThreshAssumption == Thresh \in Nat \ {0}
ASSUME SpuriousAssumption == SpuriousWakeups \in BOOLEAN
ASSUME BoundsAssumption ==
  Modulus \in Nat /\ MaxRequests \in Nat /\ MaxRounds \in Nat /\ MaxRequests < Modulus

Cores  == 0 .. MaxCpus - 1
Master == 0                \* MASTER_CORE_INDEX
NoCore == -1

VARIABLES
  ncpus,        \* CP_CONFIG.ncpus
  main,         \* the thread that calls control_plane_setup and heats
  masterReady,  \* mtcp_master_thread_ready
  launched,     \* OptimCache threads launched
  pool,         \* whether "Offload-pktmbuf-pool" exists (external)
  published,    \* the cores whose g_oc_ctx is set
  isReady,      \* is_ready
  halted,       \* whether the process has exited
  nbTot,        \* nb_tot_requests
  tasks,        \* g_nb_optim_cache_tasks
  server,       \* of every core: the label of its server thread
  optim,        \* of every core: the label of its OptimCache thread
  holder,       \* mutex_optim_cache
  counted,      \* history: requests
  signals,      \* history: tasks added
  rounds,       \* history: rounds finished
  idleWakeup    \* history: whether a wait has ended when there was no task

history == <<counted, signals, rounds, idleWakeup>>
started == <<ncpus, main, masterReady, launched>>
setup   == <<started, pool, published, isReady, halted>>
vars    == <<setup, nbTot, tasks, server, optim, holder, history>>

Active == 0 .. ncpus - 1

Init ==
  /\ ncpus \in 1 .. MaxCpus
  /\ main = "setup" /\ masterReady = FALSE /\ launched = 0
  /\ pool = FALSE /\ published = {} /\ isReady = FALSE /\ halted = FALSE
  /\ nbTot = 0
  /\ tasks = 0
  /\ server = [c \in Cores |-> "idle"]
  /\ optim = [c \in Cores |-> "create"]
  /\ holder = NoCore
  /\ counted = 0
  /\ signals = 0
  /\ rounds = 0
  /\ idleWakeup = FALSE

ServerAt(c, from, to) == server[c] = from /\ server' = [server EXCEPT ![c] = to]
OptimAt(c, from, to) == optim[c] = from /\ optim' = [optim EXCEPT ![c] = to]

-----------------------------------------------------------------------------
(* Start-up.                                                               *)

rest == <<nbTot, tasks, server, holder, history>>

(* control_plane_setup launches the threads one after the other ...        *)
Launch ==
  /\ main = "setup"
  /\ launched < ncpus
  /\ launched' = launched + 1
  /\ UNCHANGED <<ncpus, main, masterReady, pool, published, isReady, halted, optim, rest>>

(* ... and returns when one of them has set is_ready.                      *)
SetupReturns ==
  /\ main = "setup"
  /\ launched = ncpus
  /\ isReady
  /\ main' = "up"
  /\ UNCHANGED <<ncpus, masterReady, launched, pool, published, isReady, halted, optim, rest>>

(* control_plane_mtcp_master_thread_ready, which the server's network      *)
(* stack may call at any time, or never.                                   *)
MasterThreadReady ==
  /\ ~masterReady
  /\ masterReady' = TRUE
  /\ UNCHANGED <<ncpus, main, launched, pool, published, isReady, halted, optim, rest>>

(* control_plane_heat_dataplane sleeps until that was called; the heating  *)
(* uses g_oc_ctx.                                                          *)
StartHeating ==
  /\ main = "up"
  /\ masterReady
  /\ main' = "heating"
  /\ UNCHANGED <<ncpus, masterReady, launched, pool, published, isReady, halted, optim, rest>>

Main == Launch \/ SetupReturns \/ StartHeating

\* Mutant: a thread says it is ready as soon as it has its context.
CreateContextAnnounces(c) ==
  /\ c < launched
  /\ optim[c] = "create"
  /\ \/ /\ pool
        /\ halted' = TRUE
        /\ UNCHANGED <<optim, pool, isReady>>
     \/ /\ ~pool
        /\ pool' = TRUE
        /\ isReady' = TRUE
        /\ OptimAt(c, "create", "publish")
        /\ UNCHANGED halted
  /\ UNCHANGED <<started, published, rest>>

(* CreateOptimCachePrivateContext creates a packet pool whose name is the  *)
(* same for every core; the second one fails and the process exits.        *)
CreateContext(c) ==
  /\ c < launched
  /\ optim[c] = "create"
  /\ \/ /\ pool
        /\ halted' = TRUE
        /\ UNCHANGED <<optim, pool>>
     \/ /\ ~pool
        /\ pool' = TRUE
        /\ OptimAt(c, "create", "publish")
        /\ UNCHANGED halted
  /\ UNCHANGED <<started, published, isReady, rest>>

Publish(c) ==
  /\ OptimAt(c, "publish", "announce")
  /\ published' = published \cup {c}
  /\ UNCHANGED <<started, pool, isReady, halted, rest>>

\* Mutant: a thread that does not announce itself.
AnnounceNothing(c) ==
  /\ OptimAt(c, "announce", "idle")
  /\ UNCHANGED <<setup, rest>>

Announce(c) ==
  /\ OptimAt(c, "announce", "idle")
  /\ isReady' = TRUE
  /\ UNCHANGED <<started, pool, published, halted, rest>>

-----------------------------------------------------------------------------
(* The server threads.                                                     *)

\* Mutant: every core's server compares the counter with the threshold.
TriggersAnywhere(c, total) == total > Thresh

(* Whether the request that made the counter total starts a round.         *)
Triggers(c, total) == c = Master /\ total > Thresh

(* control_plane_get_obj_hv: a request for an object that is on the NIC,   *)
(* where HeatDataplane puts it.                                            *)
CountRequest(c) ==
  /\ main = "heating"
  /\ counted < MaxRequests
  /\ LET total == (nbTot + 1) % Modulus
     IN /\ nbTot' = total
        /\ ServerAt(c, "idle", IF Triggers(c, total) THEN "due" ELSE "idle")
  /\ counted' = counted + 1
  /\ UNCHANGED <<setup, tasks, optim, holder, signals, rounds, idleWakeup>>

\* Mutant: only the first task is signalled.
AddTaskSignalFirst(c) ==
  /\ tasks' = (tasks + 1) % Modulus
  /\ ServerAt(c, "due", IF tasks = 0 THEN "signal" ELSE "reduce")
  /\ signals' = signals + 1
  /\ UNCHANGED <<setup, nbTot, optim, holder, counted, rounds, idleWakeup>>

(* SignalToOptimCache adds the task ...                                    *)
AddTask(c) ==
  /\ tasks' = (tasks + 1) % Modulus
  /\ ServerAt(c, "due", "signal")
  /\ signals' = signals + 1
  /\ UNCHANGED <<setup, nbTot, optim, holder, counted, rounds, idleWakeup>>

Waiting == {c \in Cores : optim[c] = "waiting"}

(* A wait ends; the thread needs the mutex before it goes on.              *)
Wake(c) ==
  /\ OptimAt(c, "waiting", "woken")
  /\ idleWakeup' = (idleWakeup \/ tasks = 0)

(* ... and signals without the mutex: a signal nobody waits for is gone.   *)
Signal(c) ==
  /\ ServerAt(c, "signal", "reduce")
  /\ \/ Waiting = {} /\ UNCHANGED <<optim, idleWakeup>>
     \/ \E w \in Waiting : Wake(w)
  /\ UNCHANGED <<setup, nbTot, tasks, holder, counted, signals, rounds>>

Reduce(c) ==
  /\ ServerAt(c, "reduce", "idle")
  /\ nbTot' = (nbTot - Thresh) % Modulus
  /\ UNCHANGED <<setup, tasks, optim, holder, history>>

Server(c) == AddTask(c) \/ Signal(c) \/ Reduce(c)

-----------------------------------------------------------------------------
(* The OptimCache threads.                                                 *)

Lock(c) ==
  /\ holder = NoCore
  /\ holder' = c
  /\ OptimAt(c, "idle", "locked")
  /\ UNCHANGED <<setup, nbTot, tasks, server, history>>

\* Mutant: a round starts without looking at the counter.
ReadTasksIgnored(c) ==
  /\ OptimAt(c, "locked", "round")
  /\ UNCHANGED <<setup, nbTot, tasks, server, holder, history>>

(* nb_optim_cache_tasks is unsigned: "<= 0" is "= 0".                      *)
ReadTasks(c) ==
  /\ OptimAt(c, "locked", IF tasks = 0 THEN "empty" ELSE "round")
  /\ UNCHANGED <<setup, nbTot, tasks, server, holder, history>>

(* pthread_cond_wait: the thread waits and gives the mutex up at once ...  *)
Wait(c) ==
  /\ OptimAt(c, "empty", "waiting")
  /\ holder' = NoCore
  /\ UNCHANGED <<setup, nbTot, tasks, server, history>>

(* ... it may wake up without a signal ...                                 *)
SpuriousWakeup(c) ==
  /\ SpuriousWakeups
  /\ Wake(c)
  /\ UNCHANGED <<setup, nbTot, tasks, server, holder, counted, signals, rounds>>

(* ... and goes on with the round: nothing reads the counter again.        *)
Relock(c) ==
  /\ holder = NoCore
  /\ holder' = c
  /\ OptimAt(c, "woken", "round")
  /\ UNCHANGED <<setup, nbTot, tasks, server, history>>

\* Mutant: a counter without the width and sign it has.
FinishRoundSigned(c) ==
  /\ rounds < MaxRounds
  /\ OptimAt(c, "round", "done")
  /\ tasks' = tasks - 1
  /\ rounds' = rounds + 1
  /\ UNCHANGED <<setup, nbTot, server, holder, counted, signals, idleWakeup>>

(* The round itself, which keeps the mutex, then one task less.            *)
FinishRound(c) ==
  /\ rounds < MaxRounds
  /\ OptimAt(c, "round", "done")
  /\ tasks' = (tasks - 1) % Modulus
  /\ rounds' = rounds + 1
  /\ UNCHANGED <<setup, nbTot, server, holder, counted, signals, idleWakeup>>

Unlock(c) ==
  /\ OptimAt(c, "done", "idle")
  /\ holder' = NoCore
  /\ UNCHANGED <<setup, nbTot, tasks, server, history>>

Optim(c) == \/ CreateContext(c) \/ Publish(c) \/ Announce(c)
            \/ Lock(c) \/ ReadTasks(c) \/ Wait(c)
            \/ Relock(c) \/ FinishRound(c) \/ Unlock(c)

Next == /\ ~halted
        /\ \/ Main \/ MasterThreadReady
           \/ \E c \in Active : CountRequest(c) \/ Server(c) \/ Optim(c) \/ SpuriousWakeup(c)

(* Threads are scheduled; requests, spurious wake-ups and the call of      *)
(* control_plane_mtcp_master_thread_ready need not come.                   *)
Fairness == /\ WF_vars(~halted /\ Main)
            /\ \A c \in Cores : /\ WF_vars(~halted /\ c \in Active /\ Server(c))
                                /\ WF_vars(~halted /\ c \in Active /\ Optim(c))

Spec == Init /\ [][Next]_vars
FairSpec == Spec /\ Fairness

-----------------------------------------------------------------------------
TypeOK ==
  /\ ncpus \in 1 .. MaxCpus
  /\ nbTot \in 0 .. Modulus - 1
  /\ tasks \in 0 .. Modulus - 1
  /\ server \in [Cores -> {"idle", "due", "signal", "reduce"}]
  /\ main \in {"setup", "up", "heating"} /\ masterReady \in BOOLEAN
  /\ launched \in 0 .. ncpus
  /\ pool \in BOOLEAN /\ isReady \in BOOLEAN /\ halted \in BOOLEAN
  /\ published \subseteq Cores
  /\ optim \in [Cores -> {"create", "publish", "announce", "idle", "locked",
                        "empty", "waiting", "woken", "round", "done"}]
  /\ holder \in Cores \cup {NoCore}
  /\ counted \in 0 .. MaxRequests
  /\ signals \in Nat
  /\ rounds \in 0 .. MaxRounds
  /\ idleWakeup \in BOOLEAN

(* The servers that have added a task whose requests are still counted.    *)
Unreduced == {c \in Cores : server[c] \in {"signal", "reduce"}}

(* Every request counts towards exactly one round, although the counter is *)
(* compared in one step and reduced in another while other cores add to    *)
(* it: it never drops below zero, which would be 2^32 requests.            *)
RequestsConserved == counted = nbTot + Thresh * (signals - Cardinality(Unreduced))

(* A round runs without a task only after a wait has ended when there was  *)
(* none: the test and the decrement agree, and what breaks them is the     *)
(* wait that is not repeated.                                              *)
RoundsDue == ~idleWakeup => rounds <= signals

(* A thread that waits when the master core finds a round due is not       *)
(* missed, whatever signals were lost before: some thread runs a round.    *)
WaiterRuns ==
  \A c \in Cores : (optim[c] = "waiting" /\ server[Master] \in {"due", "signal"})
                     ~> (halted \/ \E t \in Cores : optim[t] = "round")

(* With one core, a thread that heats finds the context of every core it   *)
(* may choose: is_ready is set after g_oc_ctx.                             *)
ContextsReady == ncpus = 1 /\ main = "heating" => Active \subseteq published

(* Once the network stack has said that it is up, heating starts unless    *)
(* the process exits: setup does not wait for an announcement that no      *)
(* thread is left to make.                                                 *)
HeatingStarts == masterReady ~> (main = "heating" \/ halted)

(* A round runs only when there is a task for it: the counter never wraps. *)
TasksNeverWrap == rounds <= signals

(* A task that is added is run in the end.                                 *)
TasksRun == tasks > 0 ~> tasks = 0

(* What ContextsReady says of one core, said of any number.                *)
AllContextsReady == main = "heating" => Active \subseteq published

(* core.h: MAX_NB_CPUS is 12.  A configuration may name several cores.     *)
NeverExits == ~halted
=============================================================================
