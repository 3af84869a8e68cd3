------------------------------- MODULE Sched -------------------------------
(***************************************************************************)
(* Environments and the round-robin scheduler: kern/sched.c with the parts *)
(* of kern/user_environment.c, kern/init.c (panic), kern/syscall.c,        *)
(* kern/trap.c and kern/command_prompt.c that move environments between    *)
(* the lists.  Lists are sequences, head first (module Queues): enqueue    *)
(* inserts at the head and dequeue takes the last element.                 *)
(*                                                                         *)
(* The kernel is not preemptible: one entry into it (an interrupt, a       *)
(* system call, a command at the prompt) is one step.  While curenv is     *)
(* NULL the kernel is at its command prompt.                               *)
(***************************************************************************)
EXTENDS Queues

CONSTANTS
    Envs,        \* the slots of envs[]
    NoEnv,       \* a NULL struct Env pointer
    InitFree     \* env_free_list after env_init

ASSUME NoEnvAssumption == NoEnv \notin Envs
ASSUME InitFreeAssumption ==
    /\ InitFree \in Seq(Envs)
    /\ \A e \in Envs : \E i \in 1 .. Len(InitFree) : InitFree[i] = e
    /\ \A i, j \in 1 .. Len(InitFree) : InitFree[i] = InitFree[j] => i = j

VARIABLES
    free,        \* env_free_list
    newQ,        \* env_new_queue
    ready,       \* env_ready_queues[0]
    exitQ,       \* env_exit_queue
    curenv,      \* the running environment, or NoEnv
    status,      \* env_status of every slot
    schedStatus, \* scheduler_status
    intr,        \* FL_IF in the saved eflags: the clock can interrupt it
    down         \* the kernel followed a NULL curenv and cannot go on

queues == <<free, newQ, exitQ>>
vars == <<queues, ready, curenv, status, schedStatus, intr, down>>

Statuses == {"FREE", "READY", "RUNNABLE", "NEW", "EXIT", "UNKNOWN"}

Init ==
    /\ free = InitFree
    /\ newQ = << >> /\ ready = << >> /\ exitQ = << >>
    /\ curenv = NoEnv
    /\ status = [e \in Envs |-> "FREE"]
    /\ schedStatus = "STOPPED"
    /\ intr = [e \in Envs |-> FALSE]
    /\ down = FALSE

\* The processor goes to e.
env_run(e, st) ==
    /\ curenv' = e
    /\ status' = [st EXCEPT ![e] = "RUNNABLE"]

-----------------------------------------------------------------------------
(* fos_scheduler, called with ready queue r, current environment cur and   *)
(* statuses st: the current environment goes back to the queue, the one    *)
(* that has waited longest runs; with nobody left, the prompt opens.       *)

\* Mutant: the environment that is dispatched stays in the queue.
fos_schedulerKeep(r, cur, st) ==
    LET q == IF cur = NoEnv THEN r ELSE Push(cur, r)
        n == Len(q)
    IN \/ /\ n = 0
          /\ curenv' = NoEnv
          /\ ready' = q
          /\ status' = st
          /\ schedStatus' = "STOPPED"
       \/ /\ n > 0
          /\ curenv' = q[n]
          /\ ready' = q
          /\ status' = [st EXCEPT ![q[n]] = "RUNNABLE"]
          /\ schedStatus' = "STARTED"

\* Mutant: the current environment is inserted at the tail and the head is
\* dequeued.
fos_schedulerFirst(r, cur, st) ==
    LET q == IF cur = NoEnv THEN r ELSE Append(r, cur)
    IN \/ /\ q = << >>
          /\ curenv' = NoEnv
          /\ ready' = q
          /\ status' = st
          /\ schedStatus' = "STOPPED"
       \/ /\ q # << >>
          /\ curenv' = Head(q)
          /\ ready' = Tail(q)
          /\ status' = [st EXCEPT ![Head(q)] = "RUNNABLE"]
          /\ schedStatus' = "STARTED"

fos_scheduler(r, cur, st) ==
    LET q == IF cur = NoEnv THEN r ELSE Push(cur, r)
        n == Len(q)
    IN \/ /\ n = 0
          /\ curenv' = NoEnv
          /\ ready' = q
          /\ status' = st
          /\ schedStatus' = "STOPPED"
       \/ /\ n > 0
          /\ env_run(q[n], st)
          /\ ready' = RemoveAt(q, n)
          /\ schedStatus' = "STARTED"

\* sched_run_env and sched_run_all invoke the scheduler only when it is
\* stopped; a caller that runs already keeps the processor.
InvokeIfStopped(r, st) ==
    \/ schedStatus = "STOPPED" /\ fos_scheduler(r, curenv, st)
    \/ /\ schedStatus = "STARTED"
       /\ ready' = r
       /\ status' = st
       /\ UNCHANGED <<curenv, schedStatus>>

\* Mutant: the scheduler runs on with curenv still set after it has exited.
PanicKeepsCurenv(r, x, st) ==
    \/ /\ curenv # NoEnv
       /\ st[curenv] = "RUNNABLE"
       /\ exitQ' = Push(curenv, x)
       /\ fos_scheduler(r, curenv, [st EXCEPT ![curenv] = "EXIT"])
    \/ /\ curenv = NoEnv
       /\ exitQ' = x
       /\ fos_scheduler(r, curenv, st)

\* sched_exit_env of the running environment, which is in no queue.
env_exit(r, x, st) ==
    /\ exitQ' = Push(curenv, x)
    /\ fos_scheduler(r, NoEnv, [st EXCEPT ![curenv] = "EXIT"])

\* _panic: the running environment, if any, exits, and the next one runs.
Panic(r, x, st) ==
    \/ /\ curenv # NoEnv
       /\ st[curenv] = "RUNNABLE"
       /\ env_exit(r, x, st)
    \/ /\ curenv = NoEnv
       /\ exitQ' = x
       /\ fos_scheduler(r, curenv, st)

-----------------------------------------------------------------------------
(* Interrupts and system calls of the running environment. *)

\* Mutant: the current environment is dispatched again while it can run.
ClockInterruptSame ==
    /\ curenv # NoEnv
    /\ intr[curenv]
    /\ status' = [status EXCEPT ![curenv] = "RUNNABLE"]
    /\ UNCHANGED <<queues, ready, curenv, schedStatus, intr, down>>

ClockInterrupt ==
    /\ curenv # NoEnv
    /\ intr[curenv]
    /\ fos_scheduler(ready, curenv, status)
    /\ UNCHANGED <<queues, intr, down>>

SysEnvExit ==
    /\ curenv # NoEnv
    /\ env_exit(ready, exitQ, status)
    /\ UNCHANGED <<free, newQ, intr, down>>

\* A panic in a handler that runs on behalf of curenv.
EnvPanics ==
    /\ curenv # NoEnv
    /\ Panic(ready, exitQ, status)
    /\ UNCHANGED <<free, newQ, intr, down>>

SysDisableInterrupt ==
    /\ curenv # NoEnv
    /\ intr' = [intr EXCEPT ![curenv] = FALSE]
    /\ UNCHANGED <<queues, ready, curenv, status, schedStatus, down>>

SysEnableInterrupt ==
    /\ curenv # NoEnv
    /\ intr' = [intr EXCEPT ![curenv] = TRUE]
    /\ UNCHANGED <<queues, ready, curenv, status, schedStatus, down>>

\* Mutant: the environment is inserted at the tail, where dequeue takes from.
sched_run_envTail(e) ==
    /\ \E i \in 1 .. Len(newQ) :
          /\ newQ[i] = e
          /\ newQ' = RemoveAt(newQ, i)
          /\ InvokeIfStopped(Append(ready, e), [status EXCEPT ![e] = "READY"])
    /\ UNCHANGED <<free, exitQ, intr, down>>

\* An environment that is not in the NEW queue is not found and nothing
\* happens.
sched_run_env(e) ==
    /\ \E i \in 1 .. Len(newQ) :
          /\ newQ[i] = e
          /\ newQ' = RemoveAt(newQ, i)
          /\ InvokeIfStopped(Push(e, ready), [status EXCEPT ![e] = "READY"])
    /\ UNCHANGED <<free, exitQ, intr, down>>

SysRunEnv(e) == curenv # NoEnv /\ sched_run_env(e)

-----------------------------------------------------------------------------
(* env_create, from a system call or from the prompt, takes the first free *)
(* slot.  allocate_environment leaves it in the list; it is taken out when *)
(* complete_environment_initialization commits.                            *)

Create(e) ==
    /\ free # << >>
    /\ e = Head(free)
    /\ free' = Tail(free)
    /\ intr' = [intr EXCEPT ![e] = TRUE]

sched_new_env(e) ==
    /\ newQ' = Push(e, newQ)
    /\ status' = [status EXCEPT ![e] = "NEW"]
    /\ UNCHANGED <<ready, exitQ, curenv, schedStatus, down>>

SysCreateEnv(e) == curenv # NoEnv /\ Create(e) /\ sched_new_env(e)

CommandLoad(e) ==
    ~down /\ curenv = NoEnv /\ Create(e) /\ sched_new_env(e)

\* The command run: load, then sched_run_env of the new environment.
CommandRun(e) ==
    /\ ~down /\ curenv = NoEnv
    /\ Create(e)
    /\ InvokeIfStopped(Push(e, ready), [status EXCEPT ![e] = "READY"])
    /\ UNCHANGED <<newQ, exitQ, down>>

\* create_user_directory panics: the slot is still in the free list.
CreateNoDirectory(e) ==
    /\ ~down
    /\ free # << >> /\ e = Head(free)
    /\ Panic(ready, exitQ, [status EXCEPT ![e] = "UNKNOWN"])
    /\ UNCHANGED <<free, newQ, intr, down>>

\* A panic after the commit (no frame, no space in the page file): the slot
\* is in no list any more.
CreateOutOfSpace(e) ==
    /\ ~down
    /\ Create(e)
    /\ Panic(ready, exitQ, [status EXCEPT ![e] = "NEW"])
    /\ UNCHANGED <<newQ, down>>

-----------------------------------------------------------------------------
(* sched_kill_env: the environment is taken out of its queue and then      *)
(* env_free panics.                                                        *)

KillNew(e) ==
    /\ \E i \in 1 .. Len(newQ) : newQ[i] = e /\ newQ' = RemoveAt(newQ, i)
    /\ Panic(ready, exitQ, [status EXCEPT ![e] = "UNKNOWN"])
    /\ UNCHANGED <<free, intr, down>>

KillReady(e) ==
    /\ ~In(e, newQ)
    /\ \E i \in 1 .. Len(ready) :
          ready[i] = e /\ Panic(RemoveAt(ready, i), exitQ, status)
    /\ UNCHANGED <<free, newQ, intr, down>>

KillExit(e) ==
    /\ ~In(e, newQ) /\ ~In(e, ready)
    /\ \E i \in 1 .. Len(exitQ) :
          /\ exitQ[i] = e
          /\ Panic(ready, RemoveAt(exitQ, i), [status EXCEPT ![e] = "UNKNOWN"])
    /\ UNCHANGED <<free, newQ, intr, down>>

\* The assertion compares env_id with ENV_RUNNABLE: it always fails.
KillCurrent(e) ==
    /\ curenv = e
    /\ ~In(e, newQ) /\ ~In(e, ready) /\ ~In(e, exitQ)
    /\ Panic(ready, exitQ, status)
    /\ UNCHANGED <<free, newQ, intr, down>>

\* In no queue: a running caller gets control back; at the prompt curenv is
\* NULL and curenv->env_id faults.
KillMissing(e) ==
    /\ curenv # e
    /\ ~In(e, newQ) /\ ~In(e, ready) /\ ~In(e, exitQ)
    /\ down' = (curenv = NoEnv)
    /\ UNCHANGED <<queues, ready, curenv, status, schedStatus, intr>>

sched_kill_env(e) ==
    \/ KillNew(e) \/ KillReady(e) \/ KillExit(e)
    \/ KillCurrent(e) \/ KillMissing(e)

SysFreeEnv(e) == curenv # NoEnv /\ sched_kill_env(e)

\* The id of a slot that is free is refused; id 0 is the caller itself.
envid2env(e) == status[e] # "FREE"

SysEnvDestroy(e) == curenv # NoEnv /\ envid2env(e) /\ sched_kill_env(e)

CommandKill(e) == ~down /\ curenv = NoEnv /\ sched_kill_env(e)

-----------------------------------------------------------------------------
(* The other commands of the prompt. *)

CommandRunAll ==
    /\ ~down /\ curenv = NoEnv
    /\ newQ' = << >>
    /\ InvokeIfStopped(MoveAll(newQ, ready),
           [e \in Envs |-> IF In(e, newQ) THEN "READY" ELSE status[e]])
    /\ UNCHANGED <<free, exitQ, intr, down>>

\* The first environment of the first queue that is not empty is killed, and
\* the panic in env_free ends the command there.
CommandKillAll ==
    /\ ~down /\ curenv = NoEnv
    /\ LET all == newQ \o ready \o exitQ
       IN \/ /\ all # << >>
             /\ \/ KillNew(Head(all))
                \/ KillReady(Head(all))
                \/ KillExit(Head(all))
          \/ /\ all = << >>
             /\ fos_scheduler(ready, NoEnv, status)
             /\ UNCHANGED <<queues, intr, down>>

\* sched_init_RR replaces the ready queue by an empty one.
CommandSchedRR ==
    /\ ~down /\ curenv = NoEnv
    /\ ready' = << >>
    /\ schedStatus' = "STOPPED"
    /\ UNCHANGED <<queues, curenv, status, intr, down>>

-----------------------------------------------------------------------------
Next ==
    \/ ClockInterrupt \/ SysEnvExit \/ EnvPanics
    \/ SysDisableInterrupt \/ SysEnableInterrupt
    \/ \E e \in Envs :
          \/ SysRunEnv(e) \/ SysCreateEnv(e) \/ SysFreeEnv(e) \/ SysEnvDestroy(e)
          \/ CommandLoad(e) \/ CommandRun(e) \/ CommandKill(e)
          \/ CreateNoDirectory(e) \/ CreateOutOfSpace(e)
    \/ CommandRunAll \/ CommandKillAll \/ CommandSchedRR

Spec == Init /\ [][Next]_vars

\* The clock goes on ticking while user code runs, an interrupt that arrives
\* while they are disabled is kept pending, and every program that disables
\* interrupts enables them again.
FairSpec == Spec /\ SF_vars(ClockInterrupt) /\ WF_vars(SysEnableInterrupt)

-----------------------------------------------------------------------------
(* Properties *)

\* Type invariant: the lists and curenv hold slots of envs[].
TypeOK ==
    /\ free \in Seq(Envs) /\ newQ \in Seq(Envs)
    /\ ready \in Seq(Envs) /\ exitQ \in Seq(Envs)
    /\ curenv \in Envs \cup {NoEnv}
    /\ status \in [Envs -> Statuses]
    /\ schedStatus \in {"STOPPED", "STARTED"}
    /\ intr \in [Envs -> BOOLEAN]
    /\ down \in BOOLEAN

\* Whatever exits, kills, creations and panics came before, an environment is
\* in at most one list (its two link fields are shared by all of them), once,
\* the running one is in none, and its status says which list it is in.
OnePlace ==
    /\ Once(free) /\ Once(newQ) /\ Once(ready) /\ Once(exitQ)
    /\ \A e \in Envs :
          /\ In(e, free) => status[e] \in {"FREE", "UNKNOWN"} /\ ~In(e, newQ)
                            /\ ~In(e, ready) /\ ~In(e, exitQ) /\ curenv # e
          /\ In(e, newQ) => status[e] = "NEW"
                            /\ ~In(e, ready) /\ ~In(e, exitQ) /\ curenv # e
          /\ In(e, ready) => status[e] \in {"READY", "RUNNABLE"}
                            /\ ~In(e, exitQ) /\ curenv # e
          /\ In(e, exitQ) => status[e] = "EXIT" /\ curenv # e
          /\ curenv = e => status[e] = "RUNNABLE"

\* The prompt opens only when nobody could run, so a command that replaces
\* the ready queue drops no environment, and the scheduler counts as started
\* exactly while an environment runs.
PromptOnlyWhenIdle ==
    /\ curenv = NoEnv <=> schedStatus = "STOPPED"
    /\ curenv = NoEnv => ready = << >>

\* The lists of environments are sound after any order of operations, of panics
\* in the middle of one too: they hold slots, OnePlace and PromptOnlyWhenIdle.
QueuesSound == TypeOK /\ OnePlace /\ PromptOnlyWhenIdle

\* Round robin: waiting environments never change their order, a newcomer
\* queues behind everyone who waits, and who gets the processor has waited
\* longer than everyone left in the queue.
NoOvertaking ==
    [][\A e, f \in Envs :
          /\ Before(e, f, ready) /\ In(e, ready') /\ In(f, ready')
                => Before(e, f, ready')
          /\ ~In(e, ready) /\ In(e, ready') /\ In(f, ready) /\ In(f, ready')
                => Before(e, f, ready')
          /\ Before(e, f, ready) /\ curenv' = e => ~In(f, ready')]_vars

\* The assertions of the scheduler's self-check (chk1, chk2 for one queue) hold
\* at every clock interrupt: the environment chosen is the one predicted before
\* the queues changed, it is in no queue, and the preempted one is queued.
SelfCheckHolds ==
    [][ClockInterrupt =>
          /\ curenv' = IF ready = << >> THEN curenv ELSE ready[Len(ready)]
          /\ ~In(curenv', ready')
          /\ curenv' # curenv => In(curenv, ready')]_vars

\* No environment waits for ever: who is in the ready queue runs or is killed.
ReadyRuns == \A e \in Envs : In(e, ready) ~> ~In(e, ready)

Place(e) ==
    CASE curenv = e -> "running"
      [] In(e, ready) -> "ready"
      [] In(e, newQ) -> "new"
      [] In(e, exitQ) -> "exit"
      [] In(e, free) -> "free"
      [] OTHER -> "lost"

Life == INSTANCE EnvLife WITH place <- [e \in Envs |-> Place(e)]

\* The queues implement the life of an environment as EnvLife tells it: an
\* exited or killed environment never runs again, and the processor is never
\* idle while somebody is ready.
ImplementsLife == Life!Spec

=============================================================================
