------------------------------- MODULE EnvIds -------------------------------
(***************************************************************************)
(* Environment ids: an id has a generation above and the number of the slot  *)
(* in envs[] below.  NENV (inc/environment_definitions.h) is what fits in a  *)
(* megabyte and no power of two, and ENVX masks an id with NENV - 1.         *)
(***************************************************************************)
EXTENDS Integers, SequencesExt, FiniteSetsExt

CONSTANTS NENV,            \* slots of envs[]
          ENVGENSHIFT      \* bits below the generation

Bit(x, k) == (x \div 2^k) % 2
And(x, y) == FoldSet(LAMBDA k, s : s + 2^k * Bit(x, k) * Bit(y, k), 0, 0..ENVGENSHIFT)
Or(x, y) == x + y - And(x, y)
AndNot(x, y) == x - And(x, y)

E_BAD_ENV == -2
ENVX(id) == And(id, NENV - 1)

\* Slots in use, from the head of env_free_list: 0, 1, 2, ...  No slot is used
\* again: env_free panics before it reaches free_environment.
env_init == [i \in 0..(NENV - 1) |-> [status |-> "FREE", id |-> 0]]
allocate_environment(envs) == Min({i \in DOMAIN envs : envs[i].status = "FREE"})

\* Mutant: the slot is masked as ENVX will mask it.
NewIdMasked(id, i) == Or(AndNot(id + 2^ENVGENSHIFT, NENV - 1), ENVX(i))

\* The generation, which is positive, and the slot.
NewId(id, i) == Or(AndNot(id + 2^ENVGENSHIFT, NENV - 1), i)
complete_environment_initialization(envs, i) == [envs EXCEPT ![i] = [status |-> "NEW", id |-> NewId(@.id, i)]]
env_create(envs) == complete_environment_initialization(envs, allocate_environment(envs))

\* What envid2env returns and stores; -1 stands for the null pointer.  Id 0 is
\* the current environment (lib/exit.c destroys its program under that id), of
\* which there is none at the prompt of an idle kernel.  Every caller passes 0
\* for checkperm.
envid2env(envs, curenv, id) ==
  LET i == ENVX(id)
  IN  CASE id = 0 -> [ret |-> 0, env |-> curenv]
        [] id # 0 /\ (envs[i].status = "FREE" \/ envs[i].id # id) -> [ret |-> E_BAD_ENV, env |-> -1]
        [] OTHER -> [ret |-> 0, env |-> i]

\* The table after n environments have been created.
Created(n) == FoldLeft(LAMBDA envs, k : env_create(envs), env_init, [k \in 1..n |-> k])
=============================================================================
