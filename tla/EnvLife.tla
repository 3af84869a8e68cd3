------------------------------ MODULE EnvLife ------------------------------
(***************************************************************************)
(* What the environment and scheduler code promises about one environment, *)
(* told without queues: the places an environment can be in and the moves  *)
(* between them.  Module Sched implements it.                              *)
(***************************************************************************)
CONSTANT Envs

VARIABLE place   \* where each environment is

Places == {"free", "new", "ready", "running", "exit", "lost"}

\* "exit" is final but for a kill, "lost" is final: nothing runs again after
\* it has exited or has been killed, and nothing runs that was not created.
\* An environment is lost when a panic interrupts its creation or its kill.
Moves ==
    {<<"free", "new">>, <<"free", "running">>, <<"free", "lost">>,
     <<"new", "ready">>, <<"new", "running">>, <<"new", "lost">>,
     <<"ready", "running">>, <<"ready", "lost">>,
     <<"running", "ready">>, <<"running", "exit">>,
     <<"exit", "lost">>}

Running == {e \in Envs : place[e] = "running"}

Init == place = [e \in Envs |-> "free"]

\* One kernel entry may move several environments (the caller leaves, the next
\* one is dispatched), but it never takes the processor away while somebody
\* could use it, and it never leaves two of them running.
Next ==
    /\ place' \in [Envs -> Places]
    /\ \A e \in Envs :
          place'[e] # place[e] => <<place[e], place'[e]>> \in Moves
    /\ \A e, f \in Running' : e = f
    /\ Running' = {} => \A e \in Envs : place'[e] # "ready"

Spec == Init /\ [][Next]_place
=============================================================================
