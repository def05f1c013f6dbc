------------------------------ MODULE Reconciler ------------------------------
(* reconciler/mod.rs and plan.rs: the task that sweeps, at startup and then   *)
(* at an interval.  A sweep lists the running containers, inspects them one   *)
(* by one, lists NPM's hosts and sends the plan; the world moves between any  *)
(* two of these.                                                              *)
EXTENDS Docker, Channel, Npm

VARIABLES
    sweep,      \* where the task is
    todo,       \* containers listed and not yet inspected
    specs,      \* Upsert intents for the inspected ones, not yet sent
    orphans     \* <<host, container>> for which a Remove is still to be sent

sweepVars == <<sweep, todo, specs, orphans>>

ReconcilerTypeOK ==
    /\ sweep \in {"sleep", "inspect", "send"}
    /\ todo \subseteq Containers
    /\ specs \subseteq Intent
    /\ orphans \subseteq (1 .. MaxHostId) \X Containers

ReconcilerInit ==
    /\ sweep = "sleep"
    /\ todo = {}
    /\ specs = {}
    /\ orphans = {}

SweepFailed ==
    /\ sweep' = "sleep"
    /\ todo' = {} /\ specs' = {} /\ orphans' = {}

\* The interval has passed, or the task has just started: list_labeled().
SweepStart ==
    /\ sweep = "sleep"
    /\ \/ /\ sweep' = "inspect" /\ todo' = Running
          /\ UNCHANGED <<specs, orphans, dockerFaults>>
       \/ DockerFault /\ SweepFailed
    /\ UNCHANGED <<containerVars, streamVars, dockerOps, breaks, queue>>
    /\ NoEffect

\* Broken: the first container that cannot be inspected ends the inspections.
InspectOrStop ==
    /\ sweep = "inspect"
    /\ \E c \in todo :
          \/ /\ Exists(c)
             /\ todo' = todo \ {c}
             /\ specs' = specs \cup {Upsert(c, target[c])}
             /\ UNCHANGED dockerFaults
          \/ /\ ~Exists(c)
             /\ todo' = {}
             /\ UNCHANGED <<specs, dockerFaults>>
          \/ DockerFault /\ todo' = {} /\ UNCHANGED specs
    /\ UNCHANGED <<sweep, orphans, queue, containerVars, streamVars,
                   dockerOps, breaks>>
    /\ NoEffect

\* A container that cannot be inspected is left out of the sweep.
SweepInspect ==
    /\ sweep = "inspect"
    /\ \E c \in todo :
          /\ todo' = todo \ {c}
          /\ \/ /\ Exists(c)
                /\ specs' = specs \cup {Upsert(c, target[c])}
                /\ UNCHANGED dockerFaults
             \/ ~Exists(c) /\ UNCHANGED <<specs, dockerFaults>>
             \/ DockerFault /\ UNCHANGED specs
    /\ UNCHANGED <<sweep, orphans, queue, containerVars, streamVars,
                   dockerOps, breaks>>
    /\ NoEffect

\* plan(): an Upsert for every spec, then a Remove for every marked host
\* whose container is not among them.
Alive == {i.container : i \in specs}

\* Broken: a sweep that found no container plans nothing.
UnlistedIfAny == {<<id, hosts[id].owner>> :
                    id \in {h \in DOMAIN hosts : hosts[h].owner # NoOwner
                                                 /\ hosts[h].owner \notin Alive
                                                 /\ specs # {}}}

Unlisted == {<<id, hosts[id].owner>> :
                id \in {h \in DOMAIN hosts : hosts[h].owner # NoOwner
                                             /\ hosts[h].owner \notin Alive}}

\* Broken: the task never comes back from its first sweep.
NeverBack(upserts, removes) ==
    /\ sweep' = "send"
    /\ specs' = upserts
    /\ orphans' = removes
    /\ UNCHANGED todo

\* Back to sleep when nothing is left to send.
AfterPlan(upserts, removes) ==
    /\ sweep' = IF upserts = {} /\ removes = {} THEN "sleep" ELSE "send"
    /\ specs' = upserts
    /\ orphans' = removes
    /\ UNCHANGED todo

\* Broken: the plan does not wait for all inspections.
PlanEarly ==
    /\ sweep = "inspect"
    /\ AfterPlan(specs, Unlisted)
    /\ NoEffect
    /\ UNCHANGED <<queue, dockerVars>>

SweepPlan ==
    /\ sweep = "inspect"
    /\ todo = {}
    /\ \/ AfterPlan(specs, Unlisted) /\ NoEffect
       \/ FaultyNoEffect /\ SweepFailed
    /\ UNCHANGED <<queue, dockerVars>>

SweepSend ==
    /\ sweep = "send"
    /\ \/ \E i \in specs :
             Send(i) /\ AfterPlan(specs \ {i}, orphans)
       \/ /\ specs = {}
          /\ \E o \in orphans :
                Send(Remove(o[2])) /\ AfterPlan({}, orphans \ {o})
    /\ UNCHANGED dockerVars
    /\ NoEffect

ReconcilerTask == SweepStart \/ SweepInspect \/ SweepPlan \/ SweepSend
=============================================================================
