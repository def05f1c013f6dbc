-------------------------------- MODULE Docker --------------------------------
(* The Docker daemon, an external service, as docker/mod.rs and the watcher   *)
(* meet it: containers that start, die, are destroyed and are renamed, and an *)
(* event stream that reports the first three to whoever is subscribed then.   *)
EXTENDS Intents, Sequences, Naturals

CONSTANTS
    Labeled,         \* containers whose labels parse to a spec
    MaxDockerOps,    \* bound on what happens to containers
    MaxBreaks,       \* bound on breaks of the event stream
    MaxDockerFaults  \* bound on failed calls

ASSUME DockerAssumption ==
    /\ Labeled \subseteq Containers
    /\ {MaxDockerOps, MaxBreaks, MaxDockerFaults} \subseteq Nat

VARIABLES
    status,         \* what each container is doing
    target,         \* the target its inspection yields
    events,         \* events sent on the stream and not yet taken from it
    subscribed,     \* the stream is open
    dockerOps, breaks, dockerFaults     \* counters for the bounds

containerVars == <<status, target>>
streamVars    == <<events, subscribed>>
dockerVars    == <<containerVars, streamVars, dockerOps, breaks, dockerFaults>>

Event == [kind : {"start", "die", "destroy"}, container : Containers]

DockerTypeOK ==
    /\ status \in [Containers -> {"created", "up", "exited", "removed"}]
    /\ target \in [Containers -> Targets]
    /\ events \in Seq(Event)
    /\ subscribed \in BOOLEAN
    /\ dockerOps \in 0 .. MaxDockerOps
    /\ breaks \in 0 .. MaxBreaks
    /\ dockerFaults \in 0 .. MaxDockerFaults

DockerInit ==
    /\ status = [c \in Containers |-> "created"]
    /\ target \in [Containers -> Targets]
    /\ events = << >>
    /\ subscribed = FALSE
    /\ dockerOps = 0 /\ breaks = 0 /\ dockerFaults = 0

-----------------------------------------------------------------------------
(* Calls of the program                                                       *)

\* inspect succeeds for any container that exists, running or not.
Exists(c) == status[c] # "removed"

\* list_labeled(): list_containers without `all` returns the running ones.
Running == {c \in Labeled : status[c] = "up"}

DockerFault ==
    /\ dockerFaults < MaxDockerFaults
    /\ dockerFaults' = dockerFaults + 1

Subscribe ==
    /\ subscribed' = TRUE
    /\ events' = << >>
    /\ UNCHANGED <<containerVars, dockerOps, breaks, dockerFaults>>

TakeEvent ==
    /\ events # << >>
    /\ events' = Tail(events)
    /\ UNCHANGED <<containerVars, subscribed, dockerOps, breaks, dockerFaults>>

-----------------------------------------------------------------------------
(* What happens to containers                                                 *)

DockerOp ==
    /\ dockerOps < MaxDockerOps
    /\ dockerOps' = dockerOps + 1
    /\ UNCHANGED <<subscribed, breaks, dockerFaults>>

\* Only an open stream carries the event; an event sent while nobody listens
\* is never seen (watcher.rs asks for no `since`).
Report(kind, c) ==
    events' = IF subscribed
              THEN Append(events, [kind |-> kind, container |-> c])
              ELSE events

\* A container gets its address when it starts, so its target may be new.
Start(c) ==
    /\ DockerOp
    /\ status[c] \in {"created", "exited"}
    /\ status' = [status EXCEPT ![c] = "up"]
    /\ \E t \in Targets : target' = [target EXCEPT ![c] = t]
    /\ Report("start", c)

Die(c) ==
    /\ DockerOp
    /\ status[c] = "up"
    /\ status' = [status EXCEPT ![c] = "exited"]
    /\ Report("die", c)
    /\ UNCHANGED target

Destroy(c) ==
    /\ DockerOp
    /\ status[c] = "exited"
    /\ status' = [status EXCEPT ![c] = "removed"]
    /\ Report("destroy", c)
    /\ UNCHANGED target

\* `docker rename` changes what the watcher's filters do not let through.
Rename(c) ==
    /\ DockerOp
    /\ status[c] = "up"
    /\ \E t \in Targets \ {target[c]} : target' = [target EXCEPT ![c] = t]
    /\ UNCHANGED <<status, events>>

\* The connection breaks; of the events on their way a prefix still arrives.
StreamBreak ==
    /\ subscribed
    /\ breaks < MaxBreaks
    /\ breaks' = breaks + 1
    /\ subscribed' = FALSE
    /\ \E n \in 0 .. Len(events) : events' = SubSeq(events, 1, n)
    /\ UNCHANGED <<containerVars, dockerOps, dockerFaults>>
=============================================================================
