--------------------------------- MODULE Sync ---------------------------------
(* The whole service as main.rs spawns it: watcher and reconciler send into   *)
(* one channel, the writer receives, while containers come and go, people     *)
(* edit NPM, calls fail and the process is restarted.                         *)
EXTENDS Writer, Watcher, Reconciler

\* History variables: what has disturbed the system, for the properties only.
VARIABLES
    calm,       \* undisturbed sweeps completed since the last disturbance
    clean,      \* the sweep under way started drained, nothing happened since
    excuse,     \* reasons why events alone may not have kept NPM in step
    missed      \* containers that the sweep under way may have missed

history  == <<calm, clean, excuse, missed>>
syncVars == <<writerVars, queue, dockerVars, watchVars, sweepVars, history>>

SyncTypeOK ==
    /\ WriterTypeOK /\ ChannelTypeOK /\ DockerTypeOK
    /\ WatcherTypeOK /\ ReconcilerTypeOK
    /\ calm \in 0 .. 2
    /\ clean \in BOOLEAN
    /\ excuse \subseteq {"lost", "raced", "overlap"}
    /\ missed \subseteq Containers

SyncInit ==
    /\ WriterInit /\ ChannelInit /\ DockerInit
    /\ WatcherInit /\ ReconcilerInit
    /\ calm = 0
    /\ clean = FALSE
    /\ excuse = {}
    /\ missed = {}

-----------------------------------------------------------------------------
(* When nothing is left to do                                                 *)

\* Every event has been turned into an intent and every intent carried out.
Drained ==
    /\ phase = "idle"
    /\ queue = << >>
    /\ watch \notin {"inspect", "send"}
    /\ events = << >>

AtRest == Drained /\ sweep = "sleep"

-----------------------------------------------------------------------------
(* History                                                                    *)

\* A call of a task failed.  A POST that NPM refuses, also for the bound on
\* host ids, counts.
CallFailed ==
    \/ faults' # faults
    \/ dockerFaults' # dockerFaults
    \/ phase = "create" /\ phase' # "create" /\ hosts' = hosts

\* A sweep may miss a container that starts, dies or is destroyed between its
\* list of containers and its plan, and the one whose inspect fails.
Unseen ==
    LET changed == {c \in Containers : status'[c] # status[c]}
    IN  IF dockerFaults' = dockerFaults \/ todo' = todo THEN {changed}
        ELSE {changed \cup {c} : c \in todo \ todo'}

Overlook ==
    IF sweep = "inspect" /\ sweep' = "inspect"
    THEN \E unseen \in Unseen : missed' = missed \cup unseen
    ELSE missed' = {}

Disturb(reasons) ==
    /\ calm' = 0
    /\ clean' = FALSE
    /\ excuse' = excuse \cup reasons
    /\ Overlook

\* A step of one of the three tasks: it starts or completes a sweep, or not,
\* and is a disturbance only if a call of it failed.
Observe ==
    IF CallFailed THEN Disturb({"lost"})
    ELSE /\ clean' = IF sweep = sweep' THEN clean
                     ELSE IF sweep = "sleep" THEN Drained
                     ELSE sweep' # "sleep" /\ clean
         /\ calm'  = IF sweep # "sleep" /\ sweep' = "sleep" /\ clean /\ calm < 2
                     THEN calm + 1 ELSE calm
         /\ UNCHANGED excuse
         /\ Overlook

-----------------------------------------------------------------------------
(* The tasks                                                                  *)

Work ==
    /\ WriterTask
    /\ UNCHANGED <<queue, dockerVars, watchVars, sweepVars>>
    /\ Observe

\* Broken: the next intent is received while one is being carried out.
TakeBusy ==
    /\ Receive
    /\ phase # "seed"
    /\ intent' = Head(queue)
    /\ phase' = Head(queue).kind
    /\ NoEffect
    /\ UNCHANGED <<cache, hostId, patch, seeded, restarts>>
    /\ UNCHANGED <<dockerVars, watchVars, sweepVars>>
    /\ Observe

\* rx.recv()
Take ==
    /\ Receive
    /\ Accept(Head(queue))
    /\ UNCHANGED <<dockerVars, watchVars, sweepVars>>
    /\ Observe

Watch ==
    /\ WatcherTask
    /\ UNCHANGED <<writerVars, sweepVars>>
    /\ Observe

Reconcile ==
    /\ ReconcilerTask
    /\ UNCHANGED <<taskVars, restarts, watchVars>>
    /\ Observe

-----------------------------------------------------------------------------
(* The world                                                                  *)

\* Events may not keep NPM in step if this one is not sent, if a sweep is under
\* way, which may have seen the container before, or if the container's url is
\* still another running container's.
Excuses(c) == (IF subscribed THEN {} ELSE {"lost"})
                  \cup (IF sweep = "sleep" THEN {} ELSE {"raced"})
                  \cup (IF \E d \in Running \ {c} : UrlOf[d] = UrlOf[c]
                        THEN {"overlap"} ELSE {})

ContainerEvent ==
    /\ UNCHANGED <<writerVars, queue, watchVars, sweepVars>>
    /\ \E c \in Containers :
          /\ Start(c) \/ Die(c) \/ Destroy(c)
          /\ Disturb(Excuses(c))

Silent ==
    /\ StreamBreak \/ \E c \in Containers : Rename(c)
    /\ UNCHANGED <<writerVars, queue, watchVars, sweepVars>>
    /\ Disturb({"lost"})

Meddle ==
    /\ User
    /\ UNCHANGED <<queue, dockerVars, watchVars, sweepVars>>
    /\ Disturb({"lost"})

\* A new process: an empty channel, a new subscription, an immediate sweep.
Reboot ==
    /\ Restart
    /\ queue' = << >>
    /\ watch' = "connect" /\ inHand' = NoIntent /\ delay' = 1
    /\ subscribed' = FALSE /\ events' = << >>
    /\ sweep' = "sleep" /\ todo' = {} /\ specs' = {} /\ orphans' = {}
    /\ UNCHANGED <<containerVars, dockerOps, breaks, dockerFaults>>
    /\ Disturb({"lost"})

SyncNext ==
    \/ Work \/ Take \/ Watch \/ Reconcile
    \/ ContainerEvent \/ Silent \/ Meddle \/ Reboot

SyncSpec == SyncInit /\ [][SyncNext]_syncVars

\* The tasks run on tokio's scheduler, which polls every woken task, and
\* every call returns.  A task waiting to send gets its turn because the
\* semaphore behind mpsc::Sender serves waiters in order.
SyncFairness ==
    /\ WF_syncVars(Work)
    /\ WF_syncVars(Take)
    /\ SF_syncVars(Watch)
    /\ SF_syncVars(Reconcile)

SyncLive == SyncSpec /\ SyncFairness

-----------------------------------------------------------------------------
(* Properties                                                                 *)

\* Someone other than a container that is going to be cleaned up has c's url:
\* a person, a running container with the same label, or, if the service is
\* not to clean up, any other container.
Blocked(c) ==
    \E id \in HavingUrl(UrlOf[c]) :
        /\ hosts[id].owner # c
        /\ CleanupOnRemove => hosts[id].owner \in Running \cup {NoOwner}

Served(c) ==
    \E id \in OwnedBy(c) :
        hosts[id].domains = {UrlOf[c]} /\ hosts[id].target = target[c]

AllServed == \A c \in Running : Served(c) \/ Blocked(c)

NoOrphan ==
    \A id \in DOMAIN hosts :
        hosts[id].owner # NoOwner => hosts[id].owner \in Running

\* The same for the hosts remove() can find (mod.rs:236).
NoKnownOrphan ==
    \A c \in DOMAIN cache :
        cache[c] \in OwnedBy(c) => c \in Running

\* What the service is for: each running labelled container has its host,
\* exactly as its labels ask, and no marked host is left without one.
Synced == AllServed /\ (CleanupOnRemove => NoOrphan)

\* A sweep that nothing disturbs leaves no host of a container that is gone,
\* whatever was missed, refused or half done before (plan.rs:16-24 plans by
\* the markers in NPM), but for those the writer does not remember: the seed
\* list failed, or the answer to the POST was lost.
OrphansSwept ==
    AtRest /\ calm > 0 /\ CleanupOnRemove => NoKnownOrphan

\* Two undisturbed sweeps put everything right: the first frees the urls that
\* dead containers hold, the second can create what was refused for them.
SweepsRepair ==
    AtRest /\ calm = 2 /\ seeded => Synced

\* Two undisturbed sweeps serve every running labelled container that can be
\* served: it goes without its host only if another host has its url at this
\* moment, also after lost answers and in a process whose seed list failed.
\* By OrphansSwept that other host is no orphan that the writer remembers.
SweepsServe ==
    AtRest /\ calm = 2 =>
        \A c \in Running :
            Served(c) \/ \E id \in HavingUrl(UrlOf[c]) : hosts[id].owner # c

\* Time without disturbance begins with a sweep that starts drained, and lasts
\* until something happens to a container, to NPM or to a call.
Quiet == clean \/ calm > 0

\* What the properties see of the hosts stays as it is.
SameLook ==
    /\ DOMAIN hosts' = DOMAIN hosts
    /\ \A id \in DOMAIN hosts : /\ hosts'[id].owner = hosts[id].owner
                                /\ hosts'[id].domains = hosts[id].domains
                                /\ hosts'[id].target = hosts[id].target

\* In such times no step of the service undoes what an earlier one has done:
\* no running container loses its host, and once NPM agrees with Docker
\* nothing that shows is changed again, whichever intents of this sweep and
\* the one before are still under way (reconciler/mod.rs:42-106, mod.rs:94).
NeverUndone ==
    [][Quiet /\ edits' = edits =>
          /\ \A c \in Running : Served(c) => Served(c)'
          /\ Synced => SameLook]_hosts

\* Between sweeps the event stream alone keeps NPM in step: with every event
\* delivered, no call failed and no container changing during a sweep,
\* whatever the order in which two producers' intents are interleaved.  So a
\* container may be replaced by another one for the same domain without
\* waiting for a sweep, if the old one stops before the new one starts.
EventsSuffice ==
    AtRest /\ excuse = {} => Synced

\* A sweep costs no running container its host but one that itself started or
\* died between the list of containers and the plan, or whose own inspect
\* failed: what happens to one is never paid for by another, although the list
\* of hosts is newer than every inspection it is compared with
\* (reconciler/mod.rs:48-99, plan.rs:9,18).
RemovesUnlisted ==
    [][sweep = "inspect" =>
          \A o \in orphans' : o[2] \in Running => o[2] \in missed]_sweep

\* Once the world is still NPM comes to agree with Docker and stays so: no
\* intent is stuck behind a full channel, no sweep undoes another, and what
\* was executed behind a lost answer is found again by the next list.
Converges == <>[](AllServed /\ (CleanupOnRemove => NoKnownOrphan))

-----------------------------------------------------------------------------
(* What documents say of the program, and it does not do                      *)

\* design 2026-04-21, line 37: "This shape eliminates races between the event
\* stream and the reconciler" (reconciler/mod.rs:48-101 acts on old lists).
NoRaces ==
    AtRest /\ "lost" \notin excuse => Synced

\* design 2026-04-21, line 117: "Wipe the cache, restart the binary, and the
\* first reconciliation sweep rebuilds everything from NPM" (mod.rs:76 goes on
\* with an empty cache, and mod.rs:236 skips what the cache does not know).
SweepRebuilds ==
    AtRest /\ calm > 0 /\ CleanupOnRemove => NoOrphan

\* design 2026-04-21, line 182: after exhaustion "the next reconciliation
\* sweep re-emits the intent, so nothing is permanently lost" (the certificate
\* is asked for on the create path alone, mod.rs:200; diff.rs ignores ssl).
CertNotLost ==
    AtRest /\ calm = 2 =>
        \A c \in Running \cap SslContainers :
            UrlOf[c] \in TokenUrls =>
                \A id \in OwnedBy(c) : hosts[id].tls

\* design 2026-04-21, line 83: "For every owned NPM host whose container is
\* missing, emit Remove" (reconciler/mod.rs:54 takes a failed inspect for a
\* missing container).
RemovesOnlyMissing ==
    []["raced" \notin excuse /\ sweep = "inspect" =>
          \A o \in orphans' : o[2] \notin Running]_sweep
=============================================================================
