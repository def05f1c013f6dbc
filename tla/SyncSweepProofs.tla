--------------------------- MODULE SyncSweepProofs ---------------------------
(* Theorems about what undisturbed sweeps achieve, for every value of the     *)
(* constants: after one, no host that the writer remembers is left without    *)
(* its container; after two, every running labelled container has its host.   *)
EXTENDS SyncProofs

-----------------------------------------------------------------------------
(* Time without disturbance                                                   *)

\* What there is to say about the containers as they are.
Wanted(c) == Upsert(c, target[c])
Upserts   == {Wanted(c) : c \in Running}
Right     == Upserts \cup {Remove(c) : c \in Containers \ Running}

Planned == specs \cup {Remove(o[2]) : o \in orphans}
Queued  == {queue[n] : n \in 1 .. Len(queue)}

\* Up to here the task may still do something about its intent.
InHand == IF phase \in {"cert", "attach"} THEN {} ELSE {intent}

\* Intents under way.
Pending(i) == i \in Planned \cup Queued \cup InHand

\* In quiet times no event is under way, every intent is right, and a sweep
\* has not lost sight of any running container.
QuietFlow ==
    /\ events = << >>
    /\ watch \notin {"inspect", "send"}
    /\ phase # "seed"
    /\ intent \in Right \cup {NoIntent}
    /\ Planned \cup Queued \subseteq Right
    /\ todo \subseteq Running
    /\ specs \subseteq Upserts
    /\ sweep = "inspect" => orphans = {} /\ Running \subseteq todo \cup Alive

\* What the variables of the sweep hold at its stages, quiet or not.
SweepStages ==
    /\ sweep # "inspect" => todo = {}
    /\ sweep # "send" => orphans = {}
    /\ sweep = "sleep" => specs = {}

FlowInv == SweepStages /\ (Quiet => QuietFlow)

\* A step in quiet times: nobody but the tasks, and no failed call.
QuietStep ==
    /\ Work \/ Take \/ Watch \/ Reconcile \/ UNCHANGED syncVars
    /\ ~CallFailed
    /\ UNCHANGED containerVars
    /\ UNCHANGED faults /\ UNCHANGED dockerFaults

\* The step that begins them.
QuietBegins ==
    /\ Reconcile /\ SweepStart /\ sweep' = "inspect"
    /\ Drained
    /\ UNCHANGED containerVars

\* Quiet times begin with a sweep and go on with quiet steps alone.
LEMMA QuietCases ==
    ASSUME SyncInv, [SyncNext]_syncVars, Quiet'
    PROVE  (Quiet /\ QuietStep) \/ (~Quiet /\ QuietBegins)
  <1>1. calm \in 0 .. 2 /\ clean \in BOOLEAN
    BY DEF SyncInv, SyncTypeOK
  <1>2. ASSUME NEW r, Disturb(r) PROVE FALSE
    BY <1>2 DEF Disturb, Quiet
  <1>3. ~(ContainerEvent \/ Silent \/ Meddle \/ Reboot)
    BY <1>2 DEF ContainerEvent, Silent, Meddle, Reboot
  <1>4. CASE Work \/ Take \/ Watch \/ Reconcile
    <2>1. Observe
      BY <1>4 DEF Work, Take, Watch, Reconcile
    <2>2. ~CallFailed
      BY <1>2, <2>1 DEF Observe
    <2>3. UNCHANGED containerVars
      BY <1>4
      DEF Work, Take, Watch, Reconcile, dockerVars, WatcherTask, WatchConnect,
          WatchNext, WatchStreamEnd, WatchBackoff, WatchInspect, WatchSend,
          Subscribe, TakeEvent, ReconcilerTask, SweepStart, SweepInspect,
          SweepPlan, SweepSend
    <2>4. UNCHANGED <<faults, dockerFaults>>
      BY <2>2 DEF CallFailed
    <2>5. CASE Quiet
      BY <1>4, <2>2, <2>3, <2>4, <2>5 DEF QuietStep
    <2>6. CASE ~Quiet
      <3>1. clean = FALSE /\ calm = 0
        BY <1>1, <2>6 DEF Quiet
      <3>2. clean' = TRUE
        BY <2>1, <2>2, <3>1 DEF Observe, Quiet, Drained
      <3>3. sweep # sweep' /\ sweep = "sleep" /\ Drained
        BY <2>1, <2>2, <3>1, <3>2 DEF Observe
      <3>4. Reconcile
        BY <1>4, <3>3 DEF Work, Take, Watch, sweepVars
      <3>5. SweepStart /\ sweep' = "inspect"
        BY <3>3, <3>4
        DEF Reconcile, ReconcilerTask, SweepStart, SweepInspect, SweepPlan,
            SweepSend, SweepFailed
      <3> QED  BY <2>3, <2>6, <3>3, <3>4, <3>5 DEF QuietBegins
    <2> QED  BY <2>5, <2>6
  <1>5. CASE UNCHANGED syncVars
    BY <1>5
    DEF syncVars, history, writerVars, npmVars, taskVars, dockerVars, Quiet,
        QuietStep, CallFailed
  <1> QED  BY <1>3, <1>4, <1>5 DEF SyncNext

-----------------------------------------------------------------------------
(* Intents under way                                                          *)

\* Upserts and Removes are never the same, and tell their container.
LEMMA IntentsDiffer ==
    /\ \A c, d, t : Upsert(c, t) # Remove(d)
    /\ \A c, d, t, s : Upsert(c, t) = Upsert(d, s) => c = d /\ t = s
    /\ \A c, d : Remove(c) = Remove(d) => c = d
    /\ \A c, t : Upsert(c, t).container = c /\ Upsert(c, t).kind = "upsert"
                 /\ Upsert(c, t).target = t /\ Upsert(c, t) # NoIntent
    /\ \A c : Remove(c).container = c /\ Remove(c).kind = "remove"
              /\ Remove(c) # NoIntent
  <1>1. \A c, t : Upsert(c, t).container = c /\ Upsert(c, t).kind = "upsert"
                  /\ Upsert(c, t).target = t
    BY DEF Upsert
  <1>2. \A c : Remove(c).container = c /\ Remove(c).kind = "remove"
    BY DEF Remove
  <1>3. NoIntent.kind = "none"
    BY DEF NoIntent
  <1>4. \A c, d, t : Upsert(c, t) # Remove(d)
    BY <1>1, <1>2
  <1>5. \A c, d, t, s : Upsert(c, t) = Upsert(d, s) => c = d /\ t = s
    BY <1>1
  <1>6. \A c, d : Remove(c) = Remove(d) => c = d
    BY <1>2
  <1> QED  BY <1>1, <1>2, <1>3, <1>4, <1>5, <1>6

\* A send adds one intent to the queue.
LEMMA SendQueues ==
    ASSUME ChannelTypeOK, NEW i, Send(i)
    PROVE  Queued' = Queued \cup {i}
  <1>1. queue \in Seq(Intent) /\ Len(queue) \in Nat
    BY DEF ChannelTypeOK
  <1>2. /\ Len(queue') = Len(queue) + 1
        /\ \A n \in 1 .. Len(queue) : queue'[n] = queue[n]
        /\ queue'[Len(queue) + 1] = i
    BY <1>1 DEF Send
  <1> QED  BY <1>1, <1>2 DEF Queued

\* What is received is taken off.
LEMMA ReceiveQueues ==
    ASSUME ChannelTypeOK, Receive
    PROVE  Queued = Queued' \cup {Head(queue)}
  <1>1. queue \in Seq(Intent) /\ Len(queue) \in Nat /\ Len(queue) > 0
    BY DEF ChannelTypeOK, Receive
  <1>2. /\ Len(queue') = Len(queue) - 1
        /\ \A n \in 1 .. Len(queue') : queue'[n] = queue[n + 1]
        /\ Head(queue) = queue[1]
    BY <1>1 DEF Receive
  <1>3. ASSUME NEW n \in 1 .. Len(queue)
        PROVE  queue[n] \in Queued' \cup {Head(queue)}
    <2>1. CASE n = 1
      BY <1>2, <2>1
    <2>2. CASE n # 1
      <3>1. n - 1 \in 1 .. Len(queue') /\ queue'[n - 1] = queue[n]
        BY <1>1, <1>2, <2>2
      <3> QED  BY <3>1 DEF Queued
    <2> QED  BY <2>1, <2>2
  <1>4. ASSUME NEW n \in 1 .. Len(queue')
        PROVE  queue'[n] \in Queued
    BY <1>1, <1>2 DEF Queued
  <1> QED  BY <1>1, <1>2, <1>3, <1>4 DEF Queued

\* What is said of the containers does not change while they do not.
LEMMA SameContainers ==
    ASSUME UNCHANGED containerVars
    PROVE  /\ Running' = Running /\ Right' = Right /\ Upserts' = Upserts
           /\ \A c : Wanted(c)' = Wanted(c)
  BY DEF containerVars, Running, Right, Upserts, Wanted

\* The task keeps its intent or drops it, and does not go back to its seed.
LEMMA WorkIntent ==
    ASSUME WriterTask, ~CallFailed, phase # "seed"
    PROVE  phase' # "seed" /\ intent' \in {intent, NoIntent}
  <1>1. Handle
    BY DEF WriterTask, Seed, SeedFailed
  <1> QED
    BY <1>1
    DEF Handle, ListFailed, UpsertConflict, UpsertInSync, UpsertDrifted,
        UpsertMissing, Update, Create, CreateFailed, RequestCert, AttachCert,
        RemoveSkipped, RemoveListed, RemoveAlreadyGone, RemoveRefused,
        RemoveFound, Delete, Done, Commit

\* Quiet times begin with nothing under way.
LEMMA FlowBegins ==
    ASSUME SyncInv, SweepStages, QuietBegins
    PROVE  QuietFlow'
  <1>1. /\ SweepStart /\ sweep = "sleep" /\ todo' = Running
        /\ UNCHANGED <<specs, orphans, queue, events, taskVars, watchVars>>
    BY DEF QuietBegins, Reconcile, SweepStart, SweepFailed, streamVars
  <1>2. specs = {} /\ orphans = {}
    BY <1>1 DEF SweepStages
  <1>3. Planned' = {} /\ Queued' = {}
    BY <1>1, <1>2 DEF QuietBegins, Drained, Planned, Queued
  <1>4. /\ events' = << >> /\ watch' \notin {"inspect", "send"}
        /\ phase' = "idle" /\ intent' = NoIntent
    BY <1>1
    DEF QuietBegins, Drained, watchVars, taskVars, SyncInv, WriterInv,
        WriterTypeOK
  <1>5. Running' = Running
    BY SameContainers DEF QuietBegins
  <1> QED  BY <1>1, <1>2, <1>3, <1>4, <1>5 DEF QuietFlow

\* The writer adds no intent.
LEMMA FlowWork ==
    ASSUME QuietFlow, Work, ~CallFailed
    PROVE  QuietFlow'
  <1>1. phase' # "seed" /\ intent' \in {intent, NoIntent}
    BY WorkIntent DEF QuietFlow, Work
  <1>2. UNCHANGED <<containerVars, events, watch, queue, sweepVars>>
    BY DEF Work, dockerVars, streamVars, watchVars
  <1>3. /\ Planned' = Planned /\ Queued' = Queued /\ Alive' = Alive
        /\ Running' = Running /\ Right' = Right /\ Upserts' = Upserts
    BY <1>2, SameContainers DEF Planned, Queued, Alive, sweepVars
  <1> QED  BY <1>1, <1>2, <1>3 DEF QuietFlow, sweepVars

\* What it takes has been under way before.
LEMMA FlowTake ==
    ASSUME SyncInv, QuietFlow, Take
    PROVE  QuietFlow'
  <1>1. Queued = Queued' \cup {Head(queue)}
    BY ReceiveQueues DEF Take, SyncInv, SyncTypeOK
  <1>2. intent' = Head(queue) /\ phase' = Head(queue).kind
    BY DEF Take, Accept
  <1>3. Head(queue) \in Right
    BY <1>1 DEF QuietFlow
  <1>4. phase' # "seed"
    BY <1>2, <1>3, IntentsDiffer DEF Right, Upserts, Wanted
  <1>5. UNCHANGED <<containerVars, events, watch, sweepVars>>
    BY DEF Take, dockerVars, streamVars, watchVars
  <1>6. /\ Planned' = Planned /\ Alive' = Alive
        /\ Running' = Running /\ Right' = Right /\ Upserts' = Upserts
    BY <1>5, SameContainers DEF Planned, Alive, sweepVars
  <1> QED  BY <1>1, <1>2, <1>3, <1>4, <1>5, <1>6 DEF QuietFlow, sweepVars

\* The watcher has nothing to handle: it connects, reconnects and waits.
LEMMA WatchQuiet ==
    ASSUME DockerTypeOK, QuietFlow, Watch, ~CallFailed
    PROVE  /\ UNCHANGED <<writerVars, containerVars, queue, sweepVars, events>>
           /\ watch' \notin {"inspect", "send"}
  <1>1. ~DockerFault
    BY DEF CallFailed, DockerFault, DockerTypeOK
  <1>2. WatchConnect \/ WatchStreamEnd \/ WatchBackoff
    BY DEF Watch, WatcherTask, WatchNext, TakeEvent, WatchInspect, WatchSend,
           QuietFlow
  <1> QED
    BY <1>1, <1>2
    DEF Watch, WatchConnect, WatchStreamEnd, WatchBackoff, Subscribe, Goto,
        QuietFlow, dockerVars, streamVars

\* The steps of a sweep when no call fails, as far as intents go.
Starts == /\ sweep = "sleep" /\ sweep' = "inspect" /\ todo' = Running
          /\ UNCHANGED <<specs, orphans, queue>>
Learns == /\ sweep = "inspect" /\ sweep' = "inspect"
          /\ \E c \in todo : /\ todo' = todo \ {c}
                             /\ specs' = specs \cup {Wanted(c)}
          /\ UNCHANGED <<orphans, queue>>
Plans  == /\ sweep = "inspect" /\ sweep' \in {"sleep", "send"}
          /\ sweep' = "sleep" => specs' = {} /\ orphans' = {}
          /\ todo = {} /\ orphans' = Unlisted
          /\ UNCHANGED <<todo, specs, queue>>
Tells  == /\ sweep = "send" /\ sweep' \in {"sleep", "send"}
          /\ sweep' = "sleep" => specs' = {} /\ orphans' = {}
          /\ specs' \subseteq specs /\ orphans' \subseteq orphans
          /\ \E i \in Planned : Send(i) /\ Planned \subseteq Planned' \cup {i}
          /\ UNCHANGED todo

\* A sweep is made of these, if the containers that it lists do not go away.
LEMMA SweepSteps ==
    ASSUME NpmTypeOK, DockerTypeOK, todo \subseteq Running, Reconcile,
           ~CallFailed,
           UNCHANGED <<faults, dockerFaults>>
    PROVE  /\ UNCHANGED <<writerVars, containerVars, events, watch>>
           /\ Starts \/ Learns \/ Plans \/ Tells
  <1>1. ~DockerFault /\ ~Fault
    BY NpmConstants DEF Fault, DockerFault, DockerTypeOK, NpmTypeOK
  <1>2. UNCHANGED <<taskVars, restarts, watch>>
    BY DEF Reconcile, watchVars
  <1>3. CASE SweepStart
    BY <1>1, <1>2, <1>3
    DEF SweepStart, Starts, NoEffect, streamVars, writerVars
  <1>4. CASE SweepInspect
    <2>1. \A c \in todo : Exists(c)
      BY DEF Running, Exists
    <2>2. Learns
      BY <1>1, <1>4, <2>1 DEF SweepInspect, Learns, Wanted
    <2> QED
      BY <1>2, <1>4, <2>2 DEF SweepInspect, NoEffect, streamVars, writerVars
  <1>5. CASE SweepPlan
    <2>1. NoEffect /\ AfterPlan(specs, Unlisted)
      BY <1>1, <1>5 DEF SweepPlan, FaultyNoEffect
    <2>2. Plans
      BY <1>5, <2>1 DEF SweepPlan, AfterPlan, Plans
    <2>3. UNCHANGED <<npmVars, dockerVars>>
      BY <1>5, <2>1 DEF SweepPlan, NoEffect
    <2> QED  BY <1>2, <2>2, <2>3 DEF dockerVars, streamVars, writerVars
  <1>6. CASE SweepSend
    <2>1. ASSUME NEW i \in specs, Send(i), AfterPlan(specs \ {i}, orphans)
          PROVE  Tells
      <3>1. /\ specs' = specs \ {i} /\ orphans' = orphans
            /\ sweep' \in {"sleep", "send"} /\ UNCHANGED todo
            /\ sweep' = "sleep" => specs' = {} /\ orphans' = {}
        BY <2>1 DEF AfterPlan
      <3>2. i \in Planned /\ Planned \subseteq Planned' \cup {i}
        BY <3>1 DEF Planned
      <3> QED  BY <1>6, <2>1, <3>1, <3>2 DEF SweepSend, Tells
    <2>2. ASSUME specs = {}, NEW o \in orphans, Send(Remove(o[2])),
                 AfterPlan({}, orphans \ {o})
          PROVE  Tells
      <3>1. /\ specs' = {} /\ orphans' = orphans \ {o}
            /\ sweep' \in {"sleep", "send"} /\ UNCHANGED todo
            /\ sweep' = "sleep" => specs' = {} /\ orphans' = {}
        BY <2>2 DEF AfterPlan
      <3>2. /\ Remove(o[2]) \in Planned
            /\ Planned \subseteq Planned' \cup {Remove(o[2])}
        BY <2>2, <3>1 DEF Planned
      <3> QED  BY <1>6, <2>2, <3>1, <3>2 DEF SweepSend, Tells
    <2>3. Tells
      BY <1>6, <2>1, <2>2 DEF SweepSend
    <2>4. UNCHANGED <<npmVars, dockerVars>>
      BY <1>6 DEF SweepSend, NoEffect
    <2> QED  BY <1>2, <2>3, <2>4 DEF dockerVars, streamVars, writerVars
  <1> QED  BY <1>3, <1>4, <1>5, <1>6 DEF Reconcile, ReconcilerTask

\* So it is in quiet times.
LEMMA SweepQuiet ==
    ASSUME NpmTypeOK, DockerTypeOK, QuietFlow, Reconcile, ~CallFailed,
           UNCHANGED <<faults, dockerFaults>>
    PROVE  /\ UNCHANGED <<writerVars, containerVars, events, watch>>
           /\ Starts \/ Learns \/ Plans \/ Tells
  <1>1. todo \subseteq Running
    BY DEF QuietFlow
  <1> QED  BY <1>1, SweepSteps

\* A sweep keeps the flow right: what it has seen is what is, and it removes
\* only what it has not seen.
LEMMA FlowSweep ==
    ASSUME NpmTypeOK, ChannelTypeOK, QuietFlow, SweepStages,
           UNCHANGED <<writerVars, containerVars, events, watch>>,
           Starts \/ Learns \/ Plans \/ Tells
    PROVE  QuietFlow'
  <1>1. Running' = Running /\ Right' = Right /\ Upserts' = Upserts
    BY SameContainers
  <1>2. /\ events' = << >> /\ watch' \notin {"inspect", "send"}
        /\ phase' # "seed" /\ intent' \in Right \cup {NoIntent}
    BY DEF QuietFlow, writerVars, taskVars
  <1>3. UNCHANGED queue => Queued' = Queued
    BY DEF Queued
  <1> SUFFICES /\ Planned' \cup Queued' \subseteq Right
               /\ todo' \subseteq Running
               /\ specs' \subseteq Upserts
               /\ sweep' = "inspect"
                     => orphans' = {} /\ Running \subseteq todo' \cup Alive'
    BY <1>1, <1>2 DEF QuietFlow
  <1>4. CASE Starts
    BY <1>3, <1>4 DEF Starts, SweepStages, QuietFlow, Planned
  <1>5. CASE Learns
    <2>1. PICK c \in todo : /\ todo' = todo \ {c}
                            /\ specs' = specs \cup {Wanted(c)}
      BY <1>5 DEF Learns
    <2>2. Wanted(c) \in Upserts /\ Wanted(c).container = c
      BY <2>1, IntentsDiffer DEF QuietFlow, Upserts, Wanted
    <2>3. Alive' = Alive \cup {c}
      BY <2>1, <2>2 DEF Alive
    <2>4. Planned' \subseteq Planned \cup {Wanted(c)}
      BY <1>5, <2>1 DEF Learns, Planned
    <2> QED
      BY <1>3, <1>5, <2>1, <2>2, <2>3, <2>4 DEF Learns, QuietFlow, Right
  <1>6. CASE Plans
    <2>1. Running \subseteq Alive
      BY <1>6 DEF Plans, QuietFlow
    <2>2. \A o \in orphans' : o[2] \in Containers \ Running
      BY <1>6, <2>1, PlanTyped DEF Plans, Unlisted
    <2>3. Planned' \subseteq Planned \cup Right
      BY <1>6, <2>2 DEF Plans, Planned, Right
    <2> QED  BY <1>3, <1>6, <2>2, <2>3 DEF Plans, QuietFlow
  <1>7. CASE Tells
    <2>1. PICK i \in Planned : Send(i) /\ Planned \subseteq Planned' \cup {i}
      BY <1>7 DEF Tells
    <2>2. Queued' = Queued \cup {i}
      BY <2>1, SendQueues
    <2>3. Planned' \subseteq Planned
      BY <1>7 DEF Tells, Planned
    <2> QED  BY <1>7, <2>1, <2>2, <2>3 DEF Tells, QuietFlow
  <1> QED  BY <1>4, <1>5, <1>6, <1>7

\* The stages of a sweep, whatever happens.
LEMMA StagesKept ==
    SweepStages /\ [SyncNext]_syncVars => SweepStages'
  <1> SUFFICES ASSUME SweepStages, [SyncNext]_syncVars PROVE SweepStages'
    OBVIOUS
  <1>1. CASE Reconcile
    BY <1>1
    DEF Reconcile, ReconcilerTask, SweepStart, SweepInspect, SweepPlan,
        SweepSend, AfterPlan, SweepFailed, SweepStages
  <1>2. CASE Reboot
    BY <1>2 DEF Reboot, SweepStages
  <1>3. CASE Work \/ Take \/ Watch \/ ContainerEvent \/ Silent \/ Meddle
             \/ UNCHANGED syncVars
    <2>1. UNCHANGED sweepVars
      BY <1>3
      DEF Work, Take, Watch, ContainerEvent, Silent, Meddle, syncVars
    <2> QED  BY <2>1 DEF sweepVars, SweepStages
  <1> QED  BY <1>1, <1>2, <1>3 DEF SyncNext

\* Every step keeps the flow right.
LEMMA FlowKept ==
    SyncInv /\ FlowInv /\ [SyncNext]_syncVars => FlowInv'
  <1> SUFFICES ASSUME SyncInv, FlowInv, [SyncNext]_syncVars, Quiet'
               PROVE  QuietFlow'
    BY StagesKept DEF FlowInv
  <1>1. /\ NpmTypeOK /\ ChannelTypeOK /\ DockerTypeOK /\ SweepStages
    BY DEF SyncInv, SyncTypeOK, WriterTypeOK, FlowInv
  <1>2. CASE ~Quiet /\ QuietBegins
    BY <1>1, <1>2, FlowBegins
  <1>3. CASE Quiet /\ QuietStep
    <2>1. QuietFlow /\ ~CallFailed /\ UNCHANGED <<faults, dockerFaults>>
      BY <1>3 DEF FlowInv, QuietStep
    <2>2. CASE Work
      BY <2>1, <2>2, FlowWork
    <2>3. CASE Take
      BY <2>1, <2>3, FlowTake
    <2>4. CASE Watch
      <3>1. /\ UNCHANGED <<writerVars, containerVars, queue, sweepVars, events>>
            /\ watch' \notin {"inspect", "send"}
        BY <1>1, <2>1, <2>4, WatchQuiet
      <3>2. /\ Planned' = Planned /\ Queued' = Queued /\ Alive' = Alive
            /\ Running' = Running /\ Right' = Right /\ Upserts' = Upserts
        BY <3>1, SameContainers DEF Planned, Queued, Alive, sweepVars
      <3> QED
        BY <2>1, <3>1, <3>2
        DEF QuietFlow, sweepVars, writerVars, taskVars
    <2>5. CASE Reconcile
      BY <1>1, <2>1, <2>5, SweepQuiet, FlowSweep
    <2>6. CASE UNCHANGED syncVars
      <3>1. /\ Planned' = Planned /\ Queued' = Queued /\ Alive' = Alive
            /\ Running' = Running /\ Right' = Right /\ Upserts' = Upserts
        BY <1>3, <2>6, SameContainers
        DEF QuietStep, syncVars, Planned, Queued, Alive, sweepVars
      <3> QED
        BY <2>1, <2>6, <3>1
        DEF QuietFlow, syncVars, sweepVars, writerVars, taskVars, watchVars,
            dockerVars, streamVars
    <2> QED  BY <1>3, <2>2, <2>3, <2>4, <2>5, <2>6 DEF QuietStep
  <1> QED  BY <1>2, <1>3, QuietCases

LEMMA FlowInvariance == SyncSpec => []FlowInv
  <1>1. SyncInit => FlowInv
    BY DEF SyncInit, ReconcilerInit, FlowInv, SweepStages, Quiet
  <1> QED  BY <1>1, FlowKept, SyncInvariance, PTL DEF SyncSpec

-----------------------------------------------------------------------------
(* What the writer does with right intents                                    *)

UpsertPhases == {"upsert", "create", "update", "cert", "attach"}
RemovePhases == {"remove", "delete"}

\* In quiet times an Upsert in hand asks for what its container wants.
LEMMA UpsertInHand ==
    ASSUME WriterTypeOK, QuietFlow, phase \in UpsertPhases
    PROVE  /\ intent.container \in Running
           /\ intent = Wanted(intent.container)
           /\ intent.target = target[intent.container]
  <1>1. intent # NoIntent /\ intent.kind = "upsert"
    BY DEF WriterTypeOK, UpsertPhases
  <1>2. intent \in Upserts
    BY <1>1, IntentsDiffer DEF QuietFlow, Right
  <1> QED  BY <1>2, IntentsDiffer DEF Upserts, Wanted

\* A Remove in hand is about a container that does not run.
LEMMA RemoveInHand ==
    ASSUME WriterTypeOK, QuietFlow, phase \in RemovePhases
    PROVE  /\ intent.container \in Containers \ Running
           /\ intent = Remove(intent.container)
  <1>1. intent # NoIntent /\ intent.kind = "remove"
    BY DEF WriterTypeOK, RemovePhases
  <1>2. PICK c \in Containers \ Running : intent = Remove(c)
    BY <1>1, IntentsDiffer DEF QuietFlow, Right, Upserts, Wanted
  <1> QED  BY <1>2, IntentsDiffer

\* The actions of an Upsert and those of a Remove.
LEMMA PhaseActions ==
    ASSUME Handle, ~CallFailed, NpmTypeOK
    PROVE  /\ phase \in UpsertPhases =>
                 \/ UpsertConflict \/ UpsertInSync \/ UpsertDrifted
                 \/ UpsertMissing \/ Update \/ Create
                 \/ (RequestCert /\ NoEffect) \/ AttachCert
           /\ phase \in RemovePhases =>
                 \/ RemoveSkipped \/ RemoveAlreadyGone \/ RemoveRefused
                 \/ RemoveFound \/ Delete
           /\ phase \in UpsertPhases \cup RemovePhases
  <1>1. ~Fault
    BY NpmConstants DEF Fault, CallFailed, NpmTypeOK
  <1>2. ~ListFailed /\ ~FaultyNoEffect
    BY <1>1 DEF ListFailed, FaultyNoEffect
  <1>3. ~CreateFailed
    BY <1>1 DEF CreateFailed, PostErr, CallFailed, Done
  <1> QED
    BY <1>2, <1>3
    DEF Handle, UpsertPhases, RemovePhases, UpsertConflict, UpsertInSync,
        UpsertDrifted, UpsertMissing, Update, Create, RequestCert, AttachCert,
        RemoveSkipped, RemoveListed, RemoveAlreadyGone, RemoveRefused,
        RemoveFound, Delete

\* An Upsert is about its own container: others get no host, and the cache
\* keeps what it knows of them.
LEMMA UpsertLeavesOthers ==
    ASSUME WriterInv, Handle, ~CallFailed, phase \in UpsertPhases,
           NEW d \in Containers, d # intent.container
    PROVE  /\ d \in DOMAIN cache' => d \in DOMAIN cache /\ cache'[d] = cache[d]
           /\ OwnedBy(d)' \subseteq OwnedBy(d)
  <1>1. WriterTypeOK /\ NpmTypeOK
    BY DEF WriterInv, WriterTypeOK
  <1>2. intent.container \in Containers /\ intent.target \in Targets
    BY <1>1, Busy DEF UpsertPhases
  <1>3. /\ UpsertConflict \/ UpsertInSync \/ UpsertDrifted
           \/ UpsertMissing \/ Update \/ Create
           \/ (RequestCert /\ NoEffect) \/ AttachCert
    BY <1>1, PhaseActions
  <1>4. cache' = cache \/ \E id : Remember(intent.container, id)
    BY <1>3
    DEF UpsertConflict, UpsertInSync, UpsertDrifted, UpsertMissing, Update,
        Create, RequestCert, AttachCert
  <1>5. d \in DOMAIN cache' => d \in DOMAIN cache /\ cache'[d] = cache[d]
    BY <1>4 DEF Remember
  <1>6. OwnedBy(d)' \subseteq OwnedBy(d)
    <2>1. CASE hosts' = hosts
      BY <2>1 DEF OwnedBy
    <2>2. CASE /\ phase \in {"update", "attach"}
               /\ PutApplied(hostId, patch, intent.container, intent.target)
      <3>1. patch \in Patch
        BY <1>1, <2>2 DEF WriterTypeOK
      <3>2. /\ DOMAIN hosts' = DOMAIN hosts
            /\ \A i \in DOMAIN hosts : hosts'[i].owner = hosts[i].owner
        BY <1>1, <1>2, <2>2, <3>1, PutAppliedKeeps
      <3> QED  BY <3>2 DEF OwnedBy
    <2>3. CASE PostOk(NewHost)
      <3>1. NewHost \in Host /\ NewHost.owner = intent.container
        BY <1>2, NewHostTyped, IntentsAssumption DEF NewHost, Host
      <3>2. PICK k \in 1 .. MaxAttempts : PostApplied(NewHost, k)
        BY <2>3 DEF PostOk
      <3>3. k \in Nat
        BY NpmConstants
      <3>4. /\ DOMAIN hosts' = DOMAIN hosts \cup nextId .. nextId + k - 1
            /\ \A i \in DOMAIN hosts : hosts'[i] = hosts[i]
            /\ \A i \in nextId .. nextId + k - 1 : hosts'[i] = NewHost
        BY <1>1, <3>1, <3>2, <3>3, PostAppliedKeeps
      <3> QED  BY <3>1, <3>4 DEF OwnedBy
    <2>4. \/ hosts' = hosts \/ PostOk(NewHost)
          \/ /\ phase \in {"update", "attach"}
             /\ PutApplied(hostId, patch, intent.container, intent.target)
      BY <1>3
      DEF UpsertConflict, UpsertInSync, UpsertDrifted, UpsertMissing, Update,
          Create, RequestCert, AttachCert, NoEffect, npmVars, PutOk, PutErr
    <2> QED  BY <2>1, <2>2, <2>3, <2>4
  <1> QED  BY <1>5, <1>6

\* remove() deletes the host that the cache knows, and forgets it.
DeleteAims ==
    phase = "delete" => /\ CleanupOnRemove
                        /\ intent.container \in DOMAIN cache
                        /\ cache[intent.container] = hostId

LEMMA DeleteAimsKept ==
    DeleteAims /\ [WriterNext]_writerVars => DeleteAims'
  <1> SUFFICES ASSUME DeleteAims, [WriterNext]_writerVars, phase' = "delete"
               PROVE  /\ CleanupOnRemove
                      /\ intent'.container \in DOMAIN cache'
                      /\ cache'[intent'.container] = hostId'
    BY DEF DeleteAims
  <1>1. CASE WriterTask
    BY <1>1
    DEF WriterTask, Seed, SeedFailed, Handle, ListFailed, UpsertConflict,
        UpsertInSync, UpsertDrifted, UpsertMissing, Update, Create,
        CreateFailed, RequestCert, AttachCert, RemoveSkipped, RemoveListed,
        RemoveAlreadyGone, RemoveRefused, RemoveFound, Delete, Done, Commit
  <1>2. CASE \E i \in Intent : Accept(i)
    BY <1>2, IntentFields DEF Accept
  <1>3. CASE OtherFault \/ User \/ UNCHANGED writerVars
    BY <1>3 DEF OtherFault, User, taskVars, writerVars, DeleteAims
  <1>4. CASE Restart
    BY <1>4 DEF Restart
  <1> QED  BY <1>1, <1>2, <1>3, <1>4 DEF WriterNext

\* When a Remove has been carried out the writer remembers no host of its
\* container, and it never marks one.
LEMMA RemoveCarriedOut ==
    ASSUME WriterInv, DeleteAims, CleanupOnRemove, Handle, ~CallFailed,
           phase \in RemovePhases,
           NEW d \in DOMAIN cache', cache'[d] \in OwnedBy(d)'
    PROVE  /\ d \in DOMAIN cache /\ cache[d] \in OwnedBy(d)
           /\ d = intent.container => intent' = intent /\ phase' = "delete"
  <1>1. WriterTypeOK /\ NpmTypeOK
    BY DEF WriterInv, WriterTypeOK
  <1>2. RemoveSkipped \/ RemoveAlreadyGone \/ RemoveRefused
        \/ RemoveFound \/ Delete
    BY <1>1, PhaseActions
  <1>3. ~Fault
    BY <1>1, NpmConstants DEF Fault, CallFailed, NpmTypeOK
  <1>4. CASE RemoveSkipped
    BY <1>4 DEF RemoveSkipped, NoEffect, npmVars, OwnedBy
  <1>5. CASE RemoveAlreadyGone
    BY <1>5
    DEF RemoveAlreadyGone, RemoveListed, NoEffect, npmVars, OwnedBy, Forget,
        Restrict
  <1>6. CASE RemoveRefused
    BY <1>6 DEF RemoveRefused, RemoveListed, NoEffect, npmVars, OwnedBy
  <1>7. CASE RemoveFound
    BY <1>7
    DEF RemoveFound, RemoveListed, NoEffect, npmVars, OwnedBy, Commit
  <1>8. CASE Delete
    <2>1. CASE DeleteOk(hostId) /\ Forget(intent.container)
      BY <2>1 DEF DeleteOk, DeleteApplied, OwnedBy, Forget, Restrict
    <2>2. CASE DeleteErr(hostId) /\ UNCHANGED cache
      <3>1. hostId \notin DOMAIN hosts /\ UNCHANGED hosts
        BY <1>3, <2>2 DEF DeleteErr
      <3>2. phase = "delete"
        BY <1>8 DEF Delete
      <3> QED  BY <2>2, <3>1, <3>2 DEF DeleteAims, OwnedBy
    <2> QED  BY <1>8, <2>1, <2>2 DEF Delete
  <1> QED  BY <1>2, <1>4, <1>5, <1>6, <1>7, <1>8

-----------------------------------------------------------------------------
(* One sweep: orphans                                                         *)

\* A plan has been made in quiet times.
Swept == calm > 0 \/ (clean /\ sweep = "send")

\* Since then, every host that the writer remembers has its container, or is
\* about to be removed.
OrphansDue ==
    Swept /\ CleanupOnRemove =>
        \A c \in DOMAIN cache :
            cache[c] \in OwnedBy(c) => c \in Running \/ Pending(Remove(c))

\* Steps that are not the writer's own leave cache and table alone, and lose
\* no intent.
NothingLost ==
    /\ UNCHANGED <<hosts, cache, seeded, phase, intent>>
    /\ \A i : Pending(i) => Pending(i)'

\* A plan has a Remove for every marked host without a container.
LEMMA PlanPending ==
    ASSUME QuietFlow, Plans, NEW id \in DOMAIN hosts,
           hosts[id].owner # NoOwner, hosts[id].owner \notin Running
    PROVE  Remove(hosts[id].owner) \in Planned'
  <1>1. hosts[id].owner \notin Alive
    BY IntentsDiffer DEF QuietFlow, Alive, Upserts, Wanted
  <1>2. <<id, hosts[id].owner>> \in orphans'
    BY <1>1 DEF Plans, Unlisted
  <1> QED  BY <1>2 DEF Planned

\* The intents under way through a step of a sweep.
LEMMA SweepLosesNothing ==
    ASSUME ChannelTypeOK, SweepStages, QuietFlow, UNCHANGED writerVars,
           Starts \/ Learns \/ Plans \/ Tells
    PROVE  NothingLost
  <1>1. InHand' = InHand /\ UNCHANGED <<hosts, cache, seeded, phase, intent>>
    BY DEF InHand, writerVars, taskVars, npmVars
  <1>2. Planned \cup Queued \subseteq Planned' \cup Queued'
    <2>1. CASE Starts \/ Learns
      BY <2>1 DEF Starts, Learns, Planned, Queued
    <2>2. CASE Plans
      BY <2>2 DEF Plans, QuietFlow, Planned, Queued
    <2>3. CASE Tells
      <3>1. PICK i \in Planned : Send(i) /\ Planned \subseteq Planned' \cup {i}
        BY <2>3 DEF Tells
      <3>2. Queued' = Queued \cup {i}
        BY <3>1, SendQueues
      <3> QED  BY <3>1, <3>2
    <2> QED  BY <2>1, <2>2, <2>3
  <1> QED  BY <1>1, <1>2 DEF NothingLost, Pending

\* The next intent goes from the queue into the writer's hand.
LEMMA TakeLosesNothing ==
    ASSUME SyncInv, Take
    PROVE  /\ UNCHANGED <<hosts, cache, seeded, containerVars, sweepVars>>
           /\ \A i : Pending(i) => Pending(i)' \/ i = NoIntent
  <1>1. Queued = Queued' \cup {Head(queue)}
    BY ReceiveQueues DEF Take, SyncInv, SyncTypeOK
  <1>2. Head(queue) \in Intent
    BY ReceiveTyped DEF Take, SyncInv, SyncTypeOK
  <1>3. /\ intent = NoIntent /\ phase = "idle"
        /\ intent' = Head(queue) /\ phase' = Head(queue).kind
        /\ UNCHANGED <<hosts, cache, seeded, containerVars, sweepVars>>
    BY DEF Take, Accept, SyncInv, WriterInv, WriterTypeOK, dockerVars, NoEffect,
           npmVars
  <1>4. InHand = {NoIntent} /\ InHand' = {Head(queue)}
    BY <1>2, <1>3, IntentFields DEF InHand
  <1>5. Planned' = Planned
    BY <1>3 DEF Planned, sweepVars
  <1> QED  BY <1>1, <1>3, <1>4, <1>5 DEF Pending

\* Where a quiet step leaves the account of sweeps.
LEMMA QuietCounts ==
    ASSUME SyncInv, Quiet, QuietStep
    PROVE  /\ calm \in 0 .. 2 /\ calm' \in 0 .. 2
           /\ sweep = sweep' => clean' = clean /\ calm' = calm
           /\ sweep = "sleep" /\ sweep' # sweep => clean' = Drained
                                                   /\ calm' = calm
           /\ sweep # "sleep" /\ sweep' # "sleep" => clean' = clean
                                                     /\ calm' = calm
           /\ sweep # "sleep" /\ sweep' = "sleep" =>
                 /\ clean' = FALSE
                 /\ calm' = IF clean /\ calm < 2 THEN calm + 1 ELSE calm
  <1>1. calm \in 0 .. 2 /\ clean \in BOOLEAN
    BY DEF SyncInv, SyncTypeOK
  <1>2. CASE UNCHANGED syncVars
    BY <1>1, <1>2 DEF syncVars, history, sweepVars
  <1>3. CASE Work \/ Take \/ Watch \/ Reconcile
    <2>1. Observe /\ ~CallFailed
      BY <1>3 DEF QuietStep, Work, Take, Watch, Reconcile
    <2>2. /\ clean' = IF sweep = sweep' THEN clean
                      ELSE IF sweep = "sleep" THEN Drained
                      ELSE sweep' # "sleep" /\ clean
          /\ calm'  = IF sweep # "sleep" /\ sweep' = "sleep" /\ clean
                         /\ calm < 2
                      THEN calm + 1 ELSE calm
      BY <2>1 DEF Observe
    <2>3. calm' \in 0 .. 2
      BY <1>1, <2>2
    <2>4. sweep # "sleep" /\ sweep' = "sleep" => clean' = FALSE
      BY <2>2
    <2> QED  BY <1>1, <2>2, <2>3, <2>4, Zenon
  <1> QED  BY <1>2, <1>3 DEF QuietStep

\* Steps that touch neither the writer nor any intent.
LEMMA StillLosesNothing ==
    ASSUME UNCHANGED <<writerVars, queue, sweepVars>>
    PROVE  NothingLost
  BY DEF NothingLost, Pending, Planned, Queued, InHand, writerVars, taskVars,
         npmVars, sweepVars

\* A quiet step of the writer: what it does to orphans.
LEMMA OrphansWork ==
    ASSUME SyncInv, SyncInv', QuietFlow, DeleteAims, CleanupOnRemove, Work,
           ~CallFailed, UNCHANGED containerVars,
           NEW c \in DOMAIN cache', cache'[c] \in OwnedBy(c)', c \notin Running,
           c \in DOMAIN cache /\ cache[c] \in OwnedBy(c) => Pending(Remove(c))
    PROVE  Pending(Remove(c))'
  <1>1. WriterInv /\ WriterTypeOK /\ NpmTypeOK /\ c \in Containers
    BY DEF SyncInv, WriterInv, WriterTypeOK
  <1>2. Handle
    BY DEF Work, WriterTask, Seed, SeedFailed, QuietFlow
  <1>3. Planned' = Planned /\ Queued' = Queued
    BY DEF Work, Planned, Queued, sweepVars
  <1>4. CASE phase \in UpsertPhases
    <2>1. intent.container \in Running /\ intent = Wanted(intent.container)
      BY <1>1, <1>4, UpsertInHand
    <2>2. c \in DOMAIN cache /\ cache[c] \in OwnedBy(c)
      BY <1>1, <1>2, <1>4, <2>1, UpsertLeavesOthers
    <2>3. Remove(c) \notin InHand
      BY <2>1, IntentsDiffer DEF InHand, Wanted
    <2> QED  BY <1>3, <2>2, <2>3 DEF Pending
  <1>5. CASE phase \in RemovePhases
    <2>1. intent = Remove(intent.container)
      BY <1>1, <1>5, RemoveInHand
    <2>2. /\ c \in DOMAIN cache /\ cache[c] \in OwnedBy(c)
          /\ c = intent.container => intent' = intent /\ phase' = "delete"
      BY <1>1, <1>2, <1>5, RemoveCarriedOut
    <2>3. Remove(c) \in InHand => Remove(c) \in InHand'
      BY <2>1, <2>2, IntentsDiffer DEF InHand
    <2> QED  BY <1>3, <2>2, <2>3 DEF Pending
  <1> QED  BY <1>1, <1>2, <1>4, <1>5, PhaseActions

\* No step leaves a remembered orphan without its Remove.
LEMMA OrphansKept ==
    SyncInv /\ SyncInv' /\ FlowInv /\ DeleteAims /\ OrphansDue
        /\ [SyncNext]_syncVars => OrphansDue'
  <1> SUFFICES ASSUME SyncInv, SyncInv', FlowInv, DeleteAims, OrphansDue,
                      [SyncNext]_syncVars, Swept', CleanupOnRemove,
                      NEW c \in DOMAIN cache', cache'[c] \in OwnedBy(c)',
                      c \notin Running'
               PROVE  Pending(Remove(c))'
    BY DEF OrphansDue
  <1>1. /\ NpmTypeOK /\ ChannelTypeOK /\ DockerTypeOK /\ SweepStages
    BY DEF SyncInv, SyncTypeOK, WriterTypeOK, FlowInv
  <1>2. Quiet'
    BY DEF Swept, Quiet
  <1>3. CASE ~Quiet /\ QuietBegins
    <2>1. calm = 0 /\ sweep = "sleep" /\ sweep' = "inspect"
      BY <1>3 DEF QuietBegins, SweepStart, Quiet, SyncInv, SyncTypeOK
    <2>2. calm' = 0
      BY <1>3, <2>1 DEF QuietBegins, Reconcile, Observe, Disturb
    <2> QED  BY <2>1, <2>2 DEF Swept
  <1>4. CASE Quiet /\ QuietStep
    <2>1. /\ QuietFlow /\ ~CallFailed /\ UNCHANGED <<faults, dockerFaults>>
          /\ UNCHANGED containerVars /\ Running' = Running
      BY <1>4, SameContainers DEF FlowInv, QuietStep
    <2>2. ASSUME UNCHANGED sweep PROVE Swept
      <3>1. clean' = clean /\ calm' = calm
        BY <1>4, <2>2, QuietCounts
      <3> QED  BY <2>2, <3>1 DEF Swept
    <2>3. ASSUME Swept, NothingLost
          PROVE  Pending(Remove(c))'
      <3>1. cache' = cache /\ OwnedBy(c)' = OwnedBy(c)
        BY <2>3 DEF NothingLost, OwnedBy
      <3>2. Pending(Remove(c))
        BY <2>1, <2>3, <3>1 DEF OrphansDue
      <3>3. \A i : Pending(i) => Pending(i)'
        BY <2>3 DEF NothingLost
      <3> QED  BY <3>3, <3>2
    <2>4. CASE Work
      <3>1. Swept
        BY <2>2, <2>4 DEF Work, sweepVars
      <3>2. c \in DOMAIN cache /\ cache[c] \in OwnedBy(c)
               => Pending(Remove(c))
        BY <2>1, <3>1 DEF OrphansDue
      <3> QED  BY <2>1, <2>4, <3>2, OrphansWork
    <2>5. CASE Take
      <3>1. /\ UNCHANGED <<hosts, cache, sweepVars>>
            /\ Pending(Remove(c)) => Pending(Remove(c))'
        BY <2>5, TakeLosesNothing, IntentsDiffer
      <3>2. Swept
        BY <2>2, <3>1 DEF sweepVars
      <3> QED  BY <2>1, <3>1, <3>2 DEF OrphansDue, OwnedBy
    <2>6. CASE Watch \/ UNCHANGED syncVars
      <3>1. UNCHANGED <<writerVars, queue, sweepVars>>
        BY <1>1, <2>1, <2>6, WatchQuiet DEF syncVars
      <3> QED  BY <2>2, <2>3, <3>1, StillLosesNothing DEF sweepVars
    <2>7. CASE Reconcile
      <3>1. /\ UNCHANGED writerVars
            /\ Starts \/ Learns \/ Plans \/ Tells
        BY <1>1, <2>1, <2>7, SweepQuiet
      <3>2. CASE Swept
        BY <1>1, <2>1, <2>3, <3>1, <3>2, SweepLosesNothing
      <3>3. CASE ~Swept
        <4>1. calm = 0 /\ (sweep = "send" => ~clean)
          BY <3>3 DEF Swept, SyncInv, SyncTypeOK
        <4>2. CASE Starts \/ Learns \/ Tells
          <5>1. calm' = 0 /\ (sweep' = "send" => ~clean')
            <6>1. CASE Starts
              BY <1>4, <4>1, <6>1, QuietCounts DEF Starts
            <6>2. CASE Learns
              BY <1>4, <4>1, <6>2, QuietCounts DEF Learns
            <6>3. CASE Tells
              <7>1. sweep = "send" /\ sweep' \in {"sleep", "send"} /\ ~clean
                BY <4>1, <6>3 DEF Tells
              <7>2. CASE sweep' = "send"
                <8>1. clean' = clean /\ calm' = calm
                  BY <1>4, <7>1, <7>2, QuietCounts
                <8> QED  BY <4>1, <7>1, <8>1
              <7>3. CASE sweep' = "sleep"
                <8>1. calm' = IF clean /\ calm < 2 THEN calm + 1 ELSE calm
                  BY <1>4, <7>1, <7>3, QuietCounts
                <8> QED  BY <4>1, <7>1, <7>3, <8>1
              <7> QED  BY <7>1, <7>2, <7>3
            <6> QED  BY <4>2, <6>1, <6>2, <6>3
          <5> QED  BY <5>1 DEF Swept
        <4>3. CASE Plans
          <5>1. UNCHANGED <<hosts, cache>>
            BY <3>1 DEF writerVars, npmVars, taskVars
          <5>2. /\ cache[c] \in DOMAIN hosts /\ hosts[cache[c]].owner = c
                /\ c \in Containers
            BY <5>1 DEF OwnedBy, SyncInv, WriterInv, WriterTypeOK
          <5>3. Remove(c) \in Planned'
            BY <2>1, <4>3, <5>2, PlanPending, NpmConstants
          <5> QED  BY <5>3 DEF Pending
        <4> QED  BY <3>1, <4>2, <4>3
      <3> QED  BY <3>2, <3>3
    <2> QED  BY <1>4, <2>4, <2>5, <2>6, <2>7 DEF QuietStep
  <1> QED  BY <1>2, <1>3, <1>4, QuietCases

\* At rest nothing is under way.
LEMMA RestPending ==
    ASSUME SyncInv, SweepStages, Drained, sweep = "sleep", NEW c \in Containers
    PROVE  ~Pending(Remove(c)) /\ ~Pending(Wanted(c))
  <1>1. Planned = {} /\ Queued = {}
    BY DEF Drained, SweepStages, Planned, Queued
  <1>2. InHand = {NoIntent}
    BY DEF Drained, InHand, SyncInv, WriterInv, WriterTypeOK
  <1> QED  BY <1>1, <1>2, IntentsDiffer DEF Pending, Wanted

LEMMA OrphansInvariance == SyncSpec => [](SyncInv /\ FlowInv /\ OrphansDue)
  <1>1. SyncInit => DeleteAims /\ OrphansDue
    BY DEF SyncInit, WriterInit, DeleteAims, OrphansDue, Swept
  <1>2. SyncInv /\ DeleteAims /\ [SyncNext]_syncVars => DeleteAims'
    BY StepSimulates, DeleteAimsKept
  <1> QED
    BY <1>1, <1>2, OrphansKept, FlowInvariance, SyncInvariance, PTL
    DEF SyncSpec

\* After a sweep that nothing disturbed, and when all it sent has been carried
\* out, no host that the writer remembers is without its container: whatever
\* was missed, refused or half done before, whoever edits NPM, and even if a
\* cleaned up container's events are still being acted upon (plan.rs:16-24).
THEOREM OneSweepSuffices == SyncSpec => []OrphansSwept
  <1>1. SyncInv /\ FlowInv /\ OrphansDue => OrphansSwept
    <2> SUFFICES ASSUME SyncInv, FlowInv, OrphansDue, AtRest, calm > 0,
                        CleanupOnRemove,
                        NEW c \in DOMAIN cache, cache[c] \in OwnedBy(c)
                 PROVE  c \in Running
      BY DEF OrphansSwept, NoKnownOrphan
    <2>1. c \in Running \/ Pending(Remove(c))
      BY DEF OrphansDue, Swept
    <2>2. c \in Containers
      BY DEF SyncInv, WriterInv, WriterTypeOK
    <2> QED  BY <2>1, <2>2, RestPending DEF AtRest, FlowInv
  <1> QED  BY <1>1, OrphansInvariance, PTL

-----------------------------------------------------------------------------
(* Domain names, when NPM refuses one that is taken                           *)

DomainsDisjoint ==
    \A i, j \in DOMAIN hosts :
        hosts[i].domains \cap hosts[j].domains # {} => i = j

\* It is enough that nobody else has the domains of the host that changed.
LEMMA OneChanged ==
    ASSUME DomainsDisjoint, NEW id,
           \A i \in DOMAIN hosts' \ {id} :
              i \in DOMAIN hosts /\ hosts'[i].domains = hosts[i].domains,
           id \in DOMAIN hosts' =>
              \A u \in hosts'[id].domains : HavingUrl(u) \ {id} = {}
    PROVE  DomainsDisjoint'
  <1> SUFFICES ASSUME NEW i \in DOMAIN hosts', NEW j \in DOMAIN hosts',
                      NEW u \in hosts'[i].domains, u \in hosts'[j].domains
               PROVE  i = j
    BY DEF DomainsDisjoint
  <1>1. CASE i # id /\ j # id
    BY <1>1 DEF DomainsDisjoint
  <1>2. CASE i = id \/ j = id
    BY <1>2 DEF HavingUrl
  <1> QED  BY <1>1, <1>2

\* The domains of one host are nobody else's.
LEMMA OwnDomains ==
    ASSUME DomainsDisjoint, NEW id \in DOMAIN hosts,
           NEW u \in hosts[id].domains
    PROVE  HavingUrl(u) = {id}
  BY DEF DomainsDisjoint, HavingUrl

LEMMA PutDisjoint ==
    ASSUME UniqueDomains, NpmTypeOK, DomainsDisjoint, NEW id, NEW p \in Patch,
           NEW c \in Containers, NEW t \in Targets, PutApplied(id, p, c, t)
    PROVE  DomainsDisjoint'
  <1>1. /\ id \in DOMAIN hosts /\ DOMAIN hosts' = DOMAIN hosts
        /\ \A i \in DOMAIN hosts : i # id => hosts'[i] = hosts[i]
    BY PutAppliedKeeps
  <1>2. PICK outcome \in Outcomes(hosts[id], p, t) :
           hosts'[id] = Patched(hosts[id], p, c, outcome)
    BY <1>1 DEF PutApplied, NpmTypeOK
  <1>3. hosts'[id].domains = IF "domains" \in p.fields THEN {UrlOf[c]}
                             ELSE hosts[id].domains
    BY <1>2 DEF Patched
  <1>4. "domains" \in p.fields => HavingUrl(UrlOf[c]) \ {id} = {}
    BY <1>1 DEF PutApplied, PutRefused, Taken
  <1> QED  BY <1>1, <1>3, <1>4, OneChanged, OwnDomains

LEMMA PostDisjoint ==
    ASSUME UniqueDomains, NpmTypeOK, DomainsDisjoint, NEW h \in Host,
           NEW k \in Nat, k > 0, PostApplied(h, k)
    PROVE  DomainsDisjoint'
  <1>1. k = 1
    BY DEF PostApplied
  <1>2. nextId \in Nat /\ 0 \notin DOMAIN hosts
    BY DEF NpmTypeOK
  <1>3. nextId .. nextId + k - 1 = {nextId}
    BY <1>1, <1>2
  <1>4. /\ DOMAIN hosts' = DOMAIN hosts \cup {nextId}
        /\ \A i \in DOMAIN hosts : hosts'[i] = hosts[i]
        /\ hosts'[nextId] = h
    BY <1>3, PostAppliedKeeps
  <1>5. \A u \in h.domains : HavingUrl(u) = {}
    BY <1>2 DEF PostApplied, Taken, HavingUrl
  <1> QED  BY <1>4, <1>5, OneChanged

LEMMA DeleteDisjoint ==
    ASSUME DomainsDisjoint, NEW id, DeleteApplied(id)
    PROVE  DomainsDisjoint'
  BY DEF DomainsDisjoint, DeleteApplied, Restrict

LEMMA EditDisjoint ==
    ASSUME UniqueDomains, NpmTypeOK, DomainsDisjoint, UserEdit \/ UserAdopt
    PROVE  DomainsDisjoint'
  <1>1. CASE UserCreate
    <2>1. PICK u \in Urls, t \in Targets :
             PostApplied([domains |-> {u}, owner |-> NoOwner, target |-> t,
                          tls |-> FALSE], 1)
      BY <1>1 DEF UserCreate
    <2>2. [domains |-> {u}, owner |-> NoOwner, target |-> t, tls |-> FALSE]
             \in Host
      BY DEF Host
    <2> QED  BY <2>1, <2>2, PostDisjoint
  <1>2. CASE UserDelete
    BY <1>2, DeleteDisjoint DEF UserDelete
  <1>3. CASE UserDrift
    <2>1. PICK id \in DOMAIN hosts :
             \/ \E t \in Targets \ {hosts[id].target} :
                   hosts' = [hosts EXCEPT ![id].target = t]
             \/ \E u \in Urls \ hosts[id].domains :
                   /\ ~Taken({u}, id)
                   /\ hosts' = [hosts EXCEPT ![id].domains = @ \cup {u}]
      BY <1>3 DEF UserDrift
    <2>2. hosts[id] \in Host /\ hosts \in [DOMAIN hosts -> Host]
      BY DEF NpmTypeOK
    <2>3. /\ DOMAIN hosts' = DOMAIN hosts
          /\ \A i \in DOMAIN hosts \ {id} : hosts'[i] = hosts[i]
      BY <2>1, <2>2
    <2>4. \A u \in hosts'[id].domains :
             u \in hosts[id].domains \/ ~Taken({u}, id)
      BY <2>1, <2>2 DEF Host
    <2>5. \A u \in hosts'[id].domains : HavingUrl(u) \ {id} = {}
      BY <2>4, OwnDomains DEF Taken
    <2> QED  BY <2>3, <2>5, OneChanged
  <1>4. CASE UserRedomain
    <2>1. PICK id \in DOMAIN hosts, u \in Urls :
             /\ ~Taken({u}, id)
             /\ hosts' = [hosts EXCEPT ![id].domains = {u}]
      BY <1>4 DEF UserRedomain
    <2>2. hosts[id] \in Host /\ hosts \in [DOMAIN hosts -> Host]
      BY DEF NpmTypeOK
    <2>3. /\ DOMAIN hosts' = DOMAIN hosts
          /\ \A i \in DOMAIN hosts \ {id} : hosts'[i] = hosts[i]
          /\ hosts'[id].domains = {u}
      BY <2>1, <2>2 DEF Host
    <2> QED  BY <2>1, <2>3, OneChanged DEF Taken
  <1>5. CASE UserAdopt
    <2>1. PICK id \in DOMAIN hosts :
             hosts' = [hosts EXCEPT ![id].owner = NoOwner]
      BY <1>5 DEF UserAdopt
    <2>2. hosts[id] \in Host /\ hosts \in [DOMAIN hosts -> Host]
      BY DEF NpmTypeOK
    <2>3. /\ DOMAIN hosts' = DOMAIN hosts
          /\ \A i \in DOMAIN hosts : hosts'[i].domains = hosts[i].domains
      BY <2>1, <2>2 DEF Host
    <2> QED  BY <2>3 DEF DomainsDisjoint
  <1> QED  BY <1>1, <1>2, <1>3, <1>4, <1>5 DEF UserEdit

\* No step of the program or of people gives two hosts one domain.
LEMMA StepDisjoint ==
    ASSUME UniqueDomains, WriterInv, DomainsDisjoint, [WriterNext]_writerVars
    PROVE  DomainsDisjoint'
  <1>1. NpmTypeOK /\ WriterTypeOK
    BY InvCache
  <1>2. CASE hosts' = hosts
    BY <1>2 DEF DomainsDisjoint
  <1>3. CASE Update \/ AttachCert
    <2>1. /\ intent.container \in Containers /\ intent.target \in Targets
          /\ patch \in Patch
      BY <1>1, <1>3, Busy DEF Update, AttachCert, WriterTypeOK
    <2> QED
      BY <1>1, <1>2, <1>3, <2>1, PutDisjoint
      DEF Update, AttachCert, PutOk, PutErr
  <1>4. CASE Create \/ CreateFailed
    <2>1. NewHost \in Host
      BY <1>1, <1>4, NewHostTyped DEF Create, CreateFailed
    <2>2. \A k \in 1 .. MaxAttempts : k \in Nat /\ k > 0
      BY NpmConstants
    <2> QED
      BY <1>1, <1>2, <1>4, <2>1, <2>2, PostDisjoint
      DEF Create, CreateFailed, PostOk, PostErr
  <1>5. CASE Delete
    BY <1>2, <1>5, DeleteDisjoint DEF Delete, DeleteOk, DeleteErr
  <1>6. CASE User
    BY <1>1, <1>6, EditDisjoint DEF User
  <1> QED
    BY <1>2, <1>3, <1>4, <1>5, <1>6
    DEF WriterNext, WriterTask, Handle, Seed, SeedFailed, Accept, ListFailed,
        UpsertConflict, UpsertInSync, UpsertDrifted, UpsertMissing,
        RequestCert, RemoveSkipped, RemoveAlreadyGone, RemoveRefused,
        RemoveFound, RemoveListed, OtherFault, Restart, NoEffect,
        FaultyNoEffect, writerVars, npmVars

-----------------------------------------------------------------------------
(* What a chosen host is like, as long as nobody edits NPM                    *)

Aims ==
    /\ phase = "update" => /\ hostId \in DOMAIN hosts
                           /\ hosts[hostId].owner = intent.container
                           /\ patch = UpdateOf(hosts[hostId])
    /\ phase = "delete" => /\ hostId \in DOMAIN hosts
                           /\ hosts[hostId].owner = intent.container
    /\ phase = "attach" => patch.fields = {"tls"}

\* The handler chooses in the step that makes the list, and acts in the next.
LEMMA WorkAims ==
    ASSUME NpmTypeOK, Handle, ~CallFailed
    PROVE  Aims'
  <1>1. /\ phase' = "update" => UpsertDrifted
        /\ phase' = "delete" => RemoveFound
        /\ phase' = "attach" => RequestCert
    BY PhaseActions
    DEF Handle, UpsertPhases, RemovePhases, UpsertConflict, UpsertInSync,
        UpsertDrifted, UpsertMissing, Update, Create, RequestCert, AttachCert,
        RemoveSkipped, RemoveAlreadyGone, RemoveRefused, RemoveFound, Delete,
        Done, Commit
  <1>2. CASE UpsertDrifted
    BY <1>2
    DEF UpsertDrifted, Aims, Commit, NoEffect, npmVars, Matching, HavingUrl,
        UpdateOf, Diff
  <1>3. CASE RemoveFound
    BY <1>3 DEF RemoveFound, RemoveListed, Aims, Commit, NoEffect, npmVars
  <1>4. CASE RequestCert /\ phase' = "attach"
    BY <1>4
    DEF RequestCert, Aims, Commit, Done, CertUpdate
  <1> QED  BY <1>1, <1>2, <1>3, <1>4 DEF Aims

LEMMA AimsKept ==
    SyncInv /\ FlowInv /\ (Quiet => Aims) /\ [SyncNext]_syncVars
        => (Quiet => Aims)'
  <1> SUFFICES ASSUME SyncInv, FlowInv, Quiet => Aims, [SyncNext]_syncVars,
                      Quiet'
               PROVE  Aims'
    OBVIOUS
  <1>1. NpmTypeOK /\ ChannelTypeOK /\ DockerTypeOK
    BY DEF SyncInv, SyncTypeOK, WriterTypeOK
  <1>2. CASE ~Quiet /\ QuietBegins
    <2>1. phase' = "idle"
      BY <1>2 DEF QuietBegins, Drained, Reconcile, taskVars
    <2> QED  BY <2>1 DEF Aims
  <1>3. CASE Quiet /\ QuietStep
    <2>1. /\ QuietFlow /\ ~CallFailed /\ UNCHANGED <<faults, dockerFaults>>
      BY <1>3 DEF FlowInv, QuietStep
    <2>2. CASE Work
      <3>1. Handle
        BY <2>1, <2>2 DEF Work, WriterTask, Seed, SeedFailed, QuietFlow
      <3> QED  BY <1>1, <2>1, <3>1, WorkAims
    <2>3. CASE Take
      <3>1. phase' \in {"upsert", "remove"}
        BY <2>3, ReceiveTyped, IntentFields
        DEF Take, Accept, SyncInv, SyncTypeOK
      <3> QED  BY <3>1 DEF Aims
    <2>4. CASE Watch \/ Reconcile \/ UNCHANGED syncVars
      <3>1. UNCHANGED writerVars
        BY <1>1, <2>1, <2>4, WatchQuiet, SweepQuiet DEF syncVars
      <3> QED
        BY <1>3, <3>1
        DEF Aims, writerVars, taskVars, npmVars, UpdateOf, Diff
    <2> QED  BY <1>3, <2>2, <2>3, <2>4 DEF QuietStep
  <1> QED  BY <1>2, <1>3, QuietCases

-----------------------------------------------------------------------------
(* Two sweeps: the writer's part                                              *)

\* A host of c as the labels ask.
Good(c, id) ==
    /\ id \in DOMAIN hosts /\ hosts[id].owner = c
    /\ hosts[id].domains = {UrlOf[c]} /\ hosts[id].target = target[c]

Exact(c) == \A id \in OwnedBy(c) : Good(c, id)

\* c's host is as it should be afterwards, and the other hosts as before.
Achieved(c) ==
    \E n \in DOMAIN hosts' :
        /\ hosts'[n].owner = c
        /\ hosts'[n].domains = {UrlOf[c]} /\ hosts'[n].target = target[c]
        /\ DOMAIN hosts' = DOMAIN hosts \cup {n}
        /\ \A id \in DOMAIN hosts : IF id = n THEN hosts[id].owner = c
                                    ELSE /\ hosts[id].owner # c
                                         /\ hosts'[id] = hosts[id]

\* Someone else's host has c's url.
Shut(c) == \E id \in HavingUrl(UrlOf[c]) : hosts[id].owner # c

Refused(c) == OwnedBy(c) = {} /\ Shut(c)

\* What can become of an Upsert in one step of the writer.
UpsertAdvances ==
    \/ SameLook /\ InHand \subseteq InHand'
    \/ SameLook /\ Refused(intent.container)
    \/ Achieved(intent.container)

\* What is known when the two sweeps are looked at.
Setting ==
    /\ UniqueDomains
    /\ WriterInv /\ FullInv /\ DomainsDisjoint /\ QuietFlow /\ Aims

\* A host of the container in hand that has its url is its only one.
LEMMA FoundOwn ==
    ASSUME Setting, NEW c \in Containers, NEW id \in HavingUrl(UrlOf[c])
    PROVE  /\ id \in DOMAIN hosts
           /\ hosts[id].owner = c => OwnedBy(c) = {id}
           /\ hosts[id].owner # c => OwnedBy(c) = {}
           /\ HavingUrl(UrlOf[c]) = {id}
  <1>1. id \in DOMAIN hosts /\ UrlOf[c] \in hosts[id].domains
    BY DEF HavingUrl
  <1>2. HavingUrl(UrlOf[c]) = {id}
    BY <1>1, OwnDomains DEF Setting
  <1>3. OwnedBy(c) \subseteq HavingUrl(UrlOf[c])
    BY NpmConstants DEF Setting, FullInv, MarkedAnswers, OwnedBy, HavingUrl
  <1> QED  BY <1>1, <1>2, <1>3 DEF OwnedBy

\* What a step of a handler does to the table, whether its call is answered,
\* fails or is executed behind a lost answer.
LEMMA TableSteps ==
    ASSUME Setting, Handle
    PROVE  \/ hosts' = hosts
           \/ /\ phase \in {"update", "attach"}
              /\ PutApplied(hostId, patch, intent.container, intent.target)
           \/ phase = "create" /\ Added(NewHost)
           \/ phase = "delete" /\ DeleteApplied(hostId)
  <1>1. WriterTypeOK /\ NpmTypeOK /\ ExecutedOnce
    BY InvCache DEF Setting, ExecutedOnce
  <1>2. CASE Create \/ CreateFailed
    <2>1. NewHost \in Host
      BY <1>1, <1>2, NewHostTyped DEF Create, CreateFailed
    <2> QED
      BY <1>1, <1>2, <2>1, PostOnce DEF Create, CreateFailed
  <1>3. CASE Update \/ AttachCert
    BY <1>3 DEF Update, AttachCert, PutOk, PutErr
  <1>4. CASE Delete
    BY <1>4 DEF Delete, DeleteOk, DeleteErr
  <1> QED
    BY <1>2, <1>3, <1>4
    DEF Handle, ListFailed, UpsertConflict, UpsertInSync, UpsertDrifted,
        UpsertMissing, RequestCert, RemoveSkipped, RemoveAlreadyGone,
        RemoveRefused, RemoveFound, RemoveListed, NoEffect, FaultyNoEffect,
        npmVars

\* The host that an update has chosen is its container's only one, and nobody
\* else has its url.
LEMMA UpdateFound ==
    ASSUME Setting, phase = "update"
    PROVE  /\ hostId \in DOMAIN hosts
           /\ OwnedBy(intent.container) = {hostId}
           /\ HavingUrl(UrlOf[intent.container]) = {hostId}
  <1> DEFINE c == intent.container
  <1>1. hostId \in DOMAIN hosts /\ hosts[hostId].owner = c
    BY DEF Setting, Aims
  <1>2. c \in Containers
    BY InvCache, Busy DEF Setting
  <1>3. hostId \in HavingUrl(UrlOf[c])
    BY <1>1, <1>2, NpmConstants DEF Setting, FullInv, MarkedAnswers, HavingUrl
  <1> QED  BY <1>1, <1>2, <1>3, FoundOwn

\* An update of the host that the list showed makes it what it should be.
LEMMA UpdateAchieves ==
    ASSUME Setting, phase = "update",
           PutApplied(hostId, patch, intent.container, intent.target),
           intent.target = target[intent.container]
    PROVE  Achieved(intent.container)
  <1> DEFINE c == intent.container
             h == hosts[hostId]
  <1>1. /\ hostId \in DOMAIN hosts /\ h.owner = c /\ patch = UpdateOf(h)
        /\ NpmTypeOK
    BY InvCache DEF Setting, Aims
  <1>2. OwnedBy(c) = {hostId}
    BY UpdateFound
  <1>3. PICK outcome \in Outcomes(h, patch, intent.target) :
           hosts' = [hosts EXCEPT ![hostId] = Patched(h, patch, c, outcome)]
    BY DEF PutApplied
  <1>4. outcome = intent.target
    BY <1>1, <1>3 DEF Outcomes, UpdateOf, Diff
  <1>5. /\ Patched(h, patch, c, outcome).domains = {UrlOf[c]}
        /\ Patched(h, patch, c, outcome).target = intent.target
        /\ Patched(h, patch, c, outcome).owner = c
    BY <1>1, <1>4 DEF Patched, UpdateOf, Diff
  <1>6. /\ DOMAIN hosts' = DOMAIN hosts
        /\ hosts'[hostId] = Patched(h, patch, c, outcome)
        /\ \A id \in DOMAIN hosts \ {hostId} : hosts'[id] = hosts[id]
    BY <1>1, <1>3 DEF NpmTypeOK
  <1>7. \A id \in DOMAIN hosts : id # hostId => hosts[id].owner # c
    BY <1>2 DEF OwnedBy
  <1>8. /\ hosts'[hostId].owner = c /\ hosts'[hostId].domains = {UrlOf[c]}
        /\ hosts'[hostId].target = target[c]
    BY <1>5, <1>6
  <1>9. DOMAIN hosts' = DOMAIN hosts \cup {hostId} /\ hostId \in DOMAIN hosts'
    BY <1>1, <1>6
  <1> QED  BY <1>1, <1>6, <1>7, <1>8, <1>9 DEF Achieved

\* So does a create, of a container that had no host.
LEMMA CreateAchieves ==
    ASSUME Setting, phase = "create", Added(NewHost),
           intent.target = target[intent.container]
    PROVE  Achieved(intent.container)
  <1>1. OwnedBy(intent.container) = {}
    BY DEF Setting, FullInv, CreatesFirst
  <1> QED  BY <1>1 DEF Added, Achieved, NewHost, OwnedBy

\* A certificate does not show.
LEMMA AttachLooks ==
    ASSUME Setting, phase = "attach",
           PutApplied(hostId, patch, intent.container, intent.target)
    PROVE  SameLook
  <1> DEFINE h == hosts[hostId]
  <1>1. NpmTypeOK /\ patch.fields = {"tls"} /\ hostId \in DOMAIN hosts
    BY InvCache DEF Setting, Aims, PutApplied, PutRefused
  <1>2. PICK outcome \in Outcomes(h, patch, intent.target) :
           hosts' = [hosts EXCEPT ![hostId] =
                        Patched(h, patch, intent.container, outcome)]
    BY DEF PutApplied
  <1>3. /\ DOMAIN hosts' = DOMAIN hosts
        /\ hosts'[hostId] = Patched(h, patch, intent.container, outcome)
        /\ \A id \in DOMAIN hosts \ {hostId} : hosts'[id] = hosts[id]
    BY <1>1, <1>2 DEF NpmTypeOK
  <1> QED  BY <1>1, <1>2, <1>3 DEF SameLook, Patched, Outcomes

\* An Upsert that is right stays in hand, finds its url taken, or is achieved;
\* what comes after it, a certificate, does not show.
LEMMA UpsertStep ==
    ASSUME Setting, Handle, ~CallFailed, phase \in UpsertPhases
    PROVE  UpsertAdvances
  <1> DEFINE c == intent.container
  <1>1. WriterTypeOK /\ NpmTypeOK
    BY InvCache DEF Setting
  <1>2. /\ c \in Containers /\ intent.target \in Targets
        /\ intent.target = target[c]
    BY <1>1, Busy, UpsertInHand DEF Setting, UpsertPhases
  <1>3. hosts' = hosts => SameLook
    BY DEF SameLook
  <1>4. CASE UpsertConflict
    <2>1. PICK id \in HavingUrl(UrlOf[c]) : hosts[id].owner # c
      BY <1>4 DEF UpsertConflict, Matching
    <2>2. Refused(c)
      BY <1>2, <2>1, FoundOwn DEF Refused, Shut
    <2> QED
      BY <1>3, <1>4, <2>2 DEF UpsertAdvances, UpsertConflict, NoEffect, npmVars
  <1>5. CASE UpsertInSync
    <2>1. PICK id \in HavingUrl(UrlOf[c]) : /\ hosts[id].owner = c
                                           /\ Diff(hosts[id]) = {}
      BY <1>5 DEF UpsertInSync, Matching
    <2>2. id \in DOMAIN hosts /\ OwnedBy(c) = {id}
      BY <1>2, <2>1, FoundOwn
    <2>3. hosts[id].domains = {UrlOf[c]} /\ hosts[id].target = target[c]
      BY <1>2, <2>1 DEF Diff
    <2>4. hosts' = hosts
      BY <1>5 DEF UpsertInSync, NoEffect, npmVars
    <2> QED
      BY <2>1, <2>2, <2>3, <2>4 DEF UpsertAdvances, Achieved, OwnedBy
  <1>6. CASE UpsertDrifted \/ UpsertMissing
    <2>1. /\ phase = "upsert" /\ phase' \in {"update", "create"}
          /\ intent' = intent /\ hosts' = hosts
      BY <1>6
      DEF UpsertDrifted, UpsertMissing, Commit, NoEffect, npmVars
    <2> QED  BY <1>3, <2>1 DEF UpsertAdvances, InHand
  <1>7. CASE Update
    <2>1. phase = "update" /\ hostId \in DOMAIN hosts
          /\ HavingUrl(UrlOf[c]) = {hostId}
      BY <1>7, UpdateFound DEF Update
    <2>2. ~PutRefused(hostId, patch, c)
      BY <2>1 DEF PutRefused, Taken
    <2>3. ~Fault
      BY <1>1, NpmConstants DEF Fault, CallFailed, NpmTypeOK
    <2>4. PutApplied(hostId, patch, c, intent.target)
      BY <1>7, <2>2, <2>3 DEF Update, PutOk, PutErr
    <2> QED  BY <1>2, <2>1, <2>4, UpdateAchieves DEF UpsertAdvances
  <1>8. CASE Create
    <2>1. NewHost \in Host /\ ExecutedOnce
      BY <1>1, <1>8, NewHostTyped DEF Create, Setting, ExecutedOnce
    <2>2. phase = "create" /\ Added(NewHost)
      BY <1>1, <1>8, <2>1, PostOnce DEF Create
    <2> QED  BY <1>2, <2>2, CreateAchieves DEF UpsertAdvances
  <1>9. CASE RequestCert /\ NoEffect
    BY <1>3, <1>9
    DEF UpsertAdvances, RequestCert, InHand, NoEffect, npmVars
  <1>10. CASE AttachCert
    <2>1. phase = "attach" /\ InHand = {}
      BY <1>10 DEF AttachCert, InHand
    <2>2. SameLook
      BY <1>3, <1>10, <2>1, AttachLooks DEF AttachCert, PutOk, PutErr
    <2> QED  BY <2>1, <2>2 DEF UpsertAdvances
  <1> QED
    BY <1>1, <1>4, <1>5, <1>6, <1>7, <1>8, <1>9, <1>10, PhaseActions

\* A Remove in hand is not an Upsert, and deletes the chosen host at most.
LEMMA RemoveStep ==
    ASSUME Setting, Handle, ~CallFailed, phase \in RemovePhases
    PROVE  /\ \A c : Wanted(c) \notin InHand
           /\ hosts' = hosts \/ (phase = "delete" /\ DeleteApplied(hostId))
  <1>1. WriterTypeOK /\ NpmTypeOK
    BY InvCache DEF Setting
  <1>2. \A c : Wanted(c) \notin InHand
    BY <1>1, RemoveInHand, IntentsDiffer DEF Setting, InHand, Wanted
  <1>3. RemoveSkipped \/ RemoveAlreadyGone \/ RemoveRefused
        \/ RemoveFound \/ Delete
    BY <1>1, PhaseActions
  <1> QED
    BY <1>2, <1>3
    DEF RemoveSkipped, RemoveAlreadyGone, RemoveRefused, RemoveFound,
        RemoveListed, Delete, DeleteOk, DeleteErr, NoEffect, npmVars

\* What looks the same is judged the same.
LEMMA LooksKept ==
    ASSUME SameLook, UNCHANGED containerVars
    PROVE  /\ \A c : Exact(c) => Exact(c)'
           /\ \A c : Served(c) => Served(c)'
           /\ \A c : Shut(c) => Shut(c)'
  <1>1. /\ \A c : OwnedBy(c)' = OwnedBy(c)
        /\ \A u : HavingUrl(u)' = HavingUrl(u)
        /\ Running' = Running /\ target' = target
    BY SameContainers DEF SameLook, OwnedBy, HavingUrl, containerVars
  <1>2. \A c : Exact(c) => Exact(c)'
    BY <1>1 DEF SameLook, Exact, Good, OwnedBy
  <1>3. \A c : Served(c) => Served(c)'
    BY <1>1 DEF SameLook, Served, OwnedBy
  <1>4. \A c : Shut(c) => Shut(c)'
    BY <1>1 DEF SameLook, Shut, HavingUrl
  <1> QED  BY <1>2, <1>3, <1>4

\* What is achieved for one container harms no other.
LEMMA AchievedKeeps ==
    ASSUME NEW c \in Running, Achieved(c), UNCHANGED containerVars
    PROVE  /\ Exact(c)' /\ Served(c)'
           /\ \A d : Exact(d) => Exact(d)'
           /\ \A d : Served(d) => Served(d)'
           /\ Exact(c) => \A d : Shut(d) => Shut(d)'
  <1>1. PICK n \in DOMAIN hosts' :
           /\ hosts'[n].owner = c
           /\ hosts'[n].domains = {UrlOf[c]} /\ hosts'[n].target = target[c]
           /\ DOMAIN hosts' = DOMAIN hosts \cup {n}
           /\ \A id \in DOMAIN hosts : IF id = n THEN hosts[id].owner = c
                                       ELSE /\ hosts[id].owner # c
                                            /\ hosts'[id] = hosts[id]
    BY DEF Achieved
  <1>2. Running' = Running /\ target' = target
    BY SameContainers DEF containerVars
  <1>3. OwnedBy(c)' = {n}
    BY <1>1 DEF OwnedBy
  <1>4. Exact(c)' /\ Served(c)'
    BY <1>1, <1>2, <1>3 DEF Exact, Good, Served
  <1>5. \A d : d # c => OwnedBy(d)' = OwnedBy(d)
    BY <1>1 DEF OwnedBy
  <1>6. ASSUME NEW d, Exact(d) PROVE Exact(d)'
    <2>1. CASE d = c
      BY <1>4, <2>1
    <2>2. CASE d # c
      BY <1>1, <1>2, <1>5, <1>6, <2>2 DEF Exact, Good, OwnedBy
    <2> QED  BY <2>1, <2>2
  <1>7. ASSUME NEW d, Served(d) PROVE Served(d)'
    <2>1. CASE d = c
      BY <1>4, <2>1
    <2>2. CASE d # c
      BY <1>1, <1>2, <1>5, <1>7, <2>2 DEF Served, OwnedBy
    <2> QED  BY <2>1, <2>2
  <1>8. ASSUME Exact(c), NEW d, Shut(d) PROVE Shut(d)'
    <2>1. PICK id \in HavingUrl(UrlOf[d]) : hosts[id].owner # d
      BY <1>8 DEF Shut
    <2>2. id \in DOMAIN hosts' /\ hosts'[id].owner = hosts[id].owner
          /\ hosts'[id].domains = hosts[id].domains
      BY <1>1, <1>8, <2>1 DEF Exact, Good, OwnedBy, HavingUrl
    <2> QED  BY <2>1, <2>2 DEF Shut, HavingUrl
  <1> QED  BY <1>4, <1>6, <1>7, <1>8

\* Something is still going to be done about c.
Due(c) == c \in todo \/ Pending(Wanted(c))

\* What the writer does to running containers in quiet times.
LEMMA WorkServes ==
    ASSUME Setting, Work, ~CallFailed, UNCHANGED containerVars,
           NEW d \in Running
    PROVE  /\ Exact(d) => Exact(d)'
           /\ Due(d) => Due(d)' \/ Exact(d)'
  <1>1. Handle
    BY DEF Work, WriterTask, Seed, SeedFailed, Setting, QuietFlow
  <1>2. /\ Planned' = Planned /\ Queued' = Queued /\ todo' = todo
        /\ Wanted(d)' = Wanted(d) /\ target' = target
    BY SameContainers DEF Work, Planned, Queued, sweepVars, containerVars
  <1>3. Wanted(d) \notin InHand \/ Wanted(d) \in InHand'
           => (Due(d) => Due(d)')
    BY <1>2 DEF Due, Pending
  <1>4. CASE phase \in UpsertPhases
    <2>1. /\ intent.container \in Running
          /\ intent = Wanted(intent.container)
      BY <1>4, InvCache, UpsertInHand DEF Setting
    <2>2. UpsertAdvances
      BY <1>1, <1>4, UpsertStep
    <2>3. Wanted(d) \in InHand => d = intent.container
      BY <2>1, IntentsDiffer DEF InHand, Wanted
    <2>4. CASE SameLook /\ InHand \subseteq InHand'
      BY <1>3, <2>4, LooksKept
    <2>5. CASE SameLook /\ Refused(intent.container)
      <3>1. Exact(intent.container)
        BY <2>5 DEF Refused, Exact
      <3> QED  BY <1>3, <2>3, <2>5, <3>1, LooksKept
    <2>6. CASE Achieved(intent.container)
      <3> DEFINE c == intent.container
      <3>1. PICK c0 \in Running : c0 = c
        BY <2>1
      <3>2. Exact(c0)' /\ (Exact(d) => Exact(d)')
        BY <2>6, <3>1, AchievedKeeps
      <3> QED  BY <1>3, <2>3, <3>1, <3>2
    <2> QED  BY <2>2, <2>4, <2>5, <2>6 DEF UpsertAdvances
  <1>5. CASE phase \in RemovePhases
    <2>1. /\ Wanted(d) \notin InHand
          /\ hosts' = hosts \/ DeleteApplied(hostId)
      BY <1>1, <1>5, RemoveStep
    <2>2. Exact(d) => Exact(d)'
      BY <1>2, <2>1
      DEF DeleteApplied, Restrict, Exact, Good, OwnedBy
    <2> QED  BY <1>3, <2>1, <2>2
  <1> QED  BY <1>1, <1>4, <1>5, PhaseActions, InvCache DEF Setting

\* What holds from the start of a second undisturbed sweep on: all hosts are
\* exact and none that the writer remembers is an orphan, so it deletes none,
\* and each container that is not served finds its url taken or is about to be
\* seen to.
Settled ==
    /\ \A c \in Running : Exact(c)
    /\ CleanupOnRemove => NoKnownOrphan
    /\ \A c \in Running : Served(c) \/ Shut(c) \/ Due(c)

\* Without a remembered orphan nothing is deleted.
LEMMA NothingToDelete ==
    ASSUME Setting, DeleteAims, CleanupOnRemove => NoKnownOrphan
    PROVE  phase # "delete"
  <1> SUFFICES ASSUME phase = "delete" PROVE FALSE
    OBVIOUS
  <1>1. intent.container \in Containers \ Running
    BY InvCache, RemoveInHand DEF Setting, RemovePhases
  <1>2. /\ intent.container \in DOMAIN cache
        /\ cache[intent.container] \in OwnedBy(intent.container)
    BY DEF Setting, Aims, DeleteAims, OwnedBy
  <1> QED  BY <1>1, <1>2 DEF DeleteAims, NoKnownOrphan

\* Nor does the writer come to remember one.
LEMMA KnownOrphansKept ==
    ASSUME Setting, SyncInv', DeleteAims, CleanupOnRemove, NoKnownOrphan,
           Handle, ~CallFailed, UNCHANGED containerVars
    PROVE  NoKnownOrphan'
  <1> SUFFICES ASSUME NEW d \in DOMAIN cache', cache'[d] \in OwnedBy(d)',
                      d \notin Running
               PROVE  FALSE
    BY SameContainers DEF NoKnownOrphan
  <1>1. WriterInv /\ WriterTypeOK /\ NpmTypeOK /\ QuietFlow /\ d \in Containers
    BY InvCache DEF Setting, SyncInv, WriterInv, WriterTypeOK
  <1>2. d \in DOMAIN cache /\ cache[d] \in OwnedBy(d)
    <2>1. CASE phase \in UpsertPhases
      BY <1>1, <2>1, UpsertInHand, UpsertLeavesOthers
    <2>2. CASE phase \in RemovePhases
      BY <1>1, <2>2, RemoveCarriedOut
    <2> QED  BY <1>1, <2>1, <2>2, PhaseActions
  <1> QED  BY <1>2 DEF NoKnownOrphan

LEMMA WorkSettles ==
    ASSUME Setting, SyncInv', DeleteAims, Settled, Work, ~CallFailed,
           UNCHANGED containerVars
    PROVE  Settled'
  <1>1. Handle
    BY DEF Work, WriterTask, Seed, SeedFailed, Setting, QuietFlow
  <1>2. /\ Planned' = Planned /\ Queued' = Queued /\ todo' = todo
        /\ Running' = Running /\ \A c : Wanted(c)' = Wanted(c)
    BY SameContainers DEF Work, Planned, Queued, sweepVars
  <1>3. \A c : Wanted(c) \notin InHand \/ Wanted(c) \in InHand'
           => (Due(c) => Due(c)')
    BY <1>2 DEF Due, Pending
  <1>4. /\ \A c \in Running : Exact(c)'
        /\ CleanupOnRemove => NoKnownOrphan'
    BY <1>1, WorkServes, KnownOrphansKept DEF Settled
  <1> SUFFICES \A c \in Running : Served(c)' \/ Shut(c)' \/ Due(c)'
    BY <1>2, <1>4 DEF Settled
  <1>5. CASE phase \in UpsertPhases
    <2>1. /\ intent.container \in Running
          /\ intent = Wanted(intent.container)
      BY <1>5, InvCache, UpsertInHand DEF Setting
    <2>2. UpsertAdvances
      BY <1>1, <1>5, UpsertStep
    <2>3. \A c : Wanted(c) \in InHand => c = intent.container
      BY <2>1, IntentsDiffer DEF InHand, Wanted
    <2>4. CASE SameLook /\ InHand \subseteq InHand'
      BY <1>3, <2>4, LooksKept DEF Settled
    <2>5. CASE SameLook /\ Refused(intent.container)
      BY <1>3, <2>3, <2>5, LooksKept DEF Refused, Settled
    <2>6. CASE Achieved(intent.container)
      <3>1. PICK c0 \in Running : c0 = intent.container
        BY <2>1
      <3>2. /\ Served(c0)'
            /\ \A d : Served(d) => Served(d)'
            /\ \A d : Shut(d) => Shut(d)'
        BY <2>6, <3>1, AchievedKeeps DEF Settled
      <3> QED  BY <1>3, <2>3, <3>1, <3>2 DEF Settled
    <2> QED  BY <2>2, <2>4, <2>5, <2>6 DEF UpsertAdvances
  <1>6. CASE phase \in RemovePhases
    <2>1. /\ \A c : Wanted(c) \notin InHand
          /\ hosts' = hosts \/ (phase = "delete" /\ DeleteApplied(hostId))
      BY <1>1, <1>6, RemoveStep
    <2>2. SameLook
      BY <2>1, NothingToDelete DEF SameLook, Settled
    <2> QED  BY <1>3, <2>1, <2>2, LooksKept DEF Settled
  <1> QED  BY <1>1, <1>5, <1>6, PhaseActions, InvCache DEF Setting

-----------------------------------------------------------------------------
(* Two sweeps: the whole                                                      *)

\* Steps of the others leave the table alone, and forget nothing that is due.
LEMMA OthersServe ==
    ASSUME SyncInv, FlowInv, Quiet, QuietStep, ~Work
    PROVE  /\ SameLook /\ UNCHANGED <<hosts, cache>>
           /\ \A c \in Running : Due(c) => Due(c)'
  <1>1. NpmTypeOK /\ ChannelTypeOK /\ DockerTypeOK /\ SweepStages
    BY DEF SyncInv, SyncTypeOK, WriterTypeOK, FlowInv
  <1>2. /\ QuietFlow /\ ~CallFailed /\ UNCHANGED <<faults, dockerFaults>>
        /\ \A c : Wanted(c)' = Wanted(c)
    BY SameContainers DEF FlowInv, QuietStep
  <1>3. hosts' = hosts => SameLook
    BY DEF SameLook
  <1>4. CASE Take
    <2>1. /\ UNCHANGED <<hosts, cache, seeded, sweepVars>>
          /\ \A i : Pending(i) => Pending(i)' \/ i = NoIntent
      BY <1>4, TakeLosesNothing
    <2>2. \A c : Wanted(c) # NoIntent
      BY IntentsDiffer DEF Wanted
    <2>3. todo' = todo
      BY <2>1 DEF sweepVars
    <2> QED  BY <1>2, <1>3, <2>1, <2>2, <2>3 DEF Due, Pending
  <1>5. CASE Watch \/ UNCHANGED syncVars
    <2>1. UNCHANGED <<writerVars, queue, sweepVars>>
      BY <1>1, <1>2, <1>5, WatchQuiet DEF syncVars
    <2>2. Planned' = Planned /\ Queued' = Queued /\ InHand' = InHand
          /\ todo' = todo /\ UNCHANGED <<hosts, cache>>
      BY <2>1
      DEF Planned, Queued, InHand, writerVars, taskVars, npmVars, sweepVars
    <2> QED  BY <1>2, <1>3, <2>2 DEF Due, Pending
  <1>6. CASE Reconcile
    <2>1. UNCHANGED writerVars /\ (Starts \/ Learns \/ Plans \/ Tells)
      BY <1>1, <1>2, <1>6, SweepQuiet
    <2>2. NothingLost
      BY <1>1, <1>2, <2>1, SweepLosesNothing
    <2>3. ASSUME NEW c \in Running, c \in todo
          PROVE  c \in todo' \/ Wanted(c) \in Planned'
      BY <2>1, <2>3 DEF Starts, Learns, Plans, Tells, Planned
    <2> QED  BY <1>2, <1>3, <2>2, <2>3 DEF NothingLost, Due, Pending
  <1> QED  BY <1>4, <1>5, <1>6 DEF QuietStep

\* A second sweep is under way, or done, and still nothing has happened.
Second == calm > 0 /\ (clean \/ calm = 2)

LEMMA SecondCases ==
    ASSUME SyncInv, Quiet, QuietStep, Second'
    PROVE  \/ Second
           \/ /\ calm > 0 /\ Drained
              /\ sweep = "sleep" /\ sweep' # "sleep"
  <1>1. calm \in 0 .. 2 /\ calm' \in 0 .. 2
    BY QuietCounts
  <1>2. CASE sweep = sweep'
    <2>1. clean' = clean /\ calm' = calm
      BY <1>2, QuietCounts
    <2> QED  BY <2>1 DEF Second
  <1>3. CASE sweep = "sleep" /\ sweep' # sweep
    <2>1. clean' = Drained /\ calm' = calm
      BY <1>3, QuietCounts
    <2>2. calm' = 2 => Second
      BY <2>1 DEF Second
    <2>3. calm > 0 /\ (Drained \/ calm' = 2)
      BY <2>1 DEF Second
    <2> QED  BY <1>3, <2>2, <2>3
  <1>4. CASE sweep # "sleep" /\ sweep' # "sleep"
    <2>1. clean' = clean /\ calm' = calm
      BY <1>4, QuietCounts
    <2> QED  BY <2>1 DEF Second
  <1>5. CASE sweep # "sleep" /\ sweep' = "sleep"
    <2>1. ~clean' /\ calm' = IF clean /\ calm < 2 THEN calm + 1 ELSE calm
      BY <1>5, QuietCounts
    <2>2. calm' = 2
      BY <2>1 DEF Second
    <2>3. CASE clean
      <3>1. calm > 0
        BY <1>1, <2>1, <2>2
      <3> QED  BY <2>3, <3>1 DEF Second
    <2>4. CASE ~clean
      <3>1. calm = 2
        BY <2>1, <2>2, <2>4
      <3> QED  BY <3>1 DEF Second
    <2> QED  BY <2>3, <2>4
  <1> QED  BY <1>2, <1>3, <1>4, <1>5

\* Before and after the second sweep begins.
RepairInv ==
    /\ Quiet => Aims
    /\ Quiet => \A c \in Running : Exact(c) \/ Due(c)
    /\ Second => Settled

\* What a first sweep leaves to the second: nothing but refused containers,
\* and orphans that the writer does not remember.
LEMMA FirstSweepLeaves ==
    ASSUME SyncInv, FlowInv, OrphansDue, RepairInv,
           calm > 0, Drained, sweep = "sleep"
    PROVE  /\ \A c \in Running : Exact(c)
           /\ CleanupOnRemove => NoKnownOrphan
  <1>1. SweepStages /\ todo = {}
    BY DEF FlowInv, SweepStages
  <1>2. \A c \in Containers : ~Pending(Remove(c)) /\ ~Pending(Wanted(c))
    BY <1>1, RestPending
  <1>3. \A c \in Running : Exact(c)
    BY <1>1, <1>2, SyncConstants DEF RepairInv, Quiet, Due, Running
  <1>4. DOMAIN cache \subseteq Containers
    BY DEF SyncInv, WriterInv, WriterTypeOK
  <1>5. CleanupOnRemove => NoKnownOrphan
    BY <1>2, <1>4 DEF OrphansDue, Swept, NoKnownOrphan
  <1> QED  BY <1>3, <1>5

LEMMA RepairKept ==
    ASSUME UniqueDomains, SyncInv, SyncInv', FlowInv, FullInv,
           DomainsDisjoint, DeleteAims, OrphansDue, RepairInv,
           [SyncNext]_syncVars
    PROVE  RepairInv'
  <1>1. (Quiet => Aims)'
    BY AimsKept DEF RepairInv
  <1> SUFFICES ASSUME Quiet'
               PROVE  /\ \A c \in Running' : Exact(c)' \/ Due(c)'
                      /\ Second' => Settled'
    BY <1>1 DEF RepairInv, Second, Quiet
  <1>2. CASE ~Quiet /\ QuietBegins
    <2>1. calm = 0 /\ sweep = "sleep" /\ sweep' = "inspect"
          /\ todo' = Running /\ Running' = Running
      BY <1>2, SameContainers
      DEF QuietBegins, SweepStart, SweepFailed, Quiet, SyncInv, SyncTypeOK
    <2>2. calm' = 0
      BY <1>2, <2>1 DEF QuietBegins, Reconcile, Observe, Disturb
    <2> QED  BY <2>1, <2>2 DEF Second, Due
  <1>3. CASE Quiet /\ QuietStep
    <2>1. /\ Setting /\ ~CallFailed /\ UNCHANGED containerVars
          /\ Running' = Running
      BY <1>3, SameContainers
      DEF Setting, FlowInv, QuietStep, SyncInv, RepairInv
    <2>2. CASE Work
      <3>1. Second' => Second
        BY <1>3, <2>2, SecondCases DEF Work, sweepVars
      <3>2. \A c \in Running : Exact(c)' \/ Due(c)'
        BY <1>3, <2>1, <2>2, WorkServes DEF RepairInv
      <3> QED
        BY <2>1, <2>2, <3>1, <3>2, WorkSettles DEF RepairInv
    <2>3. CASE ~Work
      <3>1. /\ SameLook /\ UNCHANGED <<hosts, cache>>
            /\ \A c \in Running : Due(c) => Due(c)'
        BY <1>3, <2>3, OthersServe
      <3>2. \A c \in Running : Exact(c)' \/ Due(c)'
        BY <1>3, <2>1, <3>1, LooksKept DEF RepairInv
      <3>3. NoKnownOrphan => NoKnownOrphan'
        BY <2>1, <3>1 DEF NoKnownOrphan, OwnedBy
      <3>4. ASSUME Second PROVE Settled'
        BY <2>1, <3>1, <3>3, <3>4, LooksKept DEF RepairInv, Settled
      <3>5. ASSUME calm > 0, Drained, sweep = "sleep", sweep' # "sleep"
            PROVE  Settled'
        <4>1. /\ \A c \in Running : Exact(c)
              /\ CleanupOnRemove => NoKnownOrphan
          BY <3>5, FirstSweepLeaves
        <4>2. todo' = Running
          <5>1. Reconcile
            BY <1>3, <2>3, <3>5
            DEF QuietStep, Take, Watch, sweepVars, syncVars
          <5>2. Starts \/ Learns \/ Plans \/ Tells
            BY <1>3, <2>1, <5>1, SweepQuiet
            DEF QuietStep, Setting, SyncInv, SyncTypeOK, WriterTypeOK
          <5> QED  BY <3>5, <5>2 DEF Starts, Learns, Plans, Tells
        <4> QED
          BY <2>1, <3>1, <3>3, <4>1, <4>2, LooksKept DEF Settled, Due
      <3> QED  BY <1>3, <2>1, <3>1, <3>2, <3>4, <3>5, SecondCases
    <2> QED  BY <2>2, <2>3
  <1> QED  BY <1>2, <1>3, QuietCases

\* Everything that is known of quiet times.
SettledInv ==
    /\ SyncInv /\ FlowInv /\ FullInv /\ DomainsDisjoint
    /\ DeleteAims /\ OrphansDue /\ RepairInv

LEMMA RepairInvariance ==
    ASSUME UniqueDomains, "redomain" \notin UserOps
    PROVE  SyncSpec => []SettledInv
  <1>1. SyncInit => /\ DeleteAims /\ OrphansDue /\ DomainsDisjoint /\ RepairInv
    BY DEF SyncInit, WriterInit, NpmInit, DeleteAims, OrphansDue, Swept,
           DomainsDisjoint, RepairInv, Quiet, Second
  <1>2. SyncInv /\ DeleteAims /\ [SyncNext]_syncVars => DeleteAims'
    BY StepSimulates, DeleteAimsKept
  <1>3. SyncInv /\ DomainsDisjoint /\ [SyncNext]_syncVars => DomainsDisjoint'
    BY StepSimulates, StepDisjoint DEF SyncInv
  <1>4. SyncInv /\ SyncInv' /\ FlowInv /\ FullInv /\ DomainsDisjoint
           /\ DeleteAims /\ OrphansDue /\ RepairInv /\ [SyncNext]_syncVars
        => RepairInv'
    BY RepairKept
  <1>5. ExecutedOnce
    BY DEF ExecutedOnce
  <1> QED
    BY <1>1, <1>2, <1>3, <1>4, <1>5, OrphansKept, FlowInvariance,
       SyncInvariance, ServiceIsWriter, FullInvariance, PTL
    DEF SyncSpec, SettledInv

\* At rest nothing is left to be done about anyone.
LEMMA RestSettled ==
    ASSUME SettledInv, AtRest, calm = 2
    PROVE  /\ Settled
           /\ \A c \in Running : ~Due(c)
  <1>1. Settled
    BY DEF SettledInv, RepairInv, Second
  <1>2. ASSUME NEW c \in Running PROVE ~Due(c)
    <2>1. c \in Containers
      BY SyncConstants DEF Running
    <2> QED
      BY <2>1, RestPending DEF SettledInv, AtRest, FlowInv, SweepStages, Due
  <1> QED  BY <1>1, <1>2

\* When two sweeps have passed in which nothing was disturbed, and what they
\* sent has been carried out, every running labelled container has its host,
\* exactly as its labels ask, or another host has its url: whatever was
\* missed, refused or left half done before, executed behind a lost answer, or
\* not seeded.  NPM refuses taken domains, and nobody gives a marked host
\* another domain name.
THEOREM TwoSweepsServe ==
    ASSUME UniqueDomains, "redomain" \notin UserOps
    PROVE  SyncSpec => []SweepsServe
  <1>1. SettledInv => SweepsServe
    BY RestSettled DEF SweepsServe, Settled, Shut
  <1> QED  BY <1>1, RepairInvariance, PTL

\* A writer that knows every marked host leaves no orphan, so that nobody's
\* url is taken by one.
\* Then NPM agrees with Docker: the hosts that keep a url from a container
\* are there for good.  No POST is executed behind a lost answer.
THEOREM TwoSweepsRepair ==
    ASSUME UniqueDomains, ~LostResponses, "redomain" \notin UserOps
    PROVE  SyncSpec => []SweepsRepair
  <1>1. SettledInv => SweepsRepair
    <2> SUFFICES ASSUME SettledInv, AtRest, calm = 2, seeded
                 PROVE  Synced
      BY DEF SweepsRepair
    <2>1. Settled /\ \A c \in Running : ~Due(c)
      BY RestSettled
    <2>2. ASSUME CleanupOnRemove PROVE NoOrphan
      <3>1. CacheComplete /\ NoKnownOrphan
        BY <2>1, <2>2 DEF SettledInv, FullInv, KnowsAll, Settled
      <3> QED  BY <3>1 DEF CacheComplete, NoKnownOrphan, NoOrphan, OwnedBy
    <2>3. \A c \in Running : Shut(c) => Blocked(c)
      BY <2>2 DEF Shut, Blocked, NoOrphan, HavingUrl
    <2> QED  BY <2>1, <2>2, <2>3 DEF Settled, Synced, AllServed
  <1> QED  BY <1>1, RepairInvariance, PTL

-----------------------------------------------------------------------------
(* Nothing is undone                                                          *)

\* An update that finds its container served changes nothing that shows.
LEMMA UpdateNeedless ==
    ASSUME Setting, phase = "update",
           PutApplied(hostId, patch, intent.container, intent.target),
           intent.target = target[intent.container],
           Served(intent.container)
    PROVE  SameLook
  <1> DEFINE c == intent.container
             h == hosts[hostId]
  <1>1. NpmTypeOK /\ patch = UpdateOf(h) /\ hostId \in DOMAIN hosts
    BY InvCache DEF Setting, Aims
  <1>2. h.domains = {UrlOf[c]} /\ h.target = intent.target
    BY UpdateFound DEF Served
  <1>3. patch.fields = {}
    BY <1>1, <1>2 DEF UpdateOf, Diff
  <1>4. PICK outcome \in Outcomes(h, patch, intent.target) :
           hosts' = [hosts EXCEPT ![hostId] = Patched(h, patch, c, outcome)]
    BY DEF PutApplied
  <1>5. /\ DOMAIN hosts' = DOMAIN hosts
        /\ hosts'[hostId] = Patched(h, patch, c, outcome)
        /\ \A id \in DOMAIN hosts \ {hostId} : hosts'[id] = hosts[id]
    BY <1>1, <1>4 DEF NpmTypeOK
  <1> QED  BY <1>1, <1>3, <1>4, <1>5 DEF SameLook, Patched, Outcomes

\* A step of a handler in quiet times, also one whose call fails after it was
\* executed: it serves another container, or deletes the host of one that
\* does not run.
LEMMA HandleUndoesNothing ==
    ASSUME Setting, DomainsDisjoint', DeleteAims, Handle,
           UNCHANGED containerVars
    PROVE  /\ \A c \in Running : Served(c) => Served(c)'
           /\ Synced => SameLook
  <1>1. WriterTypeOK /\ QuietFlow
    BY InvCache DEF Setting
  <1>2. CASE hosts' = hosts
    <2>1. SameLook
      BY <1>2 DEF SameLook
    <2> QED  BY <2>1, LooksKept
  <1>3. CASE /\ phase \in {"update", "create"}
             /\ Achieved(intent.container)
    <2>1. intent.container \in Running
          /\ intent.target = target[intent.container]
      BY <1>1, <1>3, UpsertInHand DEF UpsertPhases
    <2>2. PICK c \in Running : c = intent.container
      BY <2>1
    <2>3. \A d : Served(d) => Served(d)'
      BY <1>3, <2>2, AchievedKeeps
    <2>4. ASSUME Synced, hosts' # hosts PROVE SameLook
      <3>1. Served(c) \/ Shut(c)
        BY <2>4 DEF Synced, AllServed, Blocked, Shut
      <3>2. CASE phase = "update"
        <4>1. ~Shut(c)
          BY <2>2, <3>2, UpdateFound DEF Shut, OwnedBy
        <4>2. PutApplied(hostId, patch, intent.container, intent.target)
          BY <2>4, <3>2, TableSteps
        <4> QED  BY <2>1, <2>2, <3>1, <3>2, <4>1, <4>2, UpdateNeedless
      <3>3. CASE phase = "create"
        <4>1. ~Served(c)
          BY <2>2, <3>3 DEF Setting, FullInv, CreatesFirst, Served
        <4>2. PICK id \in DOMAIN hosts : UrlOf[c] \in hosts[id].domains
          BY <3>1, <4>1 DEF Shut, HavingUrl
        <4>3. Added(NewHost)
          BY <2>4, <3>3, TableSteps
        <4> QED
          BY <2>2, <4>2, <4>3 DEF Added, NewHost, DomainsDisjoint
      <3> QED  BY <1>3, <3>2, <3>3
    <2> QED  BY <1>2, <2>3, <2>4
  <1>4. CASE /\ phase = "attach"
             /\ PutApplied(hostId, patch, intent.container, intent.target)
    BY <1>4, AttachLooks, LooksKept
  <1>5. CASE phase = "delete" /\ DeleteApplied(hostId)
    <2>1. /\ intent.container \in Containers \ Running
          /\ hostId \in DOMAIN hosts /\ hosts[hostId].owner = intent.container
          /\ CleanupOnRemove
      BY <1>1, <1>5, RemoveInHand DEF Setting, Aims, DeleteAims, RemovePhases
    <2>2. \A c \in Running : Served(c) => Served(c)'
      BY <1>5, <2>1
      DEF DeleteApplied, Restrict, Served, OwnedBy, containerVars
    <2>3. ~Synced
      BY <2>1, NpmConstants DEF Synced, NoOrphan
    <2> QED  BY <2>2, <2>3
  <1>6. phase \in {"update", "create"}
           => intent.target = target[intent.container]
    BY <1>1, UpsertInHand DEF UpsertPhases
  <1> QED
    BY <1>2, <1>3, <1>4, <1>5, <1>6, TableSteps, UpdateAchieves,
       CreateAchieves

\* In quiet times no step of the service undoes what another has done, also
\* one whose call fails after it was executed: a running container keeps the
\* host it has, and once NPM agrees with Docker nothing that shows changes.
THEOREM SweepsUndoNothing ==
    ASSUME UniqueDomains, "redomain" \notin UserOps
    PROVE  SyncSpec => NeverUndone
  <1>1. SettledInv /\ SettledInv' /\ [SyncNext]_syncVars
           => [Quiet /\ edits' = edits =>
                  /\ \A c \in Running : Served(c) => Served(c)'
                  /\ Synced => SameLook]_hosts
    <2> SUFFICES ASSUME SettledInv, SettledInv', [SyncNext]_syncVars,
                        hosts' # hosts, Quiet, edits' = edits
                 PROVE  /\ \A c \in Running : Served(c) => Served(c)'
                        /\ Synced => SameLook
      OBVIOUS
    <2>1. /\ Setting /\ DeleteAims /\ DomainsDisjoint' /\ QuietFlow
          /\ NpmTypeOK
      BY InvCache DEF SettledInv, Setting, SyncInv, FlowInv, RepairInv
    <2>2. Work
      <3>1. ~Meddle
        BY <2>1, NpmConstants
        DEF Meddle, User, UserEdit, UserCreate, UserDelete, UserDrift,
            UserRedomain, UserAdopt, Edit, NpmTypeOK
      <3>2. SyncNext
        BY DEF syncVars, writerVars, npmVars
      <3> QED
        BY <3>1, <3>2
        DEF SyncNext, Take, Accept, Watch, Reconcile, ReconcilerTask,
            SweepStart, SweepInspect, SweepPlan, SweepSend, ContainerEvent,
            Silent, Reboot, Restart, NoEffect, FaultyNoEffect, writerVars,
            npmVars
    <2>3. Handle /\ UNCHANGED containerVars
      BY <2>1, <2>2
      DEF Work, WriterTask, Seed, SeedFailed, QuietFlow, dockerVars
    <2> QED  BY <2>1, <2>3, HandleUndoesNothing
  <1> QED
    BY <1>1, RepairInvariance, PTL DEF SyncSpec, NeverUndone
=============================================================================
