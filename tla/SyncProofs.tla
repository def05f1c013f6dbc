------------------------------ MODULE SyncProofs ------------------------------
(* Theorems about the service for every value of its constants: its state is  *)
(* well typed, and each of its steps is one of the writer fed with arbitrary  *)
(* intents, so that the theorems of WriterProofs are theorems about it.       *)
EXTENDS Sync, WriterCompleteProofs, SequenceTheorems

\* The inductive invariant: what travels from Docker and NPM through the
\* producers and the channel are events, intents and containers.
SyncInv == WriterInv /\ SyncTypeOK

-----------------------------------------------------------------------------
(* Constants and sequences                                                    *)

\* What is known of the constants.
LEMMA SyncConstants ==
    /\ Capacity \in Nat /\ Capacity > 0
    /\ MaxDockerOps \in Nat /\ MaxBreaks \in Nat /\ MaxDockerFaults \in Nat
    /\ Labeled \subseteq Containers
  BY ChannelAssumption, DockerAssumption

\* The intents for a container are intents.
LEMMA IntentsMade ==
    ASSUME NEW c \in Containers
    PROVE  /\ Remove(c) \in Intent
           /\ \A t \in Targets : Upsert(c, t) \in Intent
  BY DEF Intent

\* A queue stays one when a sender appends to it, within the capacity.
LEMMA SendTyped ==
    ASSUME ChannelTypeOK, NEW i \in Intent, Send(i)
    PROVE  ChannelTypeOK'
  BY SyncConstants DEF ChannelTypeOK, Send

\* What is received is an intent.
LEMMA ReceiveTyped ==
    ASSUME ChannelTypeOK, Receive
    PROVE  Head(queue) \in Intent /\ ChannelTypeOK'
  BY SyncConstants DEF ChannelTypeOK, Receive

\* What is taken from the stream is an event.
LEMMA EventTyped ==
    ASSUME DockerTypeOK, TakeEvent
    PROVE  /\ Head(events) \in Event /\ Head(events).container \in Containers
           /\ DockerTypeOK'
  <1>1. Head(events) \in Event /\ Tail(events) \in Seq(Event)
    BY HeadTailProperties DEF DockerTypeOK, TakeEvent
  <1>2. DockerTypeOK'
    BY <1>1 DEF DockerTypeOK, TakeEvent, containerVars
  <1> QED  BY <1>1, <1>2 DEF Event

\* A failed call is counted.
LEMMA DockerFaultTyped ==
    ASSUME DockerTypeOK, DockerFault,
           UNCHANGED <<containerVars, streamVars, dockerOps, breaks>>
    PROVE  DockerTypeOK'
  BY SyncConstants
  DEF DockerTypeOK, DockerFault, containerVars, streamVars

-----------------------------------------------------------------------------
(* The tasks                                                                  *)

\* The watcher sends intents and keeps Docker's state well typed.
LEMMA WatcherKeeps ==
    ASSUME ChannelTypeOK, DockerTypeOK, WatcherTypeOK, WatcherTask
    PROVE  ChannelTypeOK' /\ DockerTypeOK' /\ WatcherTypeOK'
  <1>1. CASE WatchConnect
    <2>1. ChannelTypeOK' /\ WatcherTypeOK'
      BY <1>1 DEF WatchConnect, Goto, ChannelTypeOK, WatcherTypeOK
    <2>2. CASE Subscribe
      <3>1. events' \in Seq(Event) /\ subscribed' \in BOOLEAN
        BY <2>2, EmptySeq DEF Subscribe
      <3> QED  BY <2>1, <2>2, <3>1 DEF Subscribe, DockerTypeOK, containerVars
    <2>3. CASE /\ DockerFault
               /\ UNCHANGED <<containerVars, streamVars, dockerOps, breaks>>
      BY <2>1, <2>3, DockerFaultTyped
    <2> QED  BY <1>1, <2>1, <2>2, <2>3 DEF WatchConnect
  <1>2. CASE WatchNext
    <2>1. ChannelTypeOK'
      BY <1>2 DEF WatchNext, ChannelTypeOK
    <2>2. Head(events) \in Event /\ DockerTypeOK'
          /\ Remove(Head(events).container) \in Intent
      BY <1>2, EventTyped, IntentsMade DEF WatchNext
    <2>3. \/ Goto("inspect", Head(events))
          \/ Goto("send", Remove(Head(events).container))
      BY <1>2 DEF WatchNext
    <2>4. WatcherTypeOK'
      BY <2>2, <2>3 DEF Goto, WatcherTypeOK
    <2> QED  BY <2>1, <2>2, <2>4
  <1>3. CASE WatchStreamEnd
    BY <1>3
    DEF WatchStreamEnd, ChannelTypeOK, WatcherTypeOK, Delays, DockerTypeOK,
        dockerVars, containerVars, streamVars
  <1>4. CASE WatchBackoff
    <2>1. Longer(delay) \in Delays
      BY DEF WatcherTypeOK, Delays, Longer
    <2> QED
      BY <1>4, <2>1
      DEF WatchBackoff, ChannelTypeOK, WatcherTypeOK, DockerTypeOK,
          dockerVars, containerVars, streamVars
  <1>5. CASE WatchInspect
    <2>1. inHand.container \in Containers
      BY <1>5 DEF WatchInspect, WatcherTypeOK, Event
    <2>2. Upsert(inHand.container, target[inHand.container]) \in Intent
      BY <2>1, IntentsMade DEF DockerTypeOK
    <2>3. ChannelTypeOK'
      BY <1>5 DEF WatchInspect, ChannelTypeOK
    <2>4. WatcherTypeOK'
      BY <1>5, <2>2 DEF WatchInspect, Goto, WatcherTypeOK
    <2>5. \/ UNCHANGED dockerVars
          \/ /\ DockerFault
             /\ UNCHANGED <<containerVars, streamVars, dockerOps, breaks>>
      BY <1>5 DEF WatchInspect
    <2>6. DockerTypeOK'
      BY <2>5, DockerFaultTyped
      DEF dockerVars, containerVars, streamVars, DockerTypeOK
    <2> QED  BY <2>3, <2>4, <2>6
  <1>6. CASE WatchSend
    <2>1. ChannelTypeOK'
      BY <1>6, SendTyped DEF WatchSend, WatcherTypeOK
    <2>2. WatcherTypeOK'
      BY <1>6 DEF WatchSend, Goto, WatcherTypeOK
    <2>3. DockerTypeOK'
      BY <1>6 DEF WatchSend, dockerVars, containerVars, streamVars, DockerTypeOK
    <2> QED  BY <2>1, <2>2, <2>3
  <1> QED  BY <1>1, <1>2, <1>3, <1>4, <1>5, <1>6 DEF WatcherTask

\* What a plan removes are hosts of containers.
LEMMA PlanTyped ==
    ASSUME NpmTypeOK
    PROVE  Unlisted \subseteq (1 .. MaxHostId) \X Containers
  BY NpmConstants DEF NpmTypeOK, Unlisted, Host

\* So does the reconciler, and it leaves NPM as it is, a failed call apart.
LEMMA ReconcilerKeeps ==
    ASSUME NpmTypeOK, ChannelTypeOK, DockerTypeOK, ReconcilerTypeOK,
           ReconcilerTask
    PROVE  /\ ChannelTypeOK' /\ DockerTypeOK' /\ ReconcilerTypeOK'
           /\ NoEffect \/ FaultyNoEffect
  <1>1. CASE SweepStart
    <2>1. ChannelTypeOK' /\ NoEffect
      BY <1>1 DEF SweepStart, ChannelTypeOK
    <2>2. ReconcilerTypeOK'
      BY <1>1, SyncConstants
      DEF SweepStart, SweepFailed, ReconcilerTypeOK, Running
    <2>3. /\ UNCHANGED <<containerVars, streamVars, dockerOps, breaks>>
          /\ UNCHANGED dockerFaults \/ DockerFault
      BY <1>1 DEF SweepStart
    <2>4. DockerTypeOK'
      BY <2>3, DockerFaultTyped DEF containerVars, streamVars, DockerTypeOK
    <2> QED  BY <2>1, <2>2, <2>4
  <1>2. CASE SweepInspect
    <2>1. ChannelTypeOK' /\ NoEffect
      BY <1>2 DEF SweepInspect, ChannelTypeOK
    <2>2. PICK c \in todo :
             /\ todo' = todo \ {c}
             /\ \/ specs' = specs \cup {Upsert(c, target[c])}
                \/ UNCHANGED specs
             /\ UNCHANGED dockerFaults \/ DockerFault
      BY <1>2 DEF SweepInspect
    <2>3. Upsert(c, target[c]) \in Intent
      BY <2>2, IntentsMade DEF ReconcilerTypeOK, DockerTypeOK
    <2>4. ReconcilerTypeOK'
      BY <1>2, <2>2, <2>3 DEF SweepInspect, ReconcilerTypeOK
    <2>5. DockerTypeOK'
      BY <1>2, <2>2, DockerFaultTyped
      DEF SweepInspect, containerVars, streamVars, DockerTypeOK
    <2> QED  BY <2>1, <2>4, <2>5
  <1>3. CASE SweepPlan
    <2>1. ReconcilerTypeOK'
      BY <1>3, PlanTyped
      DEF SweepPlan, AfterPlan, SweepFailed, ReconcilerTypeOK
    <2> QED
      BY <1>3, <2>1
      DEF SweepPlan, ChannelTypeOK, dockerVars, containerVars, streamVars,
          DockerTypeOK
  <1>4. CASE SweepSend
    <2>1. DockerTypeOK' /\ NoEffect
      BY <1>4
      DEF SweepSend, dockerVars, containerVars, streamVars, DockerTypeOK
    <2>2. CASE \E i \in specs : Send(i) /\ AfterPlan(specs \ {i}, orphans)
      BY <2>1, <2>2, SendTyped DEF ReconcilerTypeOK, AfterPlan
    <2>3. CASE \E o \in orphans :
                  Send(Remove(o[2])) /\ AfterPlan({}, orphans \ {o})
      <3>1. PICK o \in orphans :
               Send(Remove(o[2])) /\ AfterPlan({}, orphans \ {o})
        BY <2>3
      <3>2. Remove(o[2]) \in Intent
        BY IntentsMade DEF ReconcilerTypeOK
      <3> QED  BY <2>1, <3>1, <3>2, SendTyped DEF ReconcilerTypeOK, AfterPlan
    <2> QED  BY <1>4, <2>2, <2>3 DEF SweepSend
  <1> QED  BY <1>1, <1>2, <1>3, <1>4 DEF ReconcilerTask

-----------------------------------------------------------------------------
(* Docker and its stream                                                      *)

\* Whatever happens to containers, and breaks of the stream.
LEMMA ContainersKeep ==
    ASSUME DockerTypeOK,
           \/ \E c \in Containers :
                 Start(c) \/ Die(c) \/ Destroy(c) \/ Rename(c)
           \/ StreamBreak
    PROVE  DockerTypeOK'
  <1>1. CASE \E c \in Containers : Start(c) \/ Die(c) \/ Destroy(c) \/ Rename(c)
    <2>1. PICK c \in Containers : Start(c) \/ Die(c) \/ Destroy(c) \/ Rename(c)
      BY <1>1
    <2>2. DockerOp
      BY <2>1 DEF Start, Die, Destroy, Rename
    <2>3. /\ dockerOps' \in 0 .. MaxDockerOps
          /\ UNCHANGED <<subscribed, breaks, dockerFaults>>
      BY <2>2, SyncConstants DEF DockerOp, DockerTypeOK
    <2>4. events' \in Seq(Event)
      <3>1. \A k \in {"start", "die", "destroy"} :
               [kind |-> k, container |-> c] \in Event
        BY DEF Event
      <3>2. events \in Seq(Event)
        BY DEF DockerTypeOK
      <3>3. \A e \in Event : Append(events, e) \in Seq(Event)
        BY <3>2, AppendProperties
      <3> QED
        BY <2>1, <3>1, <3>2, <3>3 DEF Start, Die, Destroy, Rename, Report
    <2>5. /\ status' \in [Containers -> {"created", "up", "exited", "removed"}]
          /\ target' \in [Containers -> Targets]
      BY <2>1 DEF Start, Die, Destroy, Rename, DockerTypeOK
    <2> QED  BY <2>3, <2>4, <2>5 DEF DockerTypeOK
  <1>2. CASE StreamBreak
    <2>1. PICK n \in 0 .. Len(events) : events' = SubSeq(events, 1, n)
      BY <1>2 DEF StreamBreak
    <2>2. events \in Seq(Event) /\ n \in Int /\ n <= Len(events)
      BY <2>1, LenProperties DEF DockerTypeOK
    <2>3. \A i \in 1 .. n : events[i] \in Event
      BY <2>2, ElementOfSeq
    <2>4. events' \in Seq(Event)
      BY <2>1, <2>2, <2>3, SubSeqProperties
    <2>5. breaks' \in 0 .. MaxBreaks
      BY <1>2, SyncConstants DEF StreamBreak, DockerTypeOK
    <2> QED
      BY <1>2, <2>4, <2>5
      DEF StreamBreak, DockerTypeOK, containerVars
  <1> QED  BY <1>1, <1>2

-----------------------------------------------------------------------------
(* History                                                                    *)

HistoryOK ==
    /\ calm \in 0 .. 2
    /\ clean \in BOOLEAN
    /\ excuse \subseteq {"lost", "raced", "overlap"}
    /\ missed \subseteq Containers

\* What is missed are containers.
LEMMA OverlookTyped ==
    ASSUME HistoryOK, ReconcilerTypeOK, Overlook
    PROVE  missed' \subseteq Containers
  BY DEF HistoryOK, ReconcilerTypeOK, Overlook, Unseen

\* Disturbances and observations keep the history well typed.
LEMMA DisturbTyped ==
    ASSUME HistoryOK, ReconcilerTypeOK,
           NEW r \in SUBSET {"lost", "raced", "overlap"}, Disturb(r)
    PROVE  HistoryOK'
  <1>1. calm' = 0 /\ clean' = FALSE /\ excuse' = excuse \cup r
    BY DEF Disturb
  <1>2. calm' \in 0 .. 2
    BY <1>1
  <1>3. clean' \in BOOLEAN
    BY <1>1
  <1>4. excuse' \subseteq {"lost", "raced", "overlap"}
    BY <1>1 DEF HistoryOK
  <1>5. missed' \subseteq Containers
    BY OverlookTyped DEF Disturb
  <1> QED  BY <1>2, <1>3, <1>4, <1>5 DEF HistoryOK

\* History variables keep their types.
LEMMA ObserveTyped ==
    ASSUME HistoryOK, ReconcilerTypeOK, Observe
    PROVE  HistoryOK'
  <1>1. CASE CallFailed
    BY <1>1, DisturbTyped DEF Observe
  <1>2. CASE ~CallFailed
    <2>1. calm' \in 0 .. 2 /\ UNCHANGED excuse
      BY <1>2 DEF Observe, HistoryOK
    <2>2. clean' \in BOOLEAN
      BY <1>2 DEF Observe, HistoryOK, Drained
    <2>3. missed' \subseteq Containers
      BY <1>2, OverlookTyped DEF Observe
    <2> QED  BY <2>1, <2>2, <2>3 DEF HistoryOK
  <1> QED  BY <1>1, <1>2

-----------------------------------------------------------------------------
(* The service                                                                *)

\* Each step of the service is a step of the open writer, or leaves the writer
\* and NPM alone: nobody else changes NPM, and only intents are received.
LEMMA StepSimulates ==
    SyncInv /\ [SyncNext]_syncVars => [WriterNext]_writerVars
  <1> SUFFICES ASSUME SyncInv, [SyncNext]_syncVars
               PROVE  [WriterNext]_writerVars
    OBVIOUS
  <1>1. CASE Work
    BY <1>1 DEF Work, WriterNext
  <1>2. CASE Take
    BY <1>2, ReceiveTyped DEF Take, SyncInv, SyncTypeOK, WriterNext
  <1>3. CASE Reconcile
    <2>1. NoEffect \/ FaultyNoEffect
      BY <1>3, ReconcilerKeeps
      DEF Reconcile, SyncInv, SyncTypeOK, WriterTypeOK
    <2> QED
      BY <1>3, <2>1
      DEF Reconcile, NoEffect, OtherFault, WriterNext, writerVars
  <1>4. CASE Meddle \/ Reboot
    BY <1>4 DEF Meddle, Reboot, WriterNext
  <1>5. CASE Watch \/ ContainerEvent \/ Silent \/ UNCHANGED syncVars
    BY <1>5 DEF Watch, ContainerEvent, Silent, syncVars
  <1> QED  BY <1>1, <1>2, <1>3, <1>4, <1>5 DEF SyncNext

\* Types are kept, one case per action of SyncNext.
LEMMA SyncStepTyped ==
    SyncInv /\ [SyncNext]_syncVars => SyncInv'
  <1> SUFFICES ASSUME SyncInv, [SyncNext]_syncVars PROVE SyncInv'
    OBVIOUS
  <1>0. WriterInv' /\ WriterTypeOK'
    BY StepSimulates, StepInv DEF SyncInv, WriterInv
  <1>a. /\ NpmTypeOK /\ ChannelTypeOK /\ DockerTypeOK /\ WatcherTypeOK
        /\ ReconcilerTypeOK /\ HistoryOK
    BY DEF SyncInv, SyncTypeOK, WriterTypeOK, HistoryOK
  <1> SUFFICES /\ ChannelTypeOK' /\ DockerTypeOK' /\ WatcherTypeOK'
               /\ ReconcilerTypeOK' /\ HistoryOK'
    BY <1>0 DEF SyncInv, SyncTypeOK, HistoryOK
  <1>b. UNCHANGED queue => ChannelTypeOK'
    BY <1>a DEF ChannelTypeOK
  <1>c. UNCHANGED dockerVars => DockerTypeOK'
    BY <1>a DEF dockerVars, containerVars, streamVars, DockerTypeOK
  <1>d. UNCHANGED watchVars => WatcherTypeOK'
    BY <1>a DEF watchVars, WatcherTypeOK
  <1>e. UNCHANGED sweepVars => ReconcilerTypeOK'
    BY <1>a DEF sweepVars, ReconcilerTypeOK
  <1>1. CASE Work
    BY <1>1, <1>a, <1>b, <1>c, <1>d, <1>e, ObserveTyped DEF Work
  <1>2. CASE Take
    BY <1>2, <1>a, <1>c, <1>d, <1>e, ReceiveTyped, ObserveTyped DEF Take
  <1>3. CASE Watch
    BY <1>3, <1>a, <1>e, WatcherKeeps, ObserveTyped DEF Watch
  <1>4. CASE Reconcile
    BY <1>4, <1>a, <1>d, ReconcilerKeeps, ObserveTyped DEF Reconcile
  <1>5. CASE ContainerEvent
    <2>1. PICK c \in Containers :
             (Start(c) \/ Die(c) \/ Destroy(c)) /\ Disturb(Excuses(c))
      BY <1>5 DEF ContainerEvent
    <2>2. HistoryOK'
      BY <1>a, <2>1, DisturbTyped DEF Excuses
    <2> QED
      BY <1>5, <1>a, <1>b, <1>d, <1>e, <2>1, <2>2, ContainersKeep
      DEF ContainerEvent
  <1>6. CASE Silent
    BY <1>6, <1>a, <1>b, <1>d, <1>e, ContainersKeep, DisturbTyped DEF Silent
  <1>7. CASE Meddle
    BY <1>7, <1>a, <1>b, <1>c, <1>d, <1>e, DisturbTyped DEF Meddle
  <1>8. CASE Reboot
    <2>1. ChannelTypeOK'
      BY <1>8, SyncConstants DEF Reboot, ChannelTypeOK
    <2>2. DockerTypeOK'
      <3>1. events' \in Seq(Event) /\ subscribed' \in BOOLEAN
        BY <1>8, EmptySeq DEF Reboot
      <3> QED  BY <1>8, <1>a, <3>1 DEF Reboot, DockerTypeOK, containerVars
    <2>3. WatcherTypeOK' /\ ReconcilerTypeOK'
      BY <1>8 DEF Reboot, WatcherTypeOK, Delays, ReconcilerTypeOK
    <2> QED  BY <1>8, <1>a, <2>1, <2>2, <2>3, DisturbTyped DEF Reboot
  <1>9. CASE UNCHANGED syncVars
    BY <1>9, <1>a, <1>b, <1>c, <1>d, <1>e DEF syncVars, history, HistoryOK
  <1> QED
    BY <1>1, <1>2, <1>3, <1>4, <1>5, <1>6, <1>7, <1>8, <1>9 DEF SyncNext

\* The invariant holds when the service first starts.
LEMMA SyncInitInv == SyncInit => SyncInv
  <1> SUFFICES ASSUME SyncInit PROVE SyncInv
    OBVIOUS
  <1>1. WriterInv /\ WriterTypeOK
    BY InitInv DEF SyncInit, WriterInv
  <1>2. ChannelTypeOK
    BY SyncConstants DEF SyncInit, ChannelInit, ChannelTypeOK
  <1>3. DockerTypeOK
    <2>1. events \in Seq(Event) /\ subscribed \in BOOLEAN
      BY EmptySeq DEF SyncInit, DockerInit
    <2>2. /\ dockerOps \in 0 .. MaxDockerOps /\ breaks \in 0 .. MaxBreaks
          /\ dockerFaults \in 0 .. MaxDockerFaults
      BY SyncConstants DEF SyncInit, DockerInit
    <2> QED  BY <2>1, <2>2 DEF SyncInit, DockerInit, DockerTypeOK
  <1>4. WatcherTypeOK
    BY DEF SyncInit, WatcherInit, WatcherTypeOK, Delays
  <1>5. ReconcilerTypeOK
    BY DEF SyncInit, ReconcilerInit, ReconcilerTypeOK
  <1>6. calm \in 0 .. 2 /\ excuse = {} /\ missed = {}
    BY DEF SyncInit
  <1>7. clean \in BOOLEAN
    BY DEF SyncInit
  <1> QED
    BY <1>1, <1>2, <1>3, <1>4, <1>5, <1>6, <1>7 DEF SyncInv, SyncTypeOK

\* The inductive invariant holds in every reachable state.
LEMMA SyncInvariance == SyncSpec => []SyncInv
  BY SyncInitInv, SyncStepTyped, PTL DEF SyncSpec

\* Every variable of the service keeps its type; in particular the channel
\* never holds more than its capacity, and nothing but intents.
THEOREM ServiceTyped == SyncSpec => []SyncTypeOK
  <1>1. SyncInv => SyncTypeOK
    BY DEF SyncInv
  <1> QED  BY <1>1, SyncInvariance, PTL

\* The service implements the open writer: its producers can make the writer
\* do nothing that arbitrary intents could not.
THEOREM ServiceIsWriter == SyncSpec => WriterSpec
  <1>1. SyncInit => WriterInit
    BY DEF SyncInit
  <1> QED
    BY <1>1, StepSimulates, SyncInvariance, PTL DEF SyncSpec, WriterSpec

\* In the service, too, only hosts marked for the container in hand are
\* changed or deleted.
THEOREM ServiceTouchesOnlyOwn ==
    ASSUME ~AdoptRaces
    PROVE  SyncSpec => TouchesOnlyOwn
  BY ServiceIsWriter, OwnershipRespected, PTL

\* In the service, too, a container has one host at most, and remove() can
\* find every host there is, whatever events and sweeps are lost or late.
THEOREM ServiceKnowsAll ==
    ASSUME ~LostResponses, "redomain" \notin UserOps
    PROVE  SyncSpec => [](OneHostPerContainer /\ CacheComplete)
  BY ServiceIsWriter, NeverTwoHosts, CacheKnowsAll, PTL

-----------------------------------------------------------------------------
(* What a sweep removes                                                       *)

\* A sweep knows every running container: it is still to be inspected, its
\* spec is there, or it has been missed.
SweepCovers ==
    sweep = "inspect" => Running \subseteq todo \cup Alive \cup missed

\* Every step keeps account of what is missed.
LEMMA StepOverlooks ==
    ASSUME SyncNext
    PROVE  Overlook
  <1>1. \A reasons : Disturb(reasons) => Overlook
    BY DEF Disturb
  <1>2. Observe => Overlook
    BY <1>1 DEF Observe
  <1> QED
    BY <1>1, <1>2
    DEF SyncNext, Work, Take, Watch, Reconcile, ContainerEvent, Silent,
        Meddle, Reboot

\* While a sweep inspects, only an inspection changes what it holds.
LEMMA InspectingSteps ==
    ASSUME SyncNext, sweep = "inspect", sweep' = "inspect"
    PROVE  SweepInspect \/ UNCHANGED <<todo, specs>>
  <1>1. CASE Reconcile
    <2>1. ~SweepStart /\ ~SweepSend
      BY DEF SweepStart, SweepSend
    <2>2. ~SweepPlan
      BY DEF SweepPlan, AfterPlan, SweepFailed
    <2> QED  BY <1>1, <2>1, <2>2 DEF Reconcile, ReconcilerTask
  <1>2. CASE Reboot
    BY <1>2 DEF Reboot
  <1>3. CASE Work \/ Take \/ Watch \/ ContainerEvent \/ Silent \/ Meddle
    BY <1>3
    DEF Work, Take, Watch, ContainerEvent, Silent, Meddle, sweepVars
  <1> QED  BY <1>1, <1>2, <1>3 DEF SyncNext

\* A container that is inspected has its spec, does not run, or is missed.
LEMMA InspectCovers ==
    ASSUME DockerTypeOK, SweepCovers, SweepInspect, Overlook
    PROVE  SweepCovers'
  <1>1. PICK c \in todo :
           /\ todo' = todo \ {c}
           /\ \/ /\ specs' = specs \cup {Upsert(c, target[c])}
                 /\ UNCHANGED dockerFaults
              \/ ~Exists(c) /\ UNCHANGED <<specs, dockerFaults>>
              \/ DockerFault /\ UNCHANGED specs
    BY DEF SweepInspect
  <1>2. /\ Running' = Running /\ sweep = "inspect"
        /\ \E unseen \in Unseen : missed' = missed \cup unseen
    BY DEF SweepInspect, Running, containerVars, Overlook
  <1>3. Running \subseteq todo \cup Alive \cup missed
    BY <1>2 DEF SweepCovers
  <1>4. CASE specs' = specs \cup {Upsert(c, target[c])}
    <2>1. Upsert(c, target[c]).container = c
      BY DEF Upsert
    <2>2. Alive' = Alive \cup {c}
      BY <1>4, <2>1 DEF Alive
    <2> QED  BY <1>1, <1>2, <1>3, <2>2 DEF SweepCovers
  <1>5. CASE specs' = specs /\ (~Exists(c) \/ DockerFault)
    <2>1. Alive' = Alive
      BY <1>5 DEF Alive
    <2>2. CASE ~Exists(c)
      <3>1. c \notin Running
        BY <2>2 DEF Exists, Running
      <3> QED  BY <1>1, <1>2, <1>3, <2>1, <3>1 DEF SweepCovers
    <2>3. CASE DockerFault
      <3>1. dockerFaults' # dockerFaults
        BY <2>3, SyncConstants DEF DockerFault, DockerTypeOK
      <3>2. todo' # todo /\ todo \ todo' = {c}
        BY <1>1
      <3>3. c \in missed'
        BY <1>2, <3>1, <3>2 DEF Unseen
      <3> QED  BY <1>1, <1>2, <1>3, <2>1, <3>3 DEF SweepCovers
    <2> QED  BY <1>5, <2>2, <2>3
  <1> QED  BY <1>1, <1>4, <1>5

\* A container that comes to run while others are inspected is missed.
LEMMA OthersCover ==
    ASSUME DockerTypeOK, SweepCovers, Overlook, sweep = "inspect",
           sweep' = "inspect", UNCHANGED <<todo, specs>>
    PROVE  SweepCovers'
  <1>1. /\ missed' = missed \cup {c \in Containers : status'[c] # status[c]}
        /\ Alive' = Alive
    BY DEF Overlook, Unseen, Alive
  <1>2. ASSUME NEW c \in Running'
        PROVE  c \in todo \cup Alive \cup missed'
    <2>1. c \in Labeled /\ c \in Containers /\ status'[c] = "up"
      BY <1>2, DockerAssumption DEF Running
    <2>2. CASE status'[c] = status[c]
      <3>1. c \in Running
        BY <2>1, <2>2 DEF Running
      <3> QED  BY <1>1, <3>1 DEF SweepCovers
    <2>3. CASE status'[c] # status[c]
      BY <1>1, <2>1, <2>3
    <2> QED  BY <2>2, <2>3
  <1> QED  BY <1>1, <1>2 DEF SweepCovers

\* Every step keeps it.
LEMMA StepCovers ==
    SyncInv /\ SweepCovers /\ [SyncNext]_syncVars => SweepCovers'
  <1> SUFFICES ASSUME SyncInv, SweepCovers, [SyncNext]_syncVars
               PROVE  SweepCovers'
    OBVIOUS
  <1> DockerTypeOK
    BY DEF SyncInv, SyncTypeOK
  <1>1. CASE UNCHANGED syncVars
    BY <1>1
    DEF syncVars, history, sweepVars, dockerVars, containerVars, SweepCovers,
        Running, Alive
  <1>2. CASE SyncNext /\ sweep' # "inspect"
    BY <1>2 DEF SweepCovers
  <1>3. CASE SyncNext /\ sweep = "inspect" /\ sweep' = "inspect"
    BY <1>3, StepOverlooks, InspectingSteps, InspectCovers, OthersCover
  <1>4. CASE SyncNext /\ sweep # "inspect" /\ sweep' = "inspect"
    <2>1. Reconcile
      BY <1>4
      DEF SyncNext, Work, Take, Watch, ContainerEvent, Silent, Meddle, Reboot,
          sweepVars
    <2>2. SweepStart
      BY <1>4, <2>1
      DEF Reconcile, ReconcilerTask, SweepInspect, SweepPlan, SweepSend,
          AfterPlan, SweepFailed
    <2>3. todo' = Running /\ Running' = Running
      BY <1>4, <2>2 DEF SweepStart, SweepFailed, Running, containerVars
    <2> QED  BY <2>3 DEF SweepCovers
  <1> QED  BY <1>1, <1>2, <1>3, <1>4

\* A plan made of all inspections has Removes for the missing and the missed.
LEMMA StepPlans ==
    SyncInv /\ SweepCovers /\ [SyncNext]_syncVars
        => [sweep = "inspect" =>
               \A o \in orphans' : o[2] \in Running => o[2] \in missed]_sweep
  <1> SUFFICES ASSUME SweepCovers, SyncNext, sweep' # sweep,
                      sweep = "inspect", NEW o \in orphans',
                      o[2] \in Running
               PROVE  o[2] \in missed
    BY DEF syncVars, sweepVars
  <1>1. CASE Reconcile
    <2>1. CASE SweepPlan
      <3>1. orphans' = Unlisted /\ todo = {}
        BY <2>1 DEF SweepPlan, AfterPlan, SweepFailed
      <3>2. o[2] \notin Alive
        BY <3>1 DEF Unlisted
      <3> QED  BY <3>1, <3>2 DEF SweepCovers
    <2>2. CASE SweepStart \/ SweepInspect \/ SweepSend
      BY <2>2 DEF SweepStart, SweepInspect, SweepSend
    <2> QED  BY <1>1, <2>1, <2>2 DEF Reconcile, ReconcilerTask
  <1>2. CASE Reboot
    BY <1>2 DEF Reboot
  <1>3. CASE Work \/ Take \/ Watch \/ ContainerEvent \/ Silent \/ Meddle
    BY <1>3
    DEF Work, Take, Watch, ContainerEvent, Silent, Meddle, sweepVars
  <1> QED  BY <1>1, <1>2, <1>3 DEF SyncNext

\* Whatever fails or changes during a sweep, no plan removes the host of a
\* running container but one that itself changed or could not be inspected
\* (plan.rs:9, 18).
THEOREM SweepsRemoveTheMissing == SyncSpec => RemovesUnlisted
  <1>1. SyncInit => SweepCovers
    BY DEF SyncInit, ReconcilerInit, SweepCovers
  <1>2. SyncSpec => []SweepCovers
    BY <1>1, StepCovers, SyncInvariance, PTL DEF SyncSpec
  <1> QED
    BY <1>2, StepPlans, SyncInvariance, PTL DEF SyncSpec, RemovesUnlisted
=============================================================================
