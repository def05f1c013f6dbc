-------------------------------- MODULE Watcher --------------------------------
(* docker/watcher.rs: the task that turns container events into intents.  The *)
(* event is taken, the container is inspected and the intent is sent in three *)
(* steps, with anything in between.                                           *)
EXTENDS Docker, Channel

VARIABLES
    watch,      \* where the task is
    inHand,     \* the event being handled, or the intent being sent
    delay       \* backoff before the next reconnect, in seconds

watchVars == <<watch, inHand, delay>>

Delays == {1, 4, 16, 60}

WatcherTypeOK ==
    /\ watch \in {"connect", "next", "inspect", "send", "backoff"}
    /\ inHand \in Event \cup Intent \cup {NoIntent}
    /\ watch = "inspect" => inHand \in Event
    /\ watch = "send" => inHand \in Intent
    /\ delay \in Delays

WatcherInit ==
    /\ watch = "connect"
    /\ inHand = NoIntent
    /\ delay = 1

Goto(step, what) == watch' = step /\ inHand' = what /\ UNCHANGED delay

Longer(d) == IF d * 4 > 60 THEN 60 ELSE d * 4

\* The first poll of the stream connects it.
WatchConnect ==
    /\ watch = "connect"
    /\ \/ Subscribe /\ Goto("next", NoIntent)
       \/ /\ DockerFault /\ Goto("backoff", NoIntent)
          /\ UNCHANGED <<containerVars, streamVars, dockerOps, breaks>>
    /\ UNCHANGED queue

\* Broken: die is not handled, as if destroy would always follow.
NextWithoutDie ==
    /\ watch = "next"
    /\ TakeEvent
    /\ LET e == Head(events) IN
          CASE e.kind = "start"   -> Goto("inspect", e)
            [] e.kind = "die"     -> Goto("next", NoIntent)
            [] e.kind = "destroy" -> Goto("send", Remove(e.container))
    /\ UNCHANGED queue

\* start is inspected; die and destroy become a Remove at once.
WatchNext ==
    /\ watch = "next"
    /\ TakeEvent
    /\ LET e == Head(events) IN
          IF e.kind = "start"
          THEN Goto("inspect", e)
          ELSE Goto("send", Remove(e.container))
    /\ UNCHANGED queue

\* A stream that ends is reopened at once and resets the backoff; one that
\* fails is reopened after the backoff.
WatchStreamEnd ==
    /\ watch = "next"
    /\ events = << >> /\ ~subscribed
    /\ \/ watch' = "connect" /\ delay' = 1
       \/ watch' = "backoff" /\ UNCHANGED delay
    /\ UNCHANGED <<inHand, queue, dockerVars>>

WatchBackoff ==
    /\ watch = "backoff"
    /\ watch' = "connect"
    /\ delay' = Longer(delay)
    /\ UNCHANGED <<inHand, queue, dockerVars>>

\* build_spec(): a failed inspect and labels without a spec are dropped.
WatchInspect ==
    /\ watch = "inspect"
    /\ LET c == inHand.container IN
       \/ /\ Exists(c) /\ c \in Labeled
          /\ Goto("send", Upsert(c, target[c]))
          /\ UNCHANGED dockerVars
       \/ /\ ~(Exists(c) /\ c \in Labeled)
          /\ Goto("next", NoIntent)
          /\ UNCHANGED dockerVars
       \/ /\ DockerFault /\ Goto("next", NoIntent)
          /\ UNCHANGED <<containerVars, streamVars, dockerOps, breaks>>
    /\ UNCHANGED queue

WatchSend ==
    /\ watch = "send"
    /\ Send(inHand)
    /\ Goto("next", NoIntent)
    /\ UNCHANGED dockerVars

WatcherTask == \/ WatchConnect \/ WatchNext \/ WatchStreamEnd
               \/ WatchBackoff \/ WatchInspect \/ WatchSend
=============================================================================
