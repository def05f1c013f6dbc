------------------------------- MODULE Lifecycle -------------------------------
(* main.rs from start to exit, with the three tasks as far as their loops and *)
(* select!s decide when they end.  What they say to NPM is in Sync; here a    *)
(* handler, a sweep or an inspect is one stay outside, from which the task    *)
(* may not come back in time.                                                 *)
EXTENDS Config

CONSTANTS
    Files,      \* configuration files of this instance
    Domains,    \* domains a certificate is asked for
    Capacity,   \* of the channel
    MaxPlan     \* bound on the intents of a sweep

ASSUME LifecycleAssumption ==
    /\ \A d \in Domains : d \in Seq(STRING) /\ d # << >>
    /\ Capacity \in Nat \ {0} /\ MaxPlan \in Nat

VARIABLES
    main,       \* where main() is, or how the process ended
    given,      \* <<file, environment>> until the configuration is used
    quick,      \* calls to NPM and Docker return well within ten seconds
    queued,     \* intents in the channel
    writer, recon, watch,   \* where the tasks are
    plan        \* intents the sweep still has to send

setup == <<given, quick>>
vars  == <<main, setup, queued, writer, recon, watch, plan>>

LifecycleTypeOK ==
    /\ main \in {"start", "loaded", "running", "joining",
                 "failed", "ended", "abandoned"}
    /\ given = << >> \/ given \in Files \X SUBSET Variable
    /\ quick \in BOOLEAN
    /\ queued \in 0 .. Capacity
    /\ writer \in {"none", "busy", "select", "done"}
    /\ recon \in {"none", "sweep", "send", "wait", "done"}
    /\ watch \in {"none", "top", "stream", "inspect", "send", "backoff", "done"}
    /\ plan \in 0 .. MaxPlan

LifecycleInit ==
    /\ main = "start"
    /\ given \in Files \X SUBSET Variable
    /\ quick = FALSE
    /\ queued = 0 /\ plan = 0
    /\ writer = "none" /\ recon = "none" /\ watch = "none"

-----------------------------------------------------------------------------
(* Startup                                                                    *)

tasks == <<queued, writer, recon, watch, plan>>

Load ==
    /\ main = "start"
    /\ IF Accepted(given[1], given[2])
       THEN main' = "loaded" /\ UNCHANGED given
       ELSE main' = "failed" /\ given' = << >>
    /\ UNCHANGED <<quick, tasks>>

\* The metrics port is taken, NPM refuses the login or Docker has no socket.
ConnectFailed ==
    /\ main = "loaded"
    /\ main' = "failed"
    /\ given' = << >>
    /\ UNCHANGED <<quick, tasks>>

\* Both clients are there and the tasks are spawned, the writer seeding its
\* cache and the reconciler in its first sweep.
Spawn ==
    /\ main = "loaded"
    /\ main' = "running"
    /\ given' = << >>
    /\ quick' \in BOOLEAN
    /\ writer' = "busy" /\ recon' = "sweep" /\ watch' = "top"
    /\ UNCHANGED <<queued, plan>>

-----------------------------------------------------------------------------
(* The writer: a select! between the cancellation and the channel             *)

Alive     == main \in {"running", "joining"}
Cancelled == main = "joining"

WriterReturns ==
    /\ Alive /\ writer = "busy"
    /\ writer' = "select"
    /\ UNCHANGED <<main, setup, queued, recon, watch, plan>>

\* The receiver goes, and with it what it has not received.
WriterCancelled ==
    /\ Cancelled /\ writer = "select"
    /\ writer' = "done" /\ queued' = 0
    /\ UNCHANGED <<main, setup, recon, watch, plan>>

\* A Remove for a container it does not know needs no call.
WriterReceives ==
    /\ Alive /\ writer = "select"
    /\ queued > 0
    /\ queued' = queued - 1
    /\ writer' \in {"busy", "select"}
    /\ UNCHANGED <<main, setup, recon, watch, plan>>

\* recv() is None when both senders are gone.
WriterHungUp ==
    /\ Alive /\ writer = "select"
    /\ queued = 0 /\ recon = "done" /\ watch = "done"
    /\ writer' = "done"
    /\ UNCHANGED <<main, setup, queued, recon, watch, plan>>

-----------------------------------------------------------------------------
(* Sending: waits while the channel is full, fails when the receiver is gone, *)
(* and the failure is ignored.                                                *)

\* Broken: the channel has no limit.
DeliverUnbounded ==
    \/ writer # "done" /\ queued' = queued + 1
    \/ writer = "done" /\ UNCHANGED queued

\* Broken: a send to a receiver that is gone waits for ever.
DeliverOpen ==
    /\ writer # "done"
    /\ queued < Capacity
    /\ queued' = queued + 1

Deliver ==
    \/ /\ writer # "done"
       /\ queued < Capacity
       /\ queued' = queued + 1
    \/ writer = "done" /\ UNCHANGED queued

-----------------------------------------------------------------------------
(* The reconciler: cancellation is looked at between sweeps only              *)

SweepReturns ==
    /\ Alive /\ recon = "sweep"
    /\ plan' \in 0 .. MaxPlan
    /\ recon' = IF plan' = 0 THEN "wait" ELSE "send"
    /\ UNCHANGED <<main, setup, queued, writer, watch>>

SweepSends ==
    /\ Alive /\ recon = "send"
    /\ Deliver
    /\ plan' = plan - 1
    /\ recon' = IF plan' = 0 THEN "wait" ELSE "send"
    /\ UNCHANGED <<main, setup, writer, watch>>

ReconCancelled ==
    /\ Cancelled /\ recon = "wait"
    /\ recon' = "done"
    /\ UNCHANGED <<main, setup, queued, writer, watch, plan>>

\* The interval may be over at the moment of the cancellation, and with an
\* interval of 0 always is.
ReconTimer ==
    /\ Alive /\ recon = "wait"
    /\ recon' = "sweep"
    /\ UNCHANGED <<main, setup, queued, writer, watch, plan>>

-----------------------------------------------------------------------------
(* The watcher: cancellation is looked at on the way to the stream, with each *)
(* event and while backing off                                                *)

WatchGoes(step) ==
    /\ watch' = step
    /\ UNCHANGED <<main, setup, writer, recon, plan>>

WatchTop ==
    /\ Alive /\ watch = "top"
    /\ WatchGoes(IF Cancelled THEN "done" ELSE "stream")
    /\ UNCHANGED queued

\* start, die or destroy, or another event; the stream's end or its error.
WatchStream ==
    /\ Alive /\ watch = "stream"
    /\ \/ Cancelled /\ WatchGoes("top")
       \/ ~Cancelled /\ \E s \in {"inspect", "send", "stream"} : WatchGoes(s)
       \/ \E s \in {"top", "backoff"} : WatchGoes(s)
    /\ UNCHANGED queued

WatchInspected ==
    /\ Alive /\ watch = "inspect"
    /\ \E s \in {"send", "stream"} : WatchGoes(s)
    /\ UNCHANGED queued

WatchSends ==
    /\ Alive /\ watch = "send"
    /\ Deliver
    /\ WatchGoes("stream")

WatchCancelled ==
    /\ Cancelled /\ watch = "backoff"
    /\ WatchGoes("done")
    /\ UNCHANGED queued

WatchTimer ==
    /\ Alive /\ watch = "backoff"
    /\ WatchGoes("top")
    /\ UNCHANGED queued

-----------------------------------------------------------------------------
(* Shutdown                                                                   *)

\* Steps that wait for nothing outside the process take no time to speak of.
Prompt == \/ WriterCancelled \/ WriterReceives \/ WriterHungUp
          \/ SweepSends \/ ReconCancelled
          \/ WatchTop \/ WatchSends \/ WatchCancelled

Returns == WriterReturns \/ SweepReturns \/ WatchInspected

\* SIGTERM or ctrl-c.
Shutdown ==
    /\ main = "running"
    /\ main' = "joining"
    /\ UNCHANGED <<setup, tasks>>

AllDone == writer = "done" /\ recon = "done" /\ watch = "done"

\* Broken: main waits for the tasks without a limit.
JoinUnlimited ==
    /\ main = "joining"
    /\ AllDone
    /\ main' = "ended"
    /\ UNCHANGED <<setup, tasks>>

\* All three have ended, or the ten seconds are over.
Join ==
    /\ main = "joining"
    /\ main' = IF AllDone THEN "ended" ELSE "abandoned"
    /\ UNCHANGED <<setup, tasks>>

\* Nothing more is to be done within the process, and what returns in time has
\* returned.
HeldUp == ~ENABLED Prompt /\ (quick => ~ENABLED Returns)

LifecycleNext ==
    \/ Load \/ ConnectFailed \/ Spawn \/ Shutdown \/ Join
    \/ Prompt \/ Returns
    \/ ReconTimer \/ WatchStream \/ WatchTimer

(* No fairness for the outside, unless it is quick: a call may never return   *)
(* and the stream may stay silent.  The ten seconds may be over at any time,  *)
(* and will be some time after the tasks have ended or are held up.  tokio    *)
(* polls what is ready; its select! chooses at random among ready branches,   *)
(* so it does not pass over the cancellation for ever.                        *)
LifecycleSpec ==
    /\ LifecycleInit /\ [][LifecycleNext]_vars
    /\ WF_vars(Load) /\ WF_vars(HeldUp /\ Join) /\ WF_vars(Prompt)
    /\ WF_vars(quick /\ Returns)
    /\ SF_vars(WriterCancelled) /\ SF_vars(ReconCancelled)

-----------------------------------------------------------------------------
(* Properties                                                                 *)

Refused == "refused"

\* What a file comes to: credential, global token and table, or a refusal.
Outcome(f, env) ==
    IF Accepted(f, env)
    THEN <<Credential(f, env), Global(f, env), PerDomain(f, env)>>
    ELSE <<Refused>>

\* The variables a file may draw on, by name or by default.
NamedBy(f) ==
    {p.env : p \in {f.token, f.password, f.api}
                      \cup {f.domains[k] : k \in DOMAIN f.domains}}
        \cup (IF IsGiven(f.token) \/ IsGiven(f.password)
              THEN {} ELSE {"NPM_PASSWORD"})
        \cup (IF IsGiven(f.api) THEN {} ELSE {"CF_API_TOKEN"})

\* No variable the file does not name changes anything (config/mod.rs:234-248;
\* design 2026-04-22:143, "There is no ambient crossover").
NoAmbient ==
    main = "start" =>
        LET f == given[1] env == given[2] IN
        \A v \in Variable \ NamedBy(f) :
            Outcome(f, env \cup {v}) = Outcome(f, env \ {v})

\* The labels of d at which a domain begins that the file has a token for, and
\* the token reached by leaving out the fewest; or else the global one.
Above(f, d) == {n \in 1 .. Len(d) : SubSeq(d, n, Len(d)) \in DOMAIN f.domains}

Nearest(f, env, d) ==
    IF Above(f, d) = {} THEN Global(f, env)
    ELSE LET n == CHOOSE n \in Above(f, d) : \A m \in Above(f, d) : n <= m
         IN  PerDomain(f, env)[SubSeq(d, n, Len(d))]

\* A certificate is requested with the token of the closest enclosing domain,
\* and not at all where there is none (cloudflare.rs:19-35, mod.rs:200-217).
NearestToken ==
    main = "loaded" =>
        \A d \in Domains :
            LET f == given[1] env == given[2] IN
            IF Nearest(f, env, d) = <<None>>
            THEN CertRequest(f, env, d) = << >>
            ELSE CertRequest(f, env, d)[1].token = Nearest(f, env, d)

\* The process ends after a signal, whatever hangs (main.rs:93-114).
ShutdownEnds == main = "joining" ~> main \in {"ended", "abandoned"}

\* Only the outside can use up the ten seconds: a call that does not return,
\* the stream the watcher listens on, or a full channel whose receiver is in
\* such a call.  Nobody waits for a receiver that is gone, in whatever order
\* the tasks end, and if calls return only the watcher on its stream is left
\* (main.rs:96-113, watcher.rs:87-97, reconciler/mod.rs:100-106).
OnlyOutsideHoldsUp ==
    main = "joining" /\ HeldUp /\ ~AllDone =>
        /\ writer \in {"busy", "done"}
        /\ recon \in {"sweep", "send", "done"}
        /\ watch \in {"stream", "inspect", "send", "done"}
        /\ recon = "send" \/ watch = "send" =>
               writer = "busy" /\ queued = Capacity
        /\ quick => writer = "done" /\ recon = "done" /\ watch = "stream"
=============================================================================
