--------------------------------- MODULE Retry ---------------------------------
(* writer/retry.rs, writer/retry_npm.rs and the token of npm/mod.rs: the loop *)
(* around every HTTP call of the writer and the reconciler.  Both tasks hold  *)
(* clones of one NpmClient and so share the token; each request takes its own *)
(* copy of it, and on a 401 each task logs in on its own and overwrites it.   *)
(* A token is reduced to whether the server still accepts it.                 *)
EXTENDS Integers

CONSTANTS
    Tasks,          \* the tasks with an NpmClient: writer and reconciler
    MaxAttempts,    \* RetryPolicy::max_attempts
    MaxExpiries,    \* bound: how often the server expires all tokens
    MaxLoginFails   \* bound on failed logins

ASSUME RetryAssumption ==
    /\ MaxAttempts \in Nat \ {0}
    /\ MaxExpiries \in Nat /\ MaxLoginFails \in Nat

VARIABLES
    passwords,      \* Credential::EmailPassword, else Credential::Token
    token,          \* the stored token is accepted
    pc,             \* where each task is in retry_call
    held,           \* the token a task has copied or been given is accepted
    attempt,        \* transient failures of the call
    authAttempt,    \* 401s of the call
    applied,        \* history: executions of the request by the server
    reply,          \* history: the last answer
    expiries, loginFails

retryVars == <<passwords, token, pc, held, attempt, authAttempt, applied, reply,
               expiries, loginFails>>

Reply == {"none", "ok", "401", "429", "4xx", "5xx"}   \* 5xx: or transport

RetryTypeOK ==
    /\ passwords \in BOOLEAN
    /\ token \in BOOLEAN
    /\ pc \in [Tasks -> {"idle", "call", "sent", "sleep", "login", "store",
                         "ok", "err"}]
    /\ held \in [Tasks -> BOOLEAN]
    /\ attempt \in [Tasks -> 0 .. MaxAttempts]
    /\ authAttempt \in [Tasks -> 0 .. MaxAttempts]
    /\ applied \in [Tasks -> Nat]
    /\ reply \in [Tasks -> Reply]
    /\ expiries \in 0 .. MaxExpiries
    /\ loginFails \in 0 .. MaxLoginFails

Zero == [t \in Tasks |-> 0]

RetryInit ==
    /\ passwords \in BOOLEAN
    /\ token = TRUE
    /\ pc = [t \in Tasks |-> "idle"]
    /\ held = [t \in Tasks |-> FALSE]
    /\ attempt = Zero /\ authAttempt = Zero /\ applied = Zero
    /\ reply = [t \in Tasks |-> "none"]
    /\ expiries = 0 /\ loginFails = 0

Goto(t, l) == pc' = [pc EXCEPT ![t] = l]

-----------------------------------------------------------------------------
(* retry_call                                                                 *)

CallOp(t) ==
    /\ pc[t] = "idle"
    /\ Goto(t, "call")
    /\ UNCHANGED <<passwords, token, held, attempt, authAttempt, applied,
                   reply, expiries, loginFails>>

\* f(): the token is copied under the read lock and the request goes out.
SendRequest(t) ==
    /\ pc[t] = "call"
    /\ held' = [held EXCEPT ![t] = token]
    /\ Goto(t, "sent")
    /\ UNCHANGED <<token, attempt, authAttempt, applied, reply,
                   expiries, loginFails>>

\* What the server makes of a request, and whether it has executed it.
Answers(t) ==
    IF held[t]
    THEN {<<"ok", 1>>, <<"4xx", 0>>, <<"429", 0>>, <<"5xx", 0>>, <<"5xx", 1>>}
    ELSE {<<"401", 0>>, <<"5xx", 0>>}

FailKind(r) ==
    CASE r = "401"            -> "Unauthorized"
      [] r \in {"4xx", "429"} -> "NonTransient"
      [] r = "5xx"            -> "Transient"

Succeed(t) == Goto(t, "ok") /\ UNCHANGED <<attempt, authAttempt>>

Reject(t, r) ==
    /\ FailKind(r) = "NonTransient"
    /\ Goto(t, "err")
    /\ UNCHANGED <<attempt, authAttempt>>

\* Broken: both kinds of failure share one counter.
UnauthorizedResets(t, r) ==
    /\ FailKind(r) = "Unauthorized"
    /\ authAttempt' = [authAttempt EXCEPT ![t] = @ + 1]
    /\ attempt' = [attempt EXCEPT ![t] = 0]
    /\ Goto(t, IF authAttempt[t] + 1 >= MaxAttempts THEN "err" ELSE "login")

\* Broken: re-logins do not count at all.
UnauthorizedUncounted(t, r) ==
    /\ FailKind(r) = "Unauthorized"
    /\ Goto(t, "login")
    /\ UNCHANGED <<attempt, authAttempt>>

Unauthorized(t, r) ==
    /\ FailKind(r) = "Unauthorized"
    /\ authAttempt' = [authAttempt EXCEPT ![t] = @ + 1]
    /\ Goto(t, IF authAttempt[t] + 1 >= MaxAttempts THEN "err" ELSE "login")
    /\ UNCHANGED attempt

\* Broken: one attempt too many.
TransientOffByOne(t, r) ==
    /\ FailKind(r) = "Transient"
    /\ attempt' = [attempt EXCEPT ![t] = @ + 1]
    /\ Goto(t, IF attempt[t] + 1 > MaxAttempts THEN "err" ELSE "sleep")
    /\ UNCHANGED authAttempt

Transient(t, r) ==
    /\ FailKind(r) = "Transient"
    /\ attempt' = [attempt EXCEPT ![t] = @ + 1]
    /\ Goto(t, IF attempt[t] + 1 >= MaxAttempts THEN "err" ELSE "sleep")
    /\ UNCHANGED authAttempt

Receive(t) ==
    /\ pc[t] = "sent"
    /\ \E a \in Answers(t) :
          /\ reply' = [reply EXCEPT ![t] = a[1]]
          /\ applied' = [applied EXCEPT ![t] = @ + a[2]]
          /\ \/ a[1] = "ok" /\ Succeed(t)
             \/ a[1] # "ok" /\ (\/ Reject(t, a[1])
                                \/ Unauthorized(t, a[1])
                                \/ Transient(t, a[1]))
    /\ held' = [held EXCEPT ![t] = FALSE]
    /\ UNCHANGED <<token, expiries, loginFails>>

Sleep(t) ==
    /\ pc[t] = "sleep"
    /\ Goto(t, "call")
    /\ UNCHANGED <<token, held, attempt, authAttempt, applied, reply,
                   expiries, loginFails>>

\* with_retry returns; the next call starts with new counters.
ReturnOp(t) ==
    /\ pc[t] \in {"ok", "err"}
    /\ Goto(t, "idle")
    /\ attempt' = [attempt EXCEPT ![t] = 0]
    /\ authAttempt' = [authAttempt EXCEPT ![t] = 0]
    /\ applied' = [applied EXCEPT ![t] = 0]
    /\ reply' = [reply EXCEPT ![t] = "none"]
    /\ UNCHANGED <<token, held, expiries, loginFails>>

-----------------------------------------------------------------------------
(* refresh_token                                                              *)

\* login(): a new token for email and password, the configured one otherwise.
Login(t) ==
    /\ pc[t] = "login"
    /\ held' = [held EXCEPT ![t] = passwords \/ token]
    /\ Goto(t, "store")
    /\ UNCHANGED <<token, attempt, authAttempt, applied, reply,
                   expiries, loginFails>>

\* A failed login is only logged; the request is repeated all the same.
LoginFailed(t) ==
    /\ pc[t] = "login"
    /\ passwords
    /\ loginFails < MaxLoginFails
    /\ loginFails' = loginFails + 1
    /\ Goto(t, "call")
    /\ UNCHANGED <<token, held, attempt, authAttempt, applied, reply, expiries>>

\* Broken: the new token is not stored for the next request.
StoreForgotten(t) ==
    /\ pc[t] = "store"
    /\ held' = [held EXCEPT ![t] = FALSE]
    /\ Goto(t, "call")
    /\ UNCHANGED <<token, attempt, authAttempt, applied, reply, expiries,
                   loginFails>>

Store(t) ==
    /\ pc[t] = "store"
    /\ token' = held[t]
    /\ held' = [held EXCEPT ![t] = FALSE]
    /\ Goto(t, "call")
    /\ UNCHANGED <<attempt, authAttempt, applied, reply, expiries, loginFails>>

-----------------------------------------------------------------------------
\* The server stops accepting every token it has issued so far.
Expire ==
    /\ expiries < MaxExpiries
    /\ expiries' = expiries + 1
    /\ token' = FALSE
    /\ held' = [t \in Tasks |-> FALSE]
    /\ UNCHANGED <<passwords, pc, attempt, authAttempt, applied, reply,
                   loginFails>>

Step(t) ==
    /\ \/ SendRequest(t) \/ Receive(t) \/ Sleep(t) \/ ReturnOp(t)
       \/ Login(t) \/ LoginFailed(t) \/ Store(t)
    /\ UNCHANGED passwords

RetryNext == Expire \/ \E t \in Tasks : CallOp(t) \/ Step(t)

RetrySpec == RetryInit /\ [][RetryNext]_retryVars

\* A task between two awaits is polled, a request is answered, a sleep ends.
RetryLive == RetrySpec /\ \A t \in Tasks : WF_retryVars(Step(t))

-----------------------------------------------------------------------------
(* Properties                                                                 *)

\* One expiry of the token costs a call one 401, although two tasks discover
\* it, log in and overwrite each other's token in any order (npm/mod.rs:99).
OneExpiryOneLogin ==
    passwords /\ loginFails = 0 /\ expiries <= 1
        => \A t \in Tasks : authAttempt[t] <= 1

\* Budgets are apart (retry.rs:48-49): re-logins never use up the transient
\* attempts nor these the re-logins, so that a call executes its request at
\* most once per transient failure and once more.
ExecutionsBounded ==
    \A t \in Tasks :
        applied[t] <= attempt[t] + (IF pc[t] = "ok" THEN 1 ELSE 0)

Pending == {"call", "sent", "sleep", "login", "store"}

RemoteCalls == INSTANCE RemoteCall WITH
    call <- [t \in Tasks |-> IF pc[t] = "idle" THEN "none"
                             ELSE IF pc[t] \in Pending THEN "pending"
                             ELSE pc[t]]

\* The loop implements the promise of RemoteCall.
ImplementsRemoteCall == RemoteCalls!CallSpec

\* Every call ends, whatever the server answers.
CallsEnd == RemoteCalls!Terminates

\* design 2026-04-21, line 180: "Transient: network errors, timeouts, HTTP
\* 5xx, HTTP 429" (retry_npm.rs:16 catches 429 before line 17 names it).
RateLimitRetried ==
    \A t \in Tasks :
        reply[t] = "429" /\ pc[t] = "err" => attempt[t] = MaxAttempts
=============================================================================
