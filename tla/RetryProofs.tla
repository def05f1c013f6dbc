----------------------------- MODULE RetryProofs -----------------------------
(* Theorems about the retry loop for any tasks, attempts and bounds: its      *)
(* state is well typed, its budgets are kept, one expiry of the token costs a *)
(* call one login, and each of its steps is one of RemoteCall or none at all. *)
EXTENDS Retry, TLAPS

-----------------------------------------------------------------------------
(* The inductive invariant                                                    *)

\* A call that goes on has an attempt of each kind left, and a task between
\* two calls has spent none.
BudgetsLeft ==
    \A t \in Tasks :
        /\ pc[t] \in Pending
              => attempt[t] < MaxAttempts /\ authAttempt[t] < MaxAttempts
        /\ pc[t] = "idle"
              => attempt[t] = 0 /\ authAttempt[t] = 0 /\ applied[t] = 0

\* Before the server expires tokens nobody sees a 401.
FreshToken ==
    expiries = 0 =>
        /\ token
        /\ \A t \in Tasks : /\ authAttempt[t] = 0
                            /\ pc[t] \notin {"login", "store"}
                            /\ pc[t] = "sent" => held[t]

\* After one expiry a task that has seen its 401 logs in, holds the new token
\* or works with one that is good, whichever task has stored it.
RenewedToken ==
    \A t \in Tasks :
        /\ authAttempt[t] \in {0, 1}
        /\ pc[t] = "store" => held[t]
        /\ authAttempt[t] = 1 /\ pc[t] \in {"call", "sent", "sleep"} => token
        /\ authAttempt[t] = 1 /\ pc[t] = "sent" => held[t]

\* What holds of tokens while logins succeed and at most one expiry happens.
TokenInv ==
    passwords /\ loginFails = 0 /\ expiries <= 1
        => FreshToken /\ RenewedToken

RetryInv == RetryTypeOK /\ BudgetsLeft /\ ExecutionsBounded /\ TokenInv

-----------------------------------------------------------------------------
(* Constants, the initial state, and what one task does to the others         *)

\* The only things known of the constants.
LEMMA RetryConstants ==
    /\ MaxAttempts \in Nat /\ MaxAttempts > 0
    /\ MaxExpiries \in Nat /\ MaxLoginFails \in Nat
  BY RetryAssumption

\* The invariant holds at the start.
LEMMA InitRetryInv == RetryInit => RetryInv
  BY RetryConstants, Z3
  DEF RetryInit, RetryInv, RetryTypeOK, BudgetsLeft, ExecutionsBounded,
      TokenInv, FreshToken, RenewedToken, Zero, Reply, Pending

\* The classifier puts each failure in one class.
LEMMA FailKinds ==
    /\ FailKind("401") = "Unauthorized"
    /\ FailKind("4xx") = "NonTransient" /\ FailKind("429") = "NonTransient"
    /\ FailKind("5xx") = "Transient"
  <1>1. FailKind("401") = "Unauthorized"
    BY Zenon DEF FailKind
  <1>2. FailKind("4xx") = "NonTransient"
    BY Zenon DEF FailKind
  <1>3. FailKind("429") = "NonTransient"
    BY Zenon DEF FailKind
  <1>4. FailKind("5xx") = "Transient"
    BY Zenon DEF FailKind
  <1> QED  BY <1>1, <1>2, <1>3, <1>4

\* What a request can be answered with.
LEMMA AnswersKnown ==
    ASSUME NEW t \in Tasks, NEW a \in Answers(t)
    PROVE  /\ a[1] \in {"ok", "401", "4xx", "429", "5xx"} /\ a[2] \in {0, 1}
           /\ a[1] # "5xx" /\ a[2] = 1 => a[1] = "ok"
           /\ a[1] = "ok" => a[2] = 1
           /\ a[1] = "401" => ~held[t]
  BY DEF Answers

\* The four ways on after an answer.
LEMMA ReceiveCases ==
    ASSUME NEW t \in Tasks, Receive(t)
    PROVE  \E n \in {0, 1}, r \in Reply :
              /\ reply' = [reply EXCEPT ![t] = r]
              /\ applied' = [applied EXCEPT ![t] = @ + n]
              /\ \/ n = 1 /\ Succeed(t)
                 \/ /\ n = 0 /\ Goto(t, "err")
                    /\ UNCHANGED <<attempt, authAttempt>>
                 \/ n = 0 /\ ~held[t] /\ Unauthorized(t, r)
                 \/ Transient(t, r)
  <1>1. PICK a \in Answers(t) :
           /\ reply' = [reply EXCEPT ![t] = a[1]]
           /\ applied' = [applied EXCEPT ![t] = @ + a[2]]
           /\ \/ a[1] = "ok" /\ Succeed(t)
              \/ a[1] # "ok" /\ (\/ Reject(t, a[1])
                                 \/ Unauthorized(t, a[1])
                                 \/ Transient(t, a[1]))
    BY DEF Receive
  <1>2. /\ a[1] \in {"ok", "401", "4xx", "429", "5xx"} /\ a[2] \in {0, 1}
        /\ a[1] # "5xx" /\ a[2] = 1 => a[1] = "ok"
        /\ a[1] = "ok" => a[2] = 1
        /\ a[1] = "401" => ~held[t]
    BY AnswersKnown
  <1> a[1] \in Reply
    BY <1>2 DEF Reply
  <1>3. CASE a[1] = "ok" /\ Succeed(t)
    BY <1>1, <1>2, <1>3
  <1>4. CASE a[1] # "ok" /\ Reject(t, a[1])
    <2>1. a[1] # "5xx"
      BY <1>4, FailKinds DEF Reject
    <2>2. a[2] = 0
      BY <1>2, <1>4, <2>1
    <2> QED  BY <1>1, <1>2, <1>4, <2>2 DEF Reject
  <1>5. CASE a[1] # "ok" /\ Unauthorized(t, a[1])
    <2>1. a[1] = "401"
      BY <1>2, <1>5, FailKinds DEF Unauthorized
    <2>2. a[2] = 0 /\ ~held[t]
      BY <1>2, <2>1
    <2> QED  BY <1>1, <1>2, <1>5, <2>2
  <1>6. CASE a[1] # "ok" /\ Transient(t, a[1])
    BY <1>1, <1>2, <1>6
  <1> QED  BY <1>1, <1>3, <1>4, <1>5, <1>6

-----------------------------------------------------------------------------
(* Budgets                                                                    *)

\* Types and budgets.
BudgetInv == RetryTypeOK /\ BudgetsLeft /\ ExecutionsBounded

\* An answer spends one attempt of its kind, or ends the call.
LEMMA ReceiveKeepsBudgets ==
    ASSUME BudgetInv, NEW t \in Tasks, Receive(t), UNCHANGED passwords
    PROVE  BudgetInv'
  <1> USE RetryConstants
      DEF BudgetInv, RetryTypeOK, BudgetsLeft, ExecutionsBounded, Pending
  <1>1. /\ pc[t] = "sent"
        /\ held' = [held EXCEPT ![t] = FALSE]
        /\ UNCHANGED <<token, expiries, loginFails>>
    BY DEF Receive
  <1>2. PICK n \in {0, 1}, r \in Reply :
           /\ reply' = [reply EXCEPT ![t] = r]
           /\ applied' = [applied EXCEPT ![t] = @ + n]
           /\ \/ n = 1 /\ Succeed(t)
              \/ n = 0 /\ Goto(t, "err") /\ UNCHANGED <<attempt, authAttempt>>
              \/ n = 0 /\ ~held[t] /\ Unauthorized(t, r)
              \/ Transient(t, r)
    BY ReceiveCases
  <1>3. CASE n = 1 /\ Succeed(t)
    BY <1>1, <1>2, <1>3 DEF Succeed, Goto
  <1>4. CASE n = 0 /\ Goto(t, "err") /\ UNCHANGED <<attempt, authAttempt>>
    BY <1>1, <1>2, <1>4 DEF Goto
  <1>5. CASE n = 0 /\ ~held[t] /\ Unauthorized(t, r)
    BY <1>1, <1>2, <1>5 DEF Unauthorized, Goto
  <1>6. CASE Transient(t, r)
    BY <1>1, <1>2, <1>6 DEF Transient, Goto
  <1> QED  BY <1>2, <1>3, <1>4, <1>5, <1>6

\* Each step keeps types and budgets.
LEMMA StepKeepsBudgets ==
    ASSUME BudgetInv, [RetryNext]_retryVars
    PROVE  BudgetInv'
  <1> USE RetryConstants
      DEF BudgetInv, RetryTypeOK, BudgetsLeft, ExecutionsBounded, Pending
  <1>1. CASE Expire
    <2>1. held' \in [Tasks -> BOOLEAN] /\ token' \in BOOLEAN
      BY <1>1 DEF Expire
    <2>2. expiries' \in 0 .. MaxExpiries
      BY <1>1 DEF Expire
    <2> QED  BY <1>1, <2>1, <2>2 DEF Expire
  <1>2. ASSUME NEW t \in Tasks, CallOp(t)
        PROVE  BudgetInv'
    BY <1>2 DEF CallOp, Goto
  <1>3. ASSUME NEW t \in Tasks, SendRequest(t), UNCHANGED passwords
        PROVE  BudgetInv'
    BY <1>3 DEF SendRequest, Goto
  <1>4. ASSUME NEW t \in Tasks, Receive(t), UNCHANGED passwords
        PROVE  BudgetInv'
    BY <1>4, ReceiveKeepsBudgets
  <1>5. ASSUME NEW t \in Tasks, Sleep(t), UNCHANGED passwords
        PROVE  BudgetInv'
    BY <1>5 DEF Sleep, Goto
  <1>6. ASSUME NEW t \in Tasks, ReturnOp(t), UNCHANGED passwords
        PROVE  BudgetInv'
    BY <1>6 DEF ReturnOp, Goto, Reply
  <1>7. ASSUME NEW t \in Tasks, Login(t), UNCHANGED passwords
        PROVE  BudgetInv'
    BY <1>7 DEF Login, Goto
  <1>8. ASSUME NEW t \in Tasks, LoginFailed(t), UNCHANGED passwords
        PROVE  BudgetInv'
    BY <1>8 DEF LoginFailed, Goto
  <1>9. ASSUME NEW t \in Tasks, Store(t), UNCHANGED passwords
        PROVE  BudgetInv'
    BY <1>9 DEF Store, Goto
  <1>10. CASE UNCHANGED retryVars
    BY <1>10 DEF retryVars
  <1> QED
    BY <1>1, <1>2, <1>3, <1>4, <1>5, <1>6, <1>7, <1>8, <1>9, <1>10
    DEF RetryNext, Step

-----------------------------------------------------------------------------
(* The token                                                                  *)

\* A 401 comes only to a task that has not seen one.
LEMMA ReceiveKeepsToken ==
    ASSUME RetryTypeOK, TokenInv, NEW t \in Tasks, Receive(t),
           UNCHANGED passwords
    PROVE  TokenInv'
  <1> USE DEF RetryTypeOK, TokenInv, FreshToken, RenewedToken
  <1>1. /\ pc[t] = "sent"
        /\ held' = [held EXCEPT ![t] = FALSE]
        /\ UNCHANGED <<token, expiries, loginFails>>
    BY DEF Receive
  <1>2. \/ Succeed(t)
        \/ Goto(t, "err") /\ UNCHANGED <<attempt, authAttempt>>
        \/ ~held[t] /\ \E r \in Reply : Unauthorized(t, r)
        \/ \E r \in Reply : Transient(t, r)
    BY ReceiveCases
  <1>3. CASE Succeed(t)
    BY <1>1, <1>3 DEF Succeed, Goto
  <1>4. CASE Goto(t, "err") /\ UNCHANGED <<attempt, authAttempt>>
    BY <1>1, <1>4 DEF Goto
  <1>5. CASE ~held[t] /\ \E r \in Reply : Unauthorized(t, r)
    BY <1>1, <1>5, RetryConstants DEF Unauthorized, Goto
  <1>6. CASE \E r \in Reply : Transient(t, r)
    BY <1>1, <1>6 DEF Transient, Goto
  <1> QED  BY <1>2, <1>3, <1>4, <1>5, <1>6

\* Each step keeps what holds of tokens.
LEMMA StepKeepsToken ==
    ASSUME RetryTypeOK, TokenInv, BudgetsLeft, [RetryNext]_retryVars
    PROVE  TokenInv'
  <1> USE DEF RetryTypeOK, TokenInv, FreshToken, RenewedToken
  <1>1. CASE Expire
    BY <1>1 DEF Expire
  <1>2. ASSUME NEW t \in Tasks, CallOp(t)
        PROVE  TokenInv'
    BY <1>2 DEF CallOp, Goto, BudgetsLeft
  <1>3. ASSUME NEW t \in Tasks, SendRequest(t), UNCHANGED passwords
        PROVE  TokenInv'
    BY <1>3 DEF SendRequest, Goto
  <1>4. ASSUME NEW t \in Tasks, Receive(t), UNCHANGED passwords
        PROVE  TokenInv'
    BY <1>4, ReceiveKeepsToken
  <1>5. ASSUME NEW t \in Tasks, Sleep(t), UNCHANGED passwords
        PROVE  TokenInv'
    BY <1>5 DEF Sleep, Goto
  <1>6. ASSUME NEW t \in Tasks, ReturnOp(t), UNCHANGED passwords
        PROVE  TokenInv'
    BY <1>6 DEF ReturnOp, Goto
  <1>7. ASSUME NEW t \in Tasks, Login(t), UNCHANGED passwords
        PROVE  TokenInv'
    BY <1>7 DEF Login, Goto
  <1>8. ASSUME NEW t \in Tasks, LoginFailed(t), UNCHANGED passwords
        PROVE  TokenInv'
    BY <1>8 DEF LoginFailed
  <1>9. ASSUME NEW t \in Tasks, Store(t), UNCHANGED passwords
        PROVE  TokenInv'
    BY <1>9 DEF Store, Goto
  <1>10. CASE UNCHANGED retryVars
    BY <1>10 DEF retryVars
  <1> QED
    BY <1>1, <1>2, <1>3, <1>4, <1>5, <1>6, <1>7, <1>8, <1>9, <1>10
    DEF RetryNext, Step

-----------------------------------------------------------------------------
(* The theorems                                                               *)

\* The inductive invariant of the retry loop.
THEOREM RetryInvariance == RetrySpec => []RetryInv
  <1>1. RetryInv /\ [RetryNext]_retryVars => RetryInv'
    BY StepKeepsBudgets, StepKeepsToken DEF RetryInv, BudgetInv
  <1> QED  BY InitRetryInv, <1>1, PTL DEF RetrySpec

\* Every variable of the loop keeps its type: no counter passes max_attempts.
THEOREM RetryTyped == RetrySpec => []RetryTypeOK
  <1>1. RetryInv => RetryTypeOK
    BY DEF RetryInv
  <1> QED  BY <1>1, RetryInvariance, PTL

\* A call executes its request at most once per transient failure, and once
\* more if it succeeds (retry.rs:48-49: logins do not use up the attempts).
THEOREM BudgetsApart == RetrySpec => []ExecutionsBounded
  <1>1. RetryInv => ExecutionsBounded
    BY DEF RetryInv
  <1> QED  BY <1>1, RetryInvariance, PTL

\* One expiry of the token costs each call at most one 401, whatever number of
\* tasks log in and store their tokens in whatever order (npm/mod.rs:99).
THEOREM LoginsSuffice == RetrySpec => []OneExpiryOneLogin
  <1>1. RetryInv => OneExpiryOneLogin
    <2>1. ASSUME RetryInv, passwords, loginFails = 0, expiries <= 1,
                 NEW t \in Tasks
          PROVE  authAttempt[t] <= 1
      <3>1. authAttempt[t] \in {0, 1}
        BY <2>1 DEF RetryInv, TokenInv, RenewedToken
      <3> QED  BY <3>1
    <2> QED  BY <2>1 DEF OneExpiryOneLogin
  <1> QED  BY <1>1, RetryInvariance, PTL

-----------------------------------------------------------------------------
(* The loop implements RemoteCall                                             *)

\* The substitution of RemoteCalls.
Outcome == [t \in Tasks |-> IF pc[t] = "idle" THEN "none"
                            ELSE IF pc[t] \in Pending THEN "pending"
                            ELSE pc[t]]

\* A step that moves one task changes its outcome alone.
LEMMA OutcomeMoves ==
    ASSUME RetryTypeOK, NEW t \in Tasks, NEW l, Goto(t, l)
    PROVE  Outcome' = [Outcome EXCEPT ![t] =
                          IF l = "idle" THEN "none"
                          ELSE IF l \in Pending THEN "pending" ELSE l]
  BY DEF RetryTypeOK, Goto, Outcome

\* A task that stays within its call leaves the caller's view as it is.
LEMMA OutcomeStays ==
    ASSUME RetryTypeOK, NEW t \in Tasks, pc[t] \in Pending,
           NEW l \in Pending, Goto(t, l)
    PROVE  Outcome' = Outcome
  BY DEF RetryTypeOK, Goto, Outcome, Pending

\* No call is under way at the start.
LEMMA InitImplements == RetryInit => RemoteCalls!CallInit
  BY DEF RetryInit, RemoteCalls!CallInit, Zero

\* An answer is an execution, a failure, or nothing the caller sees.
LEMMA ReceiveImplements ==
    ASSUME RetryInv, NEW t \in Tasks, Receive(t)
    PROVE  [RemoteCalls!CallNext]_<<Outcome, applied>>
  <1>1. /\ Outcome[t] = "pending" /\ pc[t] \in Pending
        /\ applied[t] < MaxAttempts /\ applied \in [Tasks -> Nat]
    BY RetryConstants
    DEF Receive, Outcome, Pending, RetryInv, RetryTypeOK, BudgetsLeft,
        ExecutionsBounded
  <1>2. PICK n \in {0, 1}, r \in Reply :
           /\ reply' = [reply EXCEPT ![t] = r]
           /\ applied' = [applied EXCEPT ![t] = @ + n]
           /\ \/ n = 1 /\ Succeed(t)
              \/ n = 0 /\ Goto(t, "err") /\ UNCHANGED <<attempt, authAttempt>>
              \/ n = 0 /\ ~held[t] /\ Unauthorized(t, r)
              \/ Transient(t, r)
    BY ReceiveCases
  <1>3. PICK l \in {"ok", "err", "login", "sleep"} :
           Goto(t, l) /\ (l = "ok" => n = 1)
    BY <1>2 DEF Succeed, Unauthorized, Transient
  <1>4. Outcome' = [Outcome EXCEPT ![t] =
                       IF l \in {"ok", "err"} THEN l ELSE "pending"]
    BY <1>3, OutcomeMoves DEF RetryInv, Pending
  <1>5. CASE n = 1
    <2>1. RemoteCalls!Execute(t)
      BY <1>1, <1>2, <1>4, <1>5 DEF RemoteCalls!Execute, Outcome
    <2> QED  BY <2>1 DEF RemoteCalls!CallNext
  <1>6. CASE n = 0 /\ l = "err"
    <2>1. applied' = applied
      BY <1>1, <1>2, <1>6
    <2>2. RemoteCalls!GiveUp(t)
      BY <1>1, <1>4, <1>6, <2>1 DEF RemoteCalls!GiveUp, Outcome
    <2> QED  BY <2>2 DEF RemoteCalls!CallNext
  <1>7. CASE n = 0 /\ l \in {"login", "sleep"}
    <2>1. applied' = applied
      BY <1>1, <1>2, <1>7
    <2>2. Outcome' = Outcome
      BY <1>1, <1>3, <1>7, OutcomeStays DEF RetryInv, Pending
    <2> QED  BY <2>1, <2>2
  <1> QED  BY <1>2, <1>3, <1>5, <1>6, <1>7

\* Each step of the loop is a step of RemoteCall or none at all.
LEMMA StepImplements ==
    ASSUME RetryInv, [RetryNext]_retryVars
    PROVE  [RemoteCalls!CallNext]_<<Outcome, applied>>
  <1> RetryTypeOK
    BY DEF RetryInv
  <1>1. CASE Expire
    BY <1>1 DEF Expire, Outcome
  <1>2. ASSUME NEW t \in Tasks, CallOp(t)
        PROVE  RemoteCalls!CallNext
    <2>1. Outcome' = [Outcome EXCEPT ![t] = "pending"]
      BY <1>2, OutcomeMoves DEF CallOp, Pending
    <2>2. Outcome[t] = "none" /\ applied' = applied
      BY <1>2 DEF CallOp, Outcome
    <2>3. RemoteCalls!Begin(t)
      BY <2>1, <2>2 DEF RemoteCalls!Begin, Outcome
    <2> QED  BY <2>3 DEF RemoteCalls!CallNext
  <1>3. ASSUME NEW t \in Tasks, Receive(t)
        PROVE  [RemoteCalls!CallNext]_<<Outcome, applied>>
    BY <1>3, ReceiveImplements
  <1>4. ASSUME NEW t \in Tasks, ReturnOp(t)
        PROVE  RemoteCalls!CallNext
    <2>1. Outcome' = [Outcome EXCEPT ![t] = "none"]
      BY <1>4, OutcomeMoves DEF ReturnOp
    <2>2. Outcome[t] \in {"ok", "err"}
      BY <1>4 DEF ReturnOp, Outcome, Pending
    <2>3. RemoteCalls!Return(t)
      BY <1>4, <2>1, <2>2 DEF ReturnOp, RemoteCalls!Return, Outcome
    <2> QED  BY <2>3 DEF RemoteCalls!CallNext
  <1>5. ASSUME NEW t \in Tasks,
               \/ SendRequest(t) \/ Sleep(t)
               \/ Login(t) \/ LoginFailed(t) \/ Store(t)
        PROVE  UNCHANGED <<Outcome, applied>>
    <2>1. \E l \in Pending : Goto(t, l)
      BY <1>5 DEF SendRequest, Sleep, Login, LoginFailed, Store, Pending
    <2>2. pc[t] \in Pending /\ applied' = applied
      BY <1>5 DEF SendRequest, Sleep, Login, LoginFailed, Store, Pending
    <2> QED  BY <2>1, <2>2, OutcomeStays
  <1>6. CASE UNCHANGED retryVars
    BY <1>6 DEF retryVars, Outcome
  <1> QED
    BY <1>1, <1>2, <1>3, <1>4, <1>5, <1>6 DEF RetryNext, Step

\* What Npm assumes of every call with_retry makes: it is executed at most
\* max_attempts times, and at least once if it succeeds.
THEOREM LoopIsRemoteCall == RetrySpec => ImplementsRemoteCall
  <1>1. RetryInv /\ [RetryNext]_retryVars
           => [RemoteCalls!CallNext]_<<Outcome, applied>>
    BY StepImplements
  <1> QED
    BY InitImplements, <1>1, RetryInvariance, PTL
    DEF RetrySpec, ImplementsRemoteCall, RemoteCalls!CallSpec,
        RemoteCalls!callVars, Outcome
=============================================================================
