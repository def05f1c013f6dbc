------------------------------ MODULE RemoteCall ------------------------------
(* What a with_retry call promises its caller, whatever happens on the way:   *)
(* it comes back, the server has executed the request at most MaxAttempts     *)
(* times, and at least once if the call succeeded.  Npm builds its operators  *)
(* on this promise; Retry, the code's loop, implements it.                    *)
EXTENDS Naturals

CONSTANTS Tasks, MaxAttempts

VARIABLES
    call,       \* of each task: "none", "pending", "ok" or "err"
    applied     \* executions of its request by the server

callVars == <<call, applied>>

CallInit ==
    /\ call = [t \in Tasks |-> "none"]
    /\ applied = [t \in Tasks |-> 0]

Begin(t) ==
    /\ call[t] = "none"
    /\ call' = [call EXCEPT ![t] = "pending"]
    /\ UNCHANGED applied

\* The server executes the request; the answer may be lost.
Execute(t) ==
    /\ call[t] = "pending"
    /\ applied[t] < MaxAttempts
    /\ applied' = [applied EXCEPT ![t] = @ + 1]
    /\ \E r \in {"pending", "ok", "err"} : call' = [call EXCEPT ![t] = r]

GiveUp(t) ==
    /\ call[t] = "pending"
    /\ call' = [call EXCEPT ![t] = "err"]
    /\ UNCHANGED applied

Return(t) ==
    /\ call[t] \in {"ok", "err"}
    /\ call' = [call EXCEPT ![t] = "none"]
    /\ applied' = [applied EXCEPT ![t] = 0]

CallNext ==
    \E t \in Tasks : Begin(t) \/ Execute(t) \/ GiveUp(t) \/ Return(t)

Terminates == \A t \in Tasks : call[t] = "pending" ~> call[t] # "pending"

CallSpec == CallInit /\ [][CallNext]_callVars
=============================================================================
