--------------------------------- MODULE Npm ---------------------------------
(* The Nginx Proxy Manager, an external service, as the program meets it      *)
(* through src/npm/: a table of proxy hosts read by list and changed by POST, *)
(* PUT and DELETE.  Each operator below is one with_retry call as its caller  *)
(* sees it: the final answer, and what the server did on the way.  A "fault"  *)
(* is a call that ends in an error although its request was acceptable:       *)
(* transport failures or 5xx on every attempt, an expired token that could    *)
(* not be refreshed, a 429.  Under LostResponses the server may have executed *)
(* the request before the fault.  People edit the same table through NPM's    *)
(* own interface; those steps are here too.                                   *)
EXTENDS Intents, Integers, Functions

CONSTANTS
    NoOwner,        \* a host without a readable ownership marker
    UniqueDomains,  \* NPM refuses a domain name another host already has
    LostResponses,  \* a failed call may have been executed
    MaxAttempts,    \* retry.rs: RetryPolicy::max_attempts
    UserOps,        \* what people do to the table in this instance
    MaxHostId,      \* bound: ids 1..MaxHostId
    MaxFaults,      \* bound on faults
    MaxEdits        \* bound on user operations

ASSUME NpmAssumption ==
    /\ NoOwner \notin Containers
    /\ UniqueDomains \in BOOLEAN
    /\ LostResponses \in BOOLEAN
    /\ MaxAttempts \in Nat \ {0}
    /\ MaxHostId \in Nat /\ MaxFaults \in Nat /\ MaxEdits \in Nat

VARIABLES
    hosts,          \* proxy host id -> host, for the hosts that exist
    nextId,         \* the id NPM gives the next host; ids are never reused
    faults,         \* faults so far
    edits           \* user operations so far

npmVars == <<hosts, nextId, faults, edits>>

(* types.rs ProxyHost.  owner is meta::decode of the meta field: the          *)
(* container_id of the marker, or NoOwner when there is none.  tls stands for *)
(* certificate_id and ssl_forced, which are only ever set together.           *)
Host == [domains : SUBSET Urls, owner : Containers \cup {NoOwner},
         target : Targets, tls : BOOLEAN]

NpmTypeOK ==
    /\ nextId \in 1 .. MaxHostId + 1
    /\ DOMAIN hosts \subseteq 1 .. nextId - 1
    /\ hosts \in [DOMAIN hosts -> Host]
    /\ faults \in 0 .. MaxFaults
    /\ edits \in 0 .. MaxEdits

NpmInit ==
    /\ hosts = << >>
    /\ nextId = 1
    /\ faults = 0
    /\ edits = 0

-----------------------------------------------------------------------------
(* Reading the table                                                          *)

OwnedBy(c) == {id \in DOMAIN hosts : hosts[id].owner = c}

HavingUrl(u) == {id \in DOMAIN hosts : u \in hosts[id].domains}

\* Another host than id already answers for one of the domains.
Taken(domains, id) ==
    UniqueDomains /\ \E u \in domains : HavingUrl(u) \ {id} # {}

-----------------------------------------------------------------------------
(* Calls of the writer                                                        *)

Fault == faults < MaxFaults /\ faults' = faults + 1

\* An UpdateProxyHost is issued for an intent (c, t).  Of the fields it may
\* carry none is meta, so it cannot change the owner.  "target" stands for
\* those parts of the target in which the listed host, whose target was seen,
\* differed from t; the parts that agreed are not sent.
Field == {"domains", "target", "tls"}
Patch == [fields : SUBSET Field, seen : Targets]

\* A target that was changed after the list becomes a mixture of t and that
\* change, which may be any target.
Outcomes(h, p, t) ==
    IF "target" \notin p.fields THEN {h.target}
    ELSE IF h.target = p.seen THEN {t} ELSE Targets

Patched(h, p, c, outcome) ==
    [domains |-> IF "domains" \in p.fields THEN {UrlOf[c]} ELSE h.domains,
     owner   |-> h.owner,
     target  |-> outcome,
     tls     |-> IF "tls" \in p.fields THEN TRUE ELSE h.tls]

PutRefused(id, p, c) ==
    \/ id \notin DOMAIN hosts
    \/ "domains" \in p.fields /\ Taken({UrlOf[c]}, id)

PutApplied(id, p, c, t) ==
    /\ ~PutRefused(id, p, c)
    /\ \E outcome \in Outcomes(hosts[id], p, t) :
          hosts' = [hosts EXCEPT ![id] = Patched(@, p, c, outcome)]

\* update_proxy_host: a success; a 404 or 400; or a fault.
PutOk(id, p, c, t) ==
    /\ PutApplied(id, p, c, t)
    /\ UNCHANGED <<nextId, faults, edits>>

PutErr(id, p, c, t) ==
    /\ \/ PutRefused(id, p, c) /\ UNCHANGED <<hosts, faults>>
       \/ Fault /\ UNCHANGED hosts
       \/ LostResponses /\ Fault /\ PutApplied(id, p, c, t)
    /\ UNCHANGED <<nextId, edits>>

\* The POST body of create_proxy_host is executed k times: once per attempt
\* whose answer was lost, and once for the attempt that was answered.
PostApplied(h, k) ==
    /\ k > 1 => LostResponses /\ ~UniqueDomains
    /\ k > 0 => ~Taken(h.domains, 0)
    /\ nextId + k <= MaxHostId + 1
    /\ hosts' = [id \in DOMAIN hosts \cup nextId .. nextId + k - 1
                    |-> IF id < nextId THEN hosts[id] ELSE h]
    /\ nextId' = nextId + k

\* create_proxy_host: on success the caller holds the id of the last copy.
PostOk(h) ==
    /\ \E k \in 1 .. MaxAttempts : PostApplied(h, k)
    /\ UNCHANGED <<faults, edits>>

PostErr(h) ==
    /\ \/ Taken(h.domains, 0) /\ UNCHANGED <<hosts, nextId, faults>>
       \/ nextId > MaxHostId /\ UNCHANGED <<hosts, nextId, faults>>
       \/ Fault /\ UNCHANGED <<hosts, nextId>>
       \/ /\ LostResponses /\ Fault
          /\ \E k \in 1 .. MaxAttempts : PostApplied(h, k)
    /\ UNCHANGED edits

DeleteApplied(id) ==
    /\ id \in DOMAIN hosts
    /\ hosts' = Restrict(hosts, DOMAIN hosts \ {id})

DeleteOk(id) ==
    /\ DeleteApplied(id)
    /\ UNCHANGED <<nextId, faults, edits>>

\* A delete executed behind a lost answer is retried and gets a 404.
DeleteErr(id) ==
    /\ \/ id \notin DOMAIN hosts /\ UNCHANGED <<hosts, faults>>
       \/ Fault /\ UNCHANGED hosts
       \/ LostResponses /\ Fault /\ DeleteApplied(id)
    /\ UNCHANGED <<nextId, edits>>

\* list_proxy_hosts and request_certificate leave the table alone.
NoEffect     == UNCHANGED npmVars
FaultyNoEffect == Fault /\ UNCHANGED <<hosts, nextId, edits>>

-----------------------------------------------------------------------------
(* People at NPM's own interface                                              *)

Edit(op) ==
    /\ op \in UserOps
    /\ edits < MaxEdits
    /\ edits' = edits + 1
    /\ UNCHANGED faults

UserCreate ==
    /\ Edit("create")
    /\ nextId <= MaxHostId
    /\ \E u \in Urls, t \in Targets :
          LET h == [domains |-> {u}, owner |-> NoOwner, target |-> t,
                    tls |-> FALSE]
          IN  PostApplied(h, 1)

UserDelete ==
    /\ Edit("delete")
    /\ \E id \in DOMAIN hosts : DeleteApplied(id)
    /\ UNCHANGED nextId

\* The forwarding is changed, or an alias is added to the domain names.
UserDrift ==
    /\ Edit("drift")
    /\ \E id \in DOMAIN hosts :
          \/ \E t \in Targets \ {hosts[id].target} :
                hosts' = [hosts EXCEPT ![id].target = t]
          \/ \E u \in Urls \ hosts[id].domains :
                /\ ~Taken({u}, id)
                /\ hosts' = [hosts EXCEPT ![id].domains = @ \cup {u}]
    /\ UNCHANGED nextId

\* The host is given another domain name instead of its own.
UserRedomain ==
    /\ Edit("redomain")
    /\ \E id \in DOMAIN hosts, u \in Urls :
          /\ u \notin hosts[id].domains
          /\ ~Taken({u}, id)
          /\ hosts' = [hosts EXCEPT ![id].domains = {u}]
    /\ UNCHANGED nextId

\* The marker is taken out of meta: the host is a person's from now on.
UserAdopt ==
    /\ Edit("adopt")
    /\ \E id \in DOMAIN hosts :
          /\ hosts[id].owner # NoOwner
          /\ hosts' = [hosts EXCEPT ![id].owner = NoOwner]
    /\ UNCHANGED nextId

UserEdit == UserCreate \/ UserDelete \/ UserDrift \/ UserRedomain
=============================================================================
