----------------------------- MODULE WriterProofs -----------------------------
(* Theorems about Writer for every value of its constants.                    *)
EXTENDS Writer, TLAPS

-----------------------------------------------------------------------------
(* The inductive invariant                                                   *)

\* Every id the task holds was issued by NPM, and none will be issued again.
IdsIssued ==
    /\ hostId < nextId
    /\ \A c \in DOMAIN cache : cache[c] < nextId

\* The chosen host is not remembered with another container.
CommitUnshared ==
    phase \in Committed =>
        \A c \in DOMAIN cache : cache[c] = hostId => c = intent.container

\* The inductive invariant: it joins what the runs check of ids and choices and
\* the two facts above, without which it would not be inductive.
WriterInv ==
    /\ WriterTypeOK
    /\ IdsIssued
    /\ CacheSound
    /\ CacheInjective
    /\ CommitNeverForeign
    /\ CommitUnshared
    /\ ~AdoptRaces => CommitSound

-----------------------------------------------------------------------------
(* What a step may do to the table of hosts                                   *)

\* Hosts that were there keep their owner; the others have new ids.
OwnersStay ==
    /\ nextId' >= nextId
    /\ \A id \in DOMAIN hosts' :
          id < nextId => /\ id \in DOMAIN hosts
                         /\ hosts'[id].owner = hosts[id].owner

\* A patched host is a host, and its owner is untouched.
LEMMA PatchedHost ==
    ASSUME NEW h \in Host, NEW p \in Patch, NEW c \in Containers,
           NEW t \in Targets, NEW outcome \in Outcomes(h, p, t)
    PROVE  /\ Patched(h, p, c, outcome) \in Host
           /\ Patched(h, p, c, outcome).owner = h.owner
  <1>1. outcome \in Targets
    BY DEF Outcomes, Host
  <1> QED  BY <1>1, IntentsAssumption DEF Patched, Host

\* An update that is carried out changes one host, and keeps its owner.
LEMMA PutAppliedKeeps ==
    ASSUME NpmTypeOK, NEW id, NEW p \in Patch, NEW c \in Containers,
           NEW t \in Targets, PutApplied(id, p, c, t)
    PROVE  /\ id \in DOMAIN hosts
           /\ DOMAIN hosts' = DOMAIN hosts
           /\ hosts' \in [DOMAIN hosts -> Host]
           /\ \A i \in DOMAIN hosts : hosts'[i].owner = hosts[i].owner
           /\ \A i \in DOMAIN hosts : i # id => hosts'[i] = hosts[i]
  <1>1. id \in DOMAIN hosts /\ hosts[id] \in Host
    BY DEF PutApplied, PutRefused, NpmTypeOK
  <1>2. PICK outcome \in Outcomes(hosts[id], p, t) :
           hosts' = [hosts EXCEPT ![id] = Patched(hosts[id], p, c, outcome)]
    BY DEF PutApplied
  <1>3. /\ Patched(hosts[id], p, c, outcome) \in Host
        /\ Patched(hosts[id], p, c, outcome).owner = hosts[id].owner
    BY <1>1, PatchedHost
  <1> QED  BY <1>1, <1>2, <1>3 DEF NpmTypeOK

\* What holds of every call: the table stays well typed, hosts keep their
\* owners and ids grow.
CallKeeps == NpmTypeOK' /\ OwnersStay

\* What is known of the constants.
LEMMA NpmConstants ==
    /\ MaxHostId \in Nat /\ MaxFaults \in Nat /\ MaxEdits \in Nat
    /\ MaxAttempts \in Nat
    /\ NoOwner \notin Containers
    /\ \A c \in Containers : UrlOf[c] \in Urls
  BY IntentsAssumption, NpmAssumption

\* A fault stays within its bound.
LEMMA FaultTyped ==
    ASSUME NpmTypeOK, Fault
    PROVE  faults' \in 0 .. MaxFaults
  BY NpmConstants DEF NpmTypeOK, Fault

\* Calls that leave the table alone.
LEMMA NoEffectKeeps ==
    ASSUME NpmTypeOK, NoEffect \/ FaultyNoEffect
    PROVE  CallKeeps /\ hosts' = hosts /\ nextId' = nextId
  BY FaultTyped DEF NpmTypeOK, NoEffect, FaultyNoEffect, npmVars, CallKeeps,
                    OwnersStay

\* update_proxy_host changes one host at most, and not its owner.
LEMMA PutKeeps ==
    ASSUME NpmTypeOK, NEW id, NEW p \in Patch, NEW c \in Containers,
           NEW t \in Targets,
           PutOk(id, p, c, t) \/ PutErr(id, p, c, t)
    PROVE  /\ CallKeeps
           /\ nextId' = nextId
           /\ DOMAIN hosts' = DOMAIN hosts
           /\ PutOk(id, p, c, t) => id \in DOMAIN hosts
           /\ \A i \in DOMAIN hosts \ {id} : hosts'[i] = hosts[i]
  <1>1. CASE PutApplied(id, p, c, t)
    <2>1. faults' \in 0 .. MaxFaults /\ UNCHANGED <<nextId, edits>>
      BY FaultTyped DEF PutOk, PutErr, NpmTypeOK
    <2>2. /\ id \in DOMAIN hosts
          /\ DOMAIN hosts' = DOMAIN hosts
          /\ hosts' \in [DOMAIN hosts -> Host]
          /\ \A i \in DOMAIN hosts : hosts'[i].owner = hosts[i].owner
          /\ \A i \in DOMAIN hosts \ {id} : hosts'[i] = hosts[i]
      BY <1>1, PutAppliedKeeps
    <2>3. NpmTypeOK'
      BY <2>1, <2>2 DEF NpmTypeOK
    <2>4. OwnersStay
      BY <2>1, <2>2 DEF NpmTypeOK, OwnersStay
    <2> QED  BY <2>1, <2>2, <2>3, <2>4 DEF CallKeeps
  <1>2. CASE ~PutApplied(id, p, c, t)
    <2>1. UNCHANGED <<hosts, nextId, edits>>
      BY <1>2 DEF PutOk, PutErr
    <2>2. faults' \in 0 .. MaxFaults
      BY <1>2, FaultTyped DEF PutOk, PutErr, NpmTypeOK
    <2>3. ~PutOk(id, p, c, t)
      BY <1>2 DEF PutOk
    <2> QED
      BY <2>1, <2>2, <2>3 DEF NpmTypeOK, CallKeeps, OwnersStay
  <1> QED  BY <1>1, <1>2

\* The new hosts have the ids from nextId on and are copies of the body.
LEMMA PostAppliedKeeps ==
    ASSUME NpmTypeOK, NEW h \in Host, NEW k \in Nat, PostApplied(h, k)
    PROVE  /\ nextId' = nextId + k
           /\ nextId' \in 1 .. MaxHostId + 1
           /\ DOMAIN hosts' = DOMAIN hosts \cup nextId .. nextId + k - 1
           /\ hosts' \in [DOMAIN hosts' -> Host]
           /\ \A i \in DOMAIN hosts : hosts'[i] = hosts[i]
           /\ \A i \in nextId .. nextId + k - 1 : hosts'[i] = h
           /\ DOMAIN hosts' \subseteq 1 .. nextId' - 1
           /\ OwnersStay
  <1>1. /\ nextId \in 1 .. MaxHostId + 1
        /\ DOMAIN hosts \subseteq 1 .. nextId - 1
        /\ hosts \in [DOMAIN hosts -> Host]
        /\ MaxHostId \in Nat
    BY NpmConstants DEF NpmTypeOK
  <1>2. /\ nextId + k <= MaxHostId + 1
        /\ nextId' = nextId + k
        /\ hosts' = [id \in DOMAIN hosts \cup nextId .. nextId + k - 1
                        |-> IF id < nextId THEN hosts[id] ELSE h]
    BY DEF PostApplied
  <1>3. nextId' \in 1 .. MaxHostId + 1
    BY <1>1, <1>2
  <1>4. DOMAIN hosts' = DOMAIN hosts \cup nextId .. nextId + k - 1
    BY <1>2
  <1>5. \A i \in DOMAIN hosts : hosts'[i] = hosts[i]
    BY <1>1, <1>2
  <1>6. \A i \in nextId .. nextId + k - 1 : hosts'[i] = h
    BY <1>1, <1>2
  <1>7. hosts' \in [DOMAIN hosts' -> Host]
    BY <1>1, <1>2
  <1>8. DOMAIN hosts' \subseteq 1 .. nextId' - 1
    BY <1>1, <1>2, <1>4
  <1>9. OwnersStay
    BY <1>1, <1>2, <1>4, <1>5 DEF OwnersStay
  <1> QED  BY <1>2, <1>3, <1>4, <1>5, <1>6, <1>7, <1>8, <1>9

\* create_proxy_host: the id it returns is new and leads to the body.
LEMMA PostKeeps ==
    ASSUME NpmTypeOK, NEW h \in Host, PostOk(h) \/ PostErr(h)
    PROVE  /\ CallKeeps
           /\ \A i \in DOMAIN hosts : hosts'[i] = hosts[i]
           /\ DOMAIN hosts \subseteq DOMAIN hosts'
           /\ PostOk(h) => /\ nextId' - 1 \in nextId .. MaxHostId
                           /\ hosts'[nextId' - 1] = h
  <1> USE NpmConstants
  <1>1. ASSUME NEW k \in 1 .. MaxAttempts, PostApplied(h, k),
               faults' \in 0 .. MaxFaults, UNCHANGED edits
        PROVE  /\ CallKeeps
               /\ \A i \in DOMAIN hosts : hosts'[i] = hosts[i]
               /\ DOMAIN hosts \subseteq DOMAIN hosts'
               /\ nextId' - 1 \in nextId .. MaxHostId
               /\ hosts'[nextId' - 1] = h
    <2>1. k \in Nat /\ k >= 1
      OBVIOUS
    <2>2. /\ nextId' = nextId + k
          /\ nextId' \in 1 .. MaxHostId + 1
          /\ DOMAIN hosts' = DOMAIN hosts \cup nextId .. nextId + k - 1
          /\ hosts' \in [DOMAIN hosts' -> Host]
          /\ \A i \in DOMAIN hosts : hosts'[i] = hosts[i]
          /\ \A i \in nextId .. nextId + k - 1 : hosts'[i] = h
          /\ DOMAIN hosts' \subseteq 1 .. nextId' - 1
          /\ OwnersStay
      BY <1>1, <2>1, PostAppliedKeeps
    <2>3. NpmTypeOK'
      BY <1>1, <2>2 DEF NpmTypeOK
    <2>4. nextId' - 1 \in nextId .. nextId + k - 1
      BY <2>1, <2>2 DEF NpmTypeOK
    <2> QED  BY <2>2, <2>3, <2>4 DEF CallKeeps, NpmTypeOK
  <1>2. ASSUME UNCHANGED <<hosts, nextId, edits>>, faults' \in 0 .. MaxFaults
        PROVE  /\ CallKeeps
               /\ \A i \in DOMAIN hosts : hosts'[i] = hosts[i]
               /\ DOMAIN hosts \subseteq DOMAIN hosts'
    BY <1>2 DEF CallKeeps, NpmTypeOK, OwnersStay
  <1>3. CASE PostOk(h)
    <2>1. PICK k \in 1 .. MaxAttempts : PostApplied(h, k)
      BY <1>3 DEF PostOk
    <2>2. faults' \in 0 .. MaxFaults /\ UNCHANGED edits
      BY <1>3 DEF PostOk, NpmTypeOK
    <2> QED  BY <1>1, <2>1, <2>2
  <1>4. CASE PostErr(h) /\ ~PostOk(h)
    <2>1. faults' \in 0 .. MaxFaults /\ UNCHANGED edits
      BY <1>4, FaultTyped DEF PostErr, NpmTypeOK
    <2>2. CASE \E k \in 1 .. MaxAttempts : PostApplied(h, k)
      BY <1>1, <1>4, <2>1, <2>2
    <2>3. CASE UNCHANGED <<hosts, nextId>>
      BY <1>2, <1>4, <2>1, <2>3
    <2> QED  BY <1>4, <2>2, <2>3 DEF PostErr
  <1> QED  BY <1>3, <1>4

\* delete_proxy_host takes one host out of the table and changes no other.
LEMMA DeleteKeeps ==
    ASSUME NpmTypeOK, NEW id, DeleteOk(id) \/ DeleteErr(id)
    PROVE  /\ CallKeeps
           /\ nextId' = nextId
           /\ \A i \in DOMAIN hosts :
                 i # id => i \in DOMAIN hosts' /\ hosts'[i] = hosts[i]
           /\ DeleteOk(id) => id \notin DOMAIN hosts'
  <1>1. /\ faults' \in 0 .. MaxFaults
        /\ UNCHANGED <<nextId, edits>>
    BY FaultTyped DEF DeleteOk, DeleteErr, NpmTypeOK
  <1>2. CASE DeleteApplied(id)
    <2>1. hosts' = [i \in DOMAIN hosts \ {id} |-> hosts[i]]
      BY <1>2 DEF DeleteApplied, Restrict
    <2>2. /\ DOMAIN hosts' = DOMAIN hosts \ {id}
          /\ \A i \in DOMAIN hosts' : hosts'[i] = hosts[i]
      BY <2>1
    <2>3. hosts' \in [DOMAIN hosts' -> Host]
      BY <2>1 DEF NpmTypeOK
    <2>4. NpmTypeOK'
      BY <1>1, <2>2, <2>3 DEF NpmTypeOK
    <2>5. OwnersStay
      BY <1>1, <2>2 DEF NpmTypeOK, OwnersStay
    <2> QED  BY <1>1, <2>2, <2>4, <2>5 DEF CallKeeps
  <1>3. CASE ~DeleteApplied(id)
    <2>1. UNCHANGED hosts /\ ~DeleteOk(id)
      BY <1>3 DEF DeleteOk, DeleteErr
    <2> QED  BY <1>1, <2>1 DEF CallKeeps, NpmTypeOK, OwnersStay
  <1> QED  BY <1>2, <1>3

\* People create hosts without a marker, and delete or change any host; its
\* owner only UserAdopt changes.
LEMMA UserEditKeeps ==
    ASSUME NpmTypeOK, UserEdit
    PROVE  CallKeeps /\ edits' # edits
  <1> USE NpmConstants
  <1>1. /\ edits' \in 0 .. MaxEdits /\ edits' # edits
        /\ UNCHANGED faults
    BY DEF UserEdit, UserCreate, UserDelete, UserDrift, UserRedomain, Edit,
           NpmTypeOK
  <1>2. CASE UserCreate
    <2>1. PICK u \in Urls, t \in Targets :
             PostApplied([domains |-> {u}, owner |-> NoOwner, target |-> t,
                          tls |-> FALSE], 1)
      BY <1>2 DEF UserCreate
    <2>2. [domains |-> {u}, owner |-> NoOwner, target |-> t, tls |-> FALSE]
             \in Host
      BY DEF Host
    <2>3. /\ nextId' \in 1 .. MaxHostId + 1
          /\ hosts' \in [DOMAIN hosts' -> Host]
          /\ DOMAIN hosts' \subseteq 1 .. nextId' - 1
          /\ OwnersStay
      BY <2>1, <2>2, PostAppliedKeeps
    <2> QED  BY <1>1, <2>3 DEF CallKeeps, NpmTypeOK
  <1>3. CASE UserDelete
    <2>1. PICK id \in DOMAIN hosts : DeleteApplied(id)
      BY <1>3 DEF UserDelete
    <2>2. hosts' = [i \in DOMAIN hosts \ {id} |-> hosts[i]] /\ nextId' = nextId
      BY <1>3, <2>1 DEF DeleteApplied, Restrict, UserDelete
    <2>3. hosts' \in [DOMAIN hosts' -> Host]
      BY <2>2 DEF NpmTypeOK
    <2> QED  BY <1>1, <2>2, <2>3 DEF CallKeeps, NpmTypeOK, OwnersStay
  <1>4. ASSUME NEW id \in DOMAIN hosts, NEW h \in Host,
               h.owner = hosts[id].owner, nextId' = nextId,
               hosts' = [hosts EXCEPT ![id] = h]
        PROVE  CallKeeps
    <2>1. hosts' \in [DOMAIN hosts' -> Host] /\ DOMAIN hosts' = DOMAIN hosts
      BY <1>4 DEF NpmTypeOK
    <2>2. \A i \in DOMAIN hosts : hosts'[i].owner = hosts[i].owner
      BY <1>4 DEF NpmTypeOK
    <2>3. NpmTypeOK'
      BY <1>1, <1>4, <2>1 DEF NpmTypeOK
    <2> QED  BY <1>4, <2>1, <2>2, <2>3 DEF CallKeeps, NpmTypeOK, OwnersStay
  <1>5. CASE UserDrift
    <2>1. PICK id \in DOMAIN hosts :
             \/ \E t \in Targets \ {hosts[id].target} :
                   hosts' = [hosts EXCEPT ![id].target = t]
             \/ \E u \in Urls \ hosts[id].domains :
                   hosts' = [hosts EXCEPT ![id].domains = @ \cup {u}]
      BY <1>5 DEF UserDrift
    <2>2. hosts[id] \in Host /\ nextId' = nextId
      BY <1>5 DEF UserDrift, NpmTypeOK
    <2>3. ASSUME NEW t \in Targets, hosts' = [hosts EXCEPT ![id].target = t]
          PROVE  CallKeeps
      <3>1. [hosts[id] EXCEPT !.target = t] \in Host
        BY <2>2 DEF Host
      <3>2. [hosts[id] EXCEPT !.target = t].owner = hosts[id].owner
        BY <2>2 DEF Host
      <3> QED  BY <1>4, <2>2, <2>3, <3>1, <3>2
    <2>4. ASSUME NEW u \in Urls,
                 hosts' = [hosts EXCEPT ![id].domains = @ \cup {u}]
          PROVE  CallKeeps
      <3>1. [hosts[id] EXCEPT !.domains = @ \cup {u}] \in Host
        BY <2>2 DEF Host
      <3>2. [hosts[id] EXCEPT !.domains = @ \cup {u}].owner = hosts[id].owner
        BY <2>2 DEF Host
      <3> QED  BY <1>4, <2>2, <2>4, <3>1, <3>2
    <2> QED  BY <1>1, <2>1, <2>3, <2>4
  <1>6. CASE UserRedomain
    <2>1. PICK id \in DOMAIN hosts, u \in Urls :
             hosts' = [hosts EXCEPT ![id].domains = {u}]
      BY <1>6 DEF UserRedomain
    <2>2. hosts[id] \in Host /\ nextId' = nextId
      BY <1>6 DEF UserRedomain, NpmTypeOK
    <2>3. [hosts[id] EXCEPT !.domains = {u}] \in Host
      BY <2>2 DEF Host
    <2>4. [hosts[id] EXCEPT !.domains = {u}].owner = hosts[id].owner
      BY <2>2 DEF Host
    <2> QED  BY <1>1, <1>4, <2>1, <2>2, <2>3, <2>4
  <1> QED  BY <1>1, <1>2, <1>3, <1>5, <1>6 DEF UserEdit

\* Taking a marker away changes owners to NoOwner only.
LEMMA UserAdoptKeeps ==
    ASSUME NpmTypeOK, UserAdopt
    PROVE  /\ NpmTypeOK'
           /\ edits' # edits
           /\ nextId' = nextId
           /\ DOMAIN hosts' = DOMAIN hosts
           /\ \A i \in DOMAIN hosts :
                 hosts'[i].owner \in {hosts[i].owner, NoOwner}
  <1> USE NpmConstants
  <1>1. /\ edits' \in 0 .. MaxEdits /\ edits' # edits
        /\ UNCHANGED <<nextId, faults>>
    BY DEF UserAdopt, Edit, NpmTypeOK
  <1>2. PICK id \in DOMAIN hosts :
           hosts' = [hosts EXCEPT ![id].owner = NoOwner]
    BY DEF UserAdopt
  <1>3. hosts[id] \in Host
    BY DEF NpmTypeOK
  <1>4. [hosts[id] EXCEPT !.owner = NoOwner] \in Host
    BY <1>3 DEF Host
  <1>5. [hosts[id] EXCEPT !.owner = NoOwner].owner = NoOwner
    BY <1>3 DEF Host
  <1>6. hosts' \in [DOMAIN hosts' -> Host] /\ DOMAIN hosts' = DOMAIN hosts
    BY <1>2, <1>4 DEF NpmTypeOK
  <1>7. \A i \in DOMAIN hosts : hosts'[i].owner \in {hosts[i].owner, NoOwner}
    BY <1>2, <1>5 DEF NpmTypeOK
  <1>8. NpmTypeOK'
    BY <1>1, <1>6 DEF NpmTypeOK
  <1> QED  BY <1>1, <1>6, <1>7, <1>8

-----------------------------------------------------------------------------
(* The cache                                                                  *)

CacheOK ==
    /\ DOMAIN cache \subseteq Containers
    /\ cache \in [DOMAIN cache -> 1 .. MaxHostId]
    /\ \A c \in DOMAIN cache : cache[c] < nextId
    /\ CacheSound
    /\ CacheInjective

\* Calls and people leave a cache that is not touched as good as it was.
LEMMA CacheKept ==
    ASSUME NpmTypeOK, CacheOK, OwnersStay, NpmTypeOK', UNCHANGED cache
    PROVE  CacheOK'
  BY DEF CacheOK, CacheSound, CacheInjective, OwnersStay, NpmTypeOK

\* A new entry is good if its host is the container's and in no other entry.
LEMMA CacheRemembers ==
    ASSUME NpmTypeOK, CacheOK, OwnersStay, NpmTypeOK',
           NEW c \in Containers, NEW id \in 1 .. MaxHostId, Remember(c, id),
           id < nextId',
           id \in DOMAIN hosts' => hosts'[id].owner \in {c, NoOwner},
           \A d \in DOMAIN cache : cache[d] = id => d = c
    PROVE  CacheOK'
  <1>1. /\ DOMAIN cache' = DOMAIN cache \cup {c}
        /\ cache'[c] = id
        /\ \A d \in DOMAIN cache : d # c => cache'[d] = cache[d]
    BY DEF Remember
  <1>2. cache' \in [DOMAIN cache' -> 1 .. MaxHostId]
    BY DEF Remember, CacheOK
  <1>3. \A d \in DOMAIN cache' : cache'[d] < nextId'
    BY <1>1 DEF CacheOK, OwnersStay, NpmTypeOK
  <1>4. CacheSound'
    BY <1>1 DEF CacheOK, CacheSound, OwnersStay
  <1>5. CacheInjective'
    BY <1>1 DEF CacheOK, CacheInjective
  <1> QED  BY <1>1, <1>2, <1>3, <1>4, <1>5 DEF CacheOK

\* Dropping an entry leaves the others good.
LEMMA CacheForgets ==
    ASSUME NpmTypeOK, CacheOK, OwnersStay, NpmTypeOK', NEW c, Forget(c)
    PROVE  CacheOK'
  <1>1. cache' = [d \in DOMAIN cache \ {c} |-> cache[d]]
    BY DEF Forget, Restrict
  <1>2. /\ DOMAIN cache' = DOMAIN cache \ {c}
        /\ \A d \in DOMAIN cache' : cache'[d] = cache[d]
        /\ cache' \in [DOMAIN cache' -> 1 .. MaxHostId]
    BY <1>1 DEF CacheOK
  <1> QED
    BY <1>2 DEF CacheOK, CacheSound, CacheInjective, OwnersStay, NpmTypeOK

-----------------------------------------------------------------------------
(* The task                                                                   *)

\* The fields of an intent.
LEMMA IntentFields ==
    ASSUME NEW i \in Intent
    PROVE  /\ i.container \in Containers
           /\ i.kind \in {"upsert", "remove"}
           /\ i.kind = "upsert" => i.target \in Targets
           /\ i # NoIntent
  BY DEF Intent, Upsert, Remove, NoIntent

\* A busy task has an intent of the kind its phase says.
LEMMA Busy ==
    ASSUME WriterTypeOK, phase \notin {"seed", "idle"}
    PROVE  /\ intent \in Intent
           /\ intent.container \in Containers
           /\ phase \in {"upsert", "create", "update", "cert", "attach"}
                 => intent.target \in Targets
  BY IntentFields DEF WriterTypeOK

\* The parts of the invariant the cache lemmas need.
LEMMA InvCache == WriterInv => CacheOK /\ NpmTypeOK /\ WriterTypeOK
  BY DEF WriterInv, CacheOK, WriterTypeOK, IdsIssued

\* handle() returns with a good cache.
LEMMA DoneKeeps ==
    ASSUME WriterInv, NpmTypeOK', CacheOK', Done
    PROVE  WriterInv'
  <1>1. WriterTypeOK'
    BY NpmConstants
    DEF WriterInv, WriterTypeOK, CacheOK, Done, Phase, Committed, Field
  <1>2. IdsIssued'
    BY DEF CacheOK, IdsIssued, Done, NpmTypeOK
  <1>3. phase' \notin Committed
    BY DEF Done, Committed
  <1> QED
    BY <1>1, <1>2, <1>3
    DEF WriterInv, CacheOK, CommitSound, CommitNeverForeign, CommitUnshared

\* The task chooses one of the hosts of its container.
LEMMA CommitKeeps ==
    ASSUME WriterInv, NpmTypeOK', CacheOK',
           NEW p \in Committed, NEW id \in 1 .. MaxHostId,
           NEW u \in Patch \cup {NoPatch}, Commit(p, id, u),
           p \in {"update", "attach"} => u \in Patch,
           id < nextId', intent \in Intent,
           intent.kind = IF p = "delete" THEN "remove" ELSE "upsert",
           id \in DOMAIN hosts' => hosts'[id].owner = intent.container,
           \A d \in DOMAIN cache' : cache'[d] = id => d = intent.container
    PROVE  WriterInv'
  <1>1. WriterTypeOK'
    BY IntentFields
    DEF WriterInv, WriterTypeOK, CacheOK, Commit, Phase, Committed
  <1>2. IdsIssued'
    BY DEF CacheOK, IdsIssued, Commit, NpmTypeOK
  <1>3. CommitSound' /\ CommitNeverForeign' /\ CommitUnshared'
    BY DEF Commit, CommitSound, CommitNeverForeign, CommitUnshared
  <1> QED
    BY <1>1, <1>2, <1>3 DEF WriterInv, CacheOK

-----------------------------------------------------------------------------
(* Each action keeps the invariant                                            *)

\* The seed takes owners and ids from one list, so its entries are good.
LEMMA SeedKeeps ==
    ASSUME WriterInv, Seed \/ SeedFailed
    PROVE  WriterInv'
  <1> USE InvCache
  <1>1. CallKeeps /\ hosts' = hosts /\ nextId' = nextId
    BY NoEffectKeeps DEF Seed, SeedFailed
  <1>2. CacheOK'
    <2>1. CASE Seed
      <3>1. PICK f \in [Owners -> DOMAIN hosts] :
               /\ \A c \in Owners : hosts[f[c]].owner = c
               /\ cache' = f
        BY <2>1 DEF Seed
      <3>2. Owners \subseteq Containers
        BY DEF Owners, NpmTypeOK, Host
      <3>3. \A c \in Owners : f[c] \in 1 .. nextId - 1
        BY <3>1 DEF NpmTypeOK
      <3>4. cache' \in [DOMAIN cache' -> 1 .. MaxHostId]
        BY <3>1, <3>3, NpmConstants DEF NpmTypeOK
      <3>5. CacheSound' /\ CacheInjective'
        BY <1>1, <3>1 DEF CacheSound, CacheInjective
      <3>6. \A c \in DOMAIN cache' : cache'[c] < nextId'
        BY <1>1, <3>1, <3>3 DEF NpmTypeOK
      <3> QED  BY <3>1, <3>2, <3>4, <3>5, <3>6 DEF CacheOK
    <2>2. CASE SeedFailed
      BY <1>1, <2>2, CacheKept DEF SeedFailed, CallKeeps
    <2> QED  BY <2>1, <2>2
  <1>3. /\ phase' = "idle" /\ intent' = intent /\ intent = NoIntent
        /\ UNCHANGED <<hostId, patch, restarts>> /\ seeded' \in BOOLEAN
    BY DEF Seed, SeedFailed, WriterTypeOK
  <1>4. WriterTypeOK'
    BY <1>1, <1>2, <1>3
    DEF WriterTypeOK, CacheOK, CallKeeps, Phase, Committed
  <1>5. IdsIssued'
    BY <1>1, <1>2, <1>3 DEF CacheOK, IdsIssued, WriterInv
  <1> QED
    BY <1>2, <1>3, <1>4, <1>5
    DEF WriterInv, CacheOK, CommitSound, CommitNeverForeign, CommitUnshared,
        Committed

\* Receiving an intent touches nothing but the task's place.
LEMMA AcceptKeeps ==
    ASSUME WriterInv, NEW i \in Intent, Accept(i)
    PROVE  WriterInv'
  <1> USE InvCache
  <1>1. CallKeeps /\ hosts' = hosts /\ nextId' = nextId
    BY NoEffectKeeps DEF Accept
  <1>2. CacheOK'
    BY <1>1, CacheKept DEF Accept, CallKeeps
  <1>3. WriterTypeOK'
    BY <1>1, <1>2, IntentFields
    DEF Accept, WriterTypeOK, CacheOK, CallKeeps, Phase, Committed
  <1>4. phase' \notin Committed
    BY IntentFields DEF Accept, Committed
  <1>5. IdsIssued'
    BY <1>1 DEF Accept, IdsIssued, WriterInv
  <1> QED
    BY <1>2, <1>3, <1>4, <1>5
    DEF WriterInv, CacheOK, CommitSound, CommitNeverForeign, CommitUnshared

\* A handler that ends without touching the cache.
LEMMA FinishKeeps ==
    ASSUME WriterInv, CallKeeps, UNCHANGED cache, Done
    PROVE  WriterInv'
  BY InvCache, CacheKept, DoneKeeps DEF CallKeeps

\* Handlers that end without changing the table or the cache.
LEMMA NothingDone ==
    ASSUME WriterInv, ListFailed \/ UpsertConflict \/ RemoveSkipped
                      \/ RemoveRefused
    PROVE  WriterInv'
  <1>1. /\ NoEffect \/ FaultyNoEffect
        /\ Done /\ UNCHANGED cache
    BY DEF ListFailed, UpsertConflict, RemoveSkipped, RemoveRefused,
           RemoveListed
  <1> QED  BY <1>1, InvCache, NoEffectKeeps, FinishKeeps

\* upsert() of a host that is as it should be: the entry leads to an own host.
LEMMA UpsertInSyncKeeps ==
    ASSUME WriterInv, UpsertInSync
    PROVE  WriterInv'
  <1> USE InvCache
  <1>1. CallKeeps /\ hosts' = hosts /\ nextId' = nextId
    BY NoEffectKeeps DEF UpsertInSync
  <1>2. PICK id \in DOMAIN hosts : /\ hosts[id].owner = intent.container
                                   /\ Remember(intent.container, id)
    BY DEF UpsertInSync, Matching, HavingUrl
  <1>3. id \in 1 .. MaxHostId /\ id < nextId
    BY NpmConstants DEF NpmTypeOK
  <1>4. intent.container \in Containers
    BY Busy DEF UpsertInSync
  <1>5. \A d \in DOMAIN cache : cache[d] = id => d = intent.container
    BY <1>2, <1>4, NpmConstants DEF CacheOK, CacheSound
  <1>6. CacheOK'
    BY <1>1, <1>2, <1>3, <1>4, <1>5, CacheRemembers DEF CallKeeps
  <1> QED  BY <1>1, <1>6, DoneKeeps DEF UpsertInSync, CallKeeps

\* upsert() of a drifted host: the chosen host is the container's own.
LEMMA UpsertDriftedKeeps ==
    ASSUME WriterInv, UpsertDrifted
    PROVE  WriterInv'
  <1> USE InvCache
  <1>1. CallKeeps /\ hosts' = hosts /\ nextId' = nextId
    BY NoEffectKeeps DEF UpsertDrifted
  <1>2. PICK id \in DOMAIN hosts :
           /\ hosts[id].owner = intent.container
           /\ Commit("update", id, UpdateOf(hosts[id]))
    BY DEF UpsertDrifted, Matching, HavingUrl
  <1>3. id \in 1 .. MaxHostId /\ id < nextId
    BY NpmConstants DEF NpmTypeOK
  <1>4. /\ intent \in Intent /\ intent.kind = "upsert"
        /\ intent.container \in Containers
    BY Busy DEF UpsertDrifted, WriterTypeOK
  <1>5. \A d \in DOMAIN cache : cache[d] = id => d = intent.container
    BY <1>2, <1>4, NpmConstants DEF CacheOK, CacheSound
  <1>6. CacheOK' /\ cache' = cache
    BY <1>1, CacheKept DEF CallKeeps, UpsertDrifted
  <1>7. UpdateOf(hosts[id]) \in Patch /\ "update" \in Committed
    <2>1. hosts[id].target \in Targets
      BY DEF NpmTypeOK, Host
    <2>2. Diff(hosts[id]) \in SUBSET Field
      BY DEF Diff, Field
    <2> QED  BY <2>1, <2>2 DEF UpdateOf, Patch, Committed
  <1> QED
    BY <1>1, <1>2, <1>3, <1>4, <1>5, <1>6, <1>7, CommitKeeps DEF CallKeeps

\* upsert() without a host for the domain: nothing is chosen yet.
LEMMA UpsertMissingKeeps ==
    ASSUME WriterInv, UpsertMissing
    PROVE  WriterInv'
  <1> USE InvCache
  <1>1. CallKeeps /\ hosts' = hosts /\ nextId' = nextId
    BY NoEffectKeeps DEF UpsertMissing
  <1>2. CacheOK'
    BY <1>1, CacheKept DEF CallKeeps, UpsertMissing
  <1>3. /\ phase' = "create" /\ hostId' = 0 /\ patch' = NoPatch
        /\ UNCHANGED <<intent, seeded, restarts>>
        /\ phase = "upsert"
    BY DEF UpsertMissing, Commit
  <1>4. WriterTypeOK'
    BY <1>1, <1>2, <1>3, NpmConstants
    DEF WriterTypeOK, CacheOK, CallKeeps, Phase, Committed
  <1>5. IdsIssued'
    BY <1>1, <1>2, <1>3 DEF CacheOK, IdsIssued, NpmTypeOK
  <1> QED
    BY <1>2, <1>3, <1>4, <1>5
    DEF WriterInv, CacheOK, CommitSound, CommitNeverForeign, CommitUnshared,
        Committed

\* The update leaves owners alone, and the entry was its own before.
LEMMA UpdateKeeps ==
    ASSUME WriterInv, Update
    PROVE  WriterInv'
  <1> USE InvCache
  <1> DEFINE c == intent.container
  <1>1. c \in Containers /\ intent.target \in Targets /\ patch \in Patch
    BY Busy DEF Update, WriterTypeOK
  <1>2. /\ CallKeeps /\ nextId' = nextId /\ DOMAIN hosts' = DOMAIN hosts
        /\ PutOk(hostId, patch, c, intent.target) => hostId \in DOMAIN hosts
    BY <1>1, PutKeeps DEF Update
  <1>3. CASE UNCHANGED cache
    BY <1>2, <1>3, FinishKeeps DEF Update
  <1>4. CASE PutOk(hostId, patch, c, intent.target) /\ Remember(c, hostId)
    <2>1. hostId \in DOMAIN hosts /\ hostId \in 1 .. MaxHostId
          /\ hostId < nextId'
      BY <1>2, <1>4, NpmConstants DEF NpmTypeOK
    <2>2. hosts'[hostId].owner \in {c, NoOwner}
      BY <1>2, <2>1
      DEF CallKeeps, OwnersStay, WriterInv, CommitNeverForeign, Committed,
          Update
    <2>3. \A d \in DOMAIN cache : cache[d] = hostId => d = c
      BY DEF WriterInv, CommitUnshared, Committed, Update
    <2>4. CacheOK'
      BY <1>1, <1>2, <1>4, <2>1, <2>2, <2>3, CacheRemembers DEF CallKeeps
    <2> QED  BY <1>2, <2>4, DoneKeeps DEF Update, CallKeeps
  <1> QED  BY <1>3, <1>4 DEF Update

\* The body of a create is a host marked with the container in hand.
LEMMA NewHostTyped ==
    ASSUME WriterTypeOK, phase = "create"
    PROVE  NewHost \in Host /\ NewHost.owner = intent.container
  BY Busy, NpmConstants DEF NewHost, Host

\* A failed create may leave new hosts, under ids nobody holds.
LEMMA CreateFailedKeeps ==
    ASSUME WriterInv, CreateFailed
    PROVE  WriterInv'
  <1>1. CallKeeps
    BY InvCache, NewHostTyped, PostKeeps DEF CreateFailed
  <1> QED  BY <1>1, FinishKeeps DEF CreateFailed

\* A created host is the container's, and its id is in no entry.
LEMMA CreateKeeps ==
    ASSUME WriterInv, Create
    PROVE  WriterInv'
  <1> USE InvCache
  <1> DEFINE c == intent.container
             id == nextId' - 1
  <1>1. /\ c \in Containers /\ intent \in Intent /\ intent.kind = "upsert"
    BY Busy DEF Create, WriterTypeOK
  <1>2. /\ CallKeeps
        /\ id \in nextId .. MaxHostId
        /\ hosts'[id] = NewHost
    BY NewHostTyped, PostKeeps DEF Create
  <1>3. /\ id \in 1 .. MaxHostId /\ id < nextId'
        /\ hosts'[id].owner = c
    BY <1>2, NewHostTyped, NpmConstants DEF NpmTypeOK, CallKeeps, Create
  <1>4. \A d \in DOMAIN cache : cache[d] # id
    BY <1>2, NpmConstants DEF CacheOK, NpmTypeOK
  <1>5. CacheOK'
    BY <1>1, <1>2, <1>3, <1>4, CacheRemembers DEF CallKeeps, Create
  <1>6. CASE Done
    BY <1>2, <1>5, <1>6, DoneKeeps DEF CallKeeps
  <1>7. CASE Commit("cert", id, NoPatch)
    <2>1. \A d \in DOMAIN cache' : cache'[d] = id => d = c
      BY <1>4 DEF Create, Remember
    <2>2. "cert" \in Committed
      BY DEF Committed
    <2> QED
      BY <1>1, <1>2, <1>3, <1>5, <1>7, <2>1, <2>2, CommitKeeps DEF CallKeeps
  <1> QED  BY <1>6, <1>7 DEF Create

\* The certificate request keeps the choice of the host.
LEMMA RequestCertKeeps ==
    ASSUME WriterInv, RequestCert
    PROVE  WriterInv'
  <1> USE InvCache
  <1>1. CallKeeps /\ hosts' = hosts /\ nextId' = nextId
    BY NoEffectKeeps DEF RequestCert
  <1>2. CASE Done
    BY <1>1, <1>2, FinishKeeps DEF RequestCert
  <1>3. CASE Commit("attach", hostId, CertUpdate)
    <2>1. /\ phase = "cert" /\ phase' = "attach" /\ hostId' = hostId
          /\ patch' \in Patch /\ UNCHANGED <<cache, intent, seeded, restarts>>
      <3>1. phase = "cert" /\ UNCHANGED cache
        BY DEF RequestCert
      <3>2. intent.target \in Targets
        BY <3>1, Busy
      <3>3. CertUpdate \in Patch
        BY <3>2 DEF CertUpdate, Patch, Field
      <3> QED  BY <1>3, <3>1, <3>3 DEF Commit
    <2>2. CacheOK'
      BY <1>1, <2>1, CacheKept DEF CallKeeps
    <2>3. WriterTypeOK'
      BY <1>1, <2>1, <2>2
      DEF WriterTypeOK, CacheOK, CallKeeps, Phase, Committed, Field
    <2>4. IdsIssued'
      BY <1>1, <2>1, <2>2 DEF CacheOK, IdsIssued, WriterInv
    <2> QED
      BY <1>1, <2>1, <2>2, <2>3, <2>4
      DEF WriterInv, CacheOK, CommitSound, CommitNeverForeign,
          CommitUnshared, Committed
  <1> QED  BY <1>2, <1>3 DEF RequestCert

\* The update with the certificate changes no owner and ends the handler.
LEMMA AttachCertKeeps ==
    ASSUME WriterInv, AttachCert
    PROVE  WriterInv'
  <1>1. /\ intent.container \in Containers /\ intent.target \in Targets
        /\ patch \in Patch
    BY InvCache, Busy DEF AttachCert, WriterTypeOK
  <1>2. CallKeeps
    BY <1>1, InvCache, PutKeeps DEF AttachCert
  <1> QED  BY <1>2, FinishKeeps DEF AttachCert

\* remove() drops the entry of a host that is gone.
LEMMA RemoveAlreadyGoneKeeps ==
    ASSUME WriterInv, RemoveAlreadyGone
    PROVE  WriterInv'
  <1>1. CallKeeps
    BY InvCache, NoEffectKeeps DEF RemoveAlreadyGone, RemoveListed
  <1>2. CacheOK'
    BY <1>1, InvCache, CacheForgets DEF CallKeeps, RemoveAlreadyGone
  <1> QED  BY <1>1, <1>2, DoneKeeps DEF RemoveAlreadyGone, CallKeeps

\* remove() chooses the remembered host once it has seen its own marker.
LEMMA RemoveFoundKeeps ==
    ASSUME WriterInv, RemoveFound
    PROVE  WriterInv'
  <1> USE InvCache
  <1> DEFINE c == intent.container
             id == cache[c]
  <1>1. CallKeeps /\ hosts' = hosts /\ nextId' = nextId
    BY NoEffectKeeps DEF RemoveFound, RemoveListed
  <1>2. /\ c \in DOMAIN cache /\ cache' = cache
        /\ hosts[id].owner = c
        /\ Commit("delete", id, NoPatch)
    BY DEF RemoveFound, RemoveListed
  <1>3. intent \in Intent /\ intent.kind = "remove"
    BY Busy DEF RemoveFound, RemoveListed, WriterTypeOK
  <1>4. id \in 1 .. MaxHostId /\ id < nextId'
    BY <1>1, <1>2 DEF CacheOK
  <1>5. \A d \in DOMAIN cache' : cache'[d] = id => d = c
    BY <1>2 DEF CacheOK, CacheInjective
  <1>6. CacheOK'
    BY <1>1, <1>2, CacheKept DEF CallKeeps
  <1>7. "delete" \in Committed
    BY DEF Committed
  <1> QED
    BY <1>1, <1>2, <1>3, <1>4, <1>5, <1>6, <1>7, CommitKeeps DEF CallKeeps

\* The delete takes away the chosen host or nothing.
LEMMA DeleteActionKeeps ==
    ASSUME WriterInv, Delete
    PROVE  WriterInv'
  <1>1. CallKeeps
    BY InvCache, DeleteKeeps DEF Delete
  <1>2. CASE UNCHANGED cache
    BY <1>1, <1>2, FinishKeeps DEF Delete
  <1>3. CASE Forget(intent.container)
    <2>1. CacheOK'
      BY <1>1, <1>3, InvCache, CacheForgets DEF CallKeeps
    <2> QED  BY <1>1, <2>1, DoneKeeps DEF Delete, CallKeeps
  <1> QED  BY <1>2, <1>3 DEF Delete

\* A restart forgets everything, which is always good.
LEMMA RestartKeeps ==
    ASSUME WriterInv, Restart
    PROVE  WriterInv'
  <1>1. CallKeeps
    BY InvCache, NoEffectKeeps DEF Restart
  <1>2. /\ phase' = "seed" /\ intent' = NoIntent
        /\ hostId' = 0 /\ patch' = NoPatch /\ seeded' \in BOOLEAN
        /\ restarts' = restarts + 1 /\ restarts < MaxRestarts
    BY DEF Restart
  <1>3. DOMAIN cache' = {} /\ cache' \in [DOMAIN cache' -> 1 .. MaxHostId]
    BY DEF Restart
  <1>4. restarts' \in 0 .. MaxRestarts
    BY <1>2, WriterAssumption DEF WriterInv, WriterTypeOK
  <1>5. WriterTypeOK'
    <2>1. /\ phase' \in Phase
          /\ intent' \in Intent \cup {NoIntent}
          /\ phase' \in {"seed", "idle"} <=> intent' = NoIntent
          /\ phase' \in {"upsert", "create", "update", "cert", "attach"}
                => intent'.kind = "upsert"
          /\ phase' \in {"remove", "delete"} => intent'.kind = "remove"
      BY <1>2 DEF Phase
    <2>2. /\ hostId' \in 0 .. MaxHostId
          /\ phase' \in Committed => hostId' # 0
          /\ patch' \in Patch \cup {NoPatch} /\ seeded' \in BOOLEAN
          /\ phase' \in {"update", "attach"} => patch' \in Patch
      BY <1>2, NpmConstants DEF Committed
    <2>3. DOMAIN cache' \subseteq Containers
      BY <1>3
    <2> QED
      BY <1>1, <1>3, <1>4, <2>1, <2>2, <2>3 DEF WriterTypeOK, CallKeeps
  <1>6. IdsIssued' /\ CacheSound' /\ CacheInjective'
    BY <1>1, <1>2, <1>3
    DEF CallKeeps, NpmTypeOK, IdsIssued, CacheSound, CacheInjective
  <1> QED
    BY <1>2, <1>5, <1>6
    DEF WriterInv, CommitSound, CommitNeverForeign, CommitUnshared, Committed

\* People, and calls of the reconciler, between any two steps of the task.
LEMMA OthersKeep ==
    ASSUME WriterInv, User \/ OtherFault
    PROVE  WriterInv'
  <1> USE InvCache
  <1>0. UNCHANGED <<phase, intent, cache, hostId, patch, seeded, restarts>>
    BY DEF User, OtherFault, taskVars
  <1>1. CASE UserEdit \/ OtherFault
    <2>1. CallKeeps
      BY <1>1, UserEditKeeps, NoEffectKeeps DEF OtherFault
    <2>2. CacheOK'
      BY <1>0, <2>1, CacheKept DEF CallKeeps
    <2>3. WriterTypeOK' /\ IdsIssued'
      BY <1>0, <2>1 DEF WriterTypeOK, CallKeeps, IdsIssued, WriterInv,
                        OwnersStay, NpmTypeOK
    <2>4. CommitUnshared'
      BY <1>0 DEF WriterInv, CommitUnshared
    <2>5. CommitNeverForeign' /\ (~AdoptRaces => CommitSound')
      BY <1>0, <2>1
      DEF CallKeeps, OwnersStay, WriterInv, IdsIssued, CommitSound,
          CommitNeverForeign
    <2> QED  BY <2>2, <2>3, <2>4, <2>5 DEF WriterInv, CacheOK
  <1>2. CASE UserAdopt /\ (AdoptRaces \/ phase \notin Committed)
    <2>1. /\ NpmTypeOK' /\ nextId' = nextId /\ DOMAIN hosts' = DOMAIN hosts
          /\ \A i \in DOMAIN hosts :
                hosts'[i].owner \in {hosts[i].owner, NoOwner}
      BY <1>2, UserAdoptKeeps
    <2>2. WriterTypeOK' /\ IdsIssued' /\ CacheInjective' /\ CommitUnshared'
      BY <1>0, <2>1
      DEF WriterTypeOK, IdsIssued, WriterInv, CacheInjective, CommitUnshared
    <2>3. CacheSound'
      BY <1>0, <2>1 DEF WriterInv, CacheSound
    <2>4. CommitNeverForeign'
      BY <1>0, <2>1 DEF WriterInv, CommitNeverForeign
    <2>5. ~AdoptRaces => CommitSound'
      BY <1>0, <1>2 DEF CommitSound
    <2> QED  BY <2>2, <2>3, <2>4, <2>5 DEF WriterInv
  <1> QED  BY <1>1, <1>2 DEF User

-----------------------------------------------------------------------------
(* Theorems                                                                   *)

\* The invariant holds when the process first starts.
LEMMA InitInv == WriterInit => WriterInv
  <1> SUFFICES ASSUME WriterInit PROVE WriterInv
    OBVIOUS
  <1> USE NpmConstants, WriterAssumption
  <1>1. DOMAIN hosts = {} /\ hosts \in [DOMAIN hosts -> Host]
    BY DEF WriterInit, NpmInit
  <1>2. DOMAIN cache = {} /\ cache \in [DOMAIN cache -> 1 .. MaxHostId]
    BY DEF WriterInit
  <1>3. /\ phase = "seed" /\ intent = NoIntent /\ hostId = 0 /\ patch = NoPatch
        /\ seeded \in BOOLEAN /\ restarts = 0
        /\ nextId = 1 /\ faults = 0 /\ edits = 0
    BY DEF WriterInit, NpmInit
  <1>4. NpmTypeOK
    BY <1>1, <1>3 DEF NpmTypeOK
  <1>5. /\ phase \in Phase
        /\ intent \in Intent \cup {NoIntent}
        /\ phase \in {"seed", "idle"} <=> intent = NoIntent
        /\ phase \in {"upsert", "create", "update", "cert", "attach"}
              => intent.kind = "upsert"
        /\ phase \in {"remove", "delete"} => intent.kind = "remove"
        /\ phase \notin Committed
    BY <1>3 DEF Phase, Committed
  <1>6. WriterTypeOK
    BY <1>2, <1>3, <1>4, <1>5 DEF WriterTypeOK
  <1>7. IdsIssued /\ CacheSound /\ CacheInjective
    BY <1>2, <1>3 DEF IdsIssued, CacheSound, CacheInjective
  <1> QED
    BY <1>5, <1>6, <1>7
    DEF WriterInv, CommitSound, CommitNeverForeign, CommitUnshared

\* One step per action of WriterNext.
LEMMA StepInv == WriterInv /\ [WriterNext]_writerVars => WriterInv'
  <1> SUFFICES ASSUME WriterInv, [WriterNext]_writerVars PROVE WriterInv'
    OBVIOUS
  <1>1. CASE Seed \/ SeedFailed
    BY <1>1, SeedKeeps
  <1>2. CASE ListFailed \/ UpsertConflict \/ RemoveSkipped \/ RemoveRefused
    BY <1>2, NothingDone
  <1>3. CASE UpsertInSync
    BY <1>3, UpsertInSyncKeeps
  <1>4. CASE UpsertDrifted
    BY <1>4, UpsertDriftedKeeps
  <1>5. CASE UpsertMissing
    BY <1>5, UpsertMissingKeeps
  <1>6. CASE Update
    BY <1>6, UpdateKeeps
  <1>7. CASE Create \/ CreateFailed
    BY <1>7, CreateKeeps, CreateFailedKeeps
  <1>8. CASE RequestCert
    BY <1>8, RequestCertKeeps
  <1>9. CASE AttachCert
    BY <1>9, AttachCertKeeps
  <1>10. CASE RemoveAlreadyGone
    BY <1>10, RemoveAlreadyGoneKeeps
  <1>11. CASE RemoveFound
    BY <1>11, RemoveFoundKeeps
  <1>12. CASE Delete
    BY <1>12, DeleteActionKeeps
  <1>13. CASE \E i \in Intent : Accept(i)
    BY <1>13, AcceptKeeps
  <1>14. CASE User \/ OtherFault
    BY <1>14, OthersKeep
  <1>15. CASE Restart
    BY <1>15, RestartKeeps
  <1>16. CASE UNCHANGED writerVars
    BY <1>16
    DEF writerVars, npmVars, taskVars, WriterInv, WriterTypeOK, NpmTypeOK,
        IdsIssued, CacheSound, CacheInjective, CommitNeverForeign,
        CommitUnshared, CommitSound
  <1> QED
    BY <1>1, <1>2, <1>3, <1>4, <1>5, <1>6, <1>7, <1>8, <1>9, <1>10, <1>11,
       <1>12, <1>13, <1>14, <1>15, <1>16
    DEF WriterNext, WriterTask, Handle

\* The inductive invariant holds in every reachable state.
THEOREM Invariance == WriterSpec => []WriterInv
  BY InitInv, StepInv, PTL DEF WriterSpec

\* Every variable of the writer and of NPM keeps its type.
THEOREM TypeCorrect == WriterSpec => []WriterTypeOK
  <1>1. WriterInv => WriterTypeOK
    BY DEF WriterInv
  <1> QED  BY <1>1, Invariance, PTL

\* The cache never leads remove() to a host marked for another container,
\* whoever edits NPM and whatever calls fail.
THEOREM CacheCorrect == WriterSpec => []CacheSound
  <1>1. WriterInv => CacheSound
    BY DEF WriterInv
  <1> QED  BY <1>1, Invariance, PTL

\* No two containers lead to one host: removing one container never takes
\* the other's proxy away (remove() deletes the id it cached, mod.rs:236-256).
THEOREM CacheDistinct == WriterSpec => []CacheInjective
  <1>1. WriterInv => CacheInjective
    BY DEF WriterInv
  <1> QED  BY <1>1, Invariance, PTL

\* Between the list and the call that acts on it, the host a handler has
\* chosen never becomes another container's, whatever people do to it.
THEOREM CommitCorrect == WriterSpec => []CommitNeverForeign
  <1>1. WriterInv => CommitNeverForeign
    BY DEF WriterInv
  <1> QED  BY <1>1, Invariance, PTL

\* It stays the container's own, unless somebody removes its marker just
\* between the list and the call.
THEOREM CommitOwn ==
    ASSUME ~AdoptRaces
    PROVE  WriterSpec => []CommitSound
  <1>1. WriterInv => CommitSound
    BY DEF WriterInv
  <1> QED  BY <1>1, Invariance, PTL

\* The body of TouchesOnlyOwn.
OnlyOwn ==
    \A id \in DOMAIN hosts :
        \/ edits' # edits
        \/ id \in DOMAIN hosts' /\ hosts'[id] = hosts[id]
        \/ hosts[id].owner = intent.container

\* A step that is not a person's touches only hosts of the container in hand.
LEMMA StepOnlyOwn ==
    ~AdoptRaces /\ WriterInv /\ [WriterNext]_writerVars => OnlyOwn
  <1> SUFFICES ASSUME ~AdoptRaces, WriterInv, [WriterNext]_writerVars
               PROVE  OnlyOwn
    OBVIOUS
  <1> USE InvCache
  <1>1. CASE hosts' = hosts
    BY <1>1 DEF OnlyOwn
  <1>2. CASE Update \/ AttachCert
    <2>1. /\ intent.container \in Containers /\ intent.target \in Targets
          /\ patch \in Patch
      BY <1>2, Busy DEF Update, AttachCert, WriterTypeOK
    <2>2. /\ DOMAIN hosts' = DOMAIN hosts
          /\ \A i \in DOMAIN hosts \ {hostId} : hosts'[i] = hosts[i]
      <3>1. \/ PutOk(hostId, patch, intent.container, intent.target)
            \/ PutErr(hostId, patch, intent.container, intent.target)
        BY <1>2 DEF Update, AttachCert
      <3> QED  BY <2>1, <3>1, PutKeeps
    <2>3. hostId \in DOMAIN hosts => hosts[hostId].owner = intent.container
      BY <1>2 DEF WriterInv, CommitSound, Committed, Update, AttachCert
    <2> QED  BY <2>2, <2>3 DEF OnlyOwn
  <1>3. CASE Delete
    <2>1. \A i \in DOMAIN hosts :
             i # hostId => i \in DOMAIN hosts' /\ hosts'[i] = hosts[i]
      BY <1>3, DeleteKeeps DEF Delete
    <2>2. hostId \in DOMAIN hosts => hosts[hostId].owner = intent.container
      BY <1>3 DEF WriterInv, CommitSound, Committed, Delete
    <2> QED  BY <2>1, <2>2 DEF OnlyOwn
  <1>4. CASE Create \/ CreateFailed
    <2>1. /\ DOMAIN hosts \subseteq DOMAIN hosts'
          /\ \A i \in DOMAIN hosts : hosts'[i] = hosts[i]
      BY <1>4, NewHostTyped, PostKeeps DEF Create, CreateFailed
    <2> QED  BY <2>1 DEF OnlyOwn
  <1>5. CASE User
    BY <1>5, UserEditKeeps, UserAdoptKeeps DEF User, OnlyOwn
  <1>6. CASE Seed \/ SeedFailed \/ ListFailed \/ UpsertConflict
             \/ UpsertInSync \/ UpsertDrifted \/ UpsertMissing
             \/ RequestCert \/ RemoveSkipped \/ RemoveAlreadyGone
             \/ RemoveRefused \/ RemoveFound \/ OtherFault \/ Restart
             \/ \E i \in Intent : Accept(i)
    <2>1. NoEffect \/ FaultyNoEffect
      BY <1>6
      DEF Seed, SeedFailed, ListFailed, UpsertConflict, UpsertInSync,
          UpsertDrifted, UpsertMissing, RequestCert, RemoveSkipped,
          RemoveAlreadyGone, RemoveRefused, RemoveFound, RemoveListed,
          OtherFault, Restart, Accept
    <2> QED  BY <2>1, <1>1, NoEffectKeeps
  <1>7. CASE UNCHANGED writerVars
    BY <1>7, <1>1 DEF writerVars, npmVars
  <1> QED
    BY <1>2, <1>3, <1>4, <1>5, <1>6, <1>7
    DEF WriterNext, WriterTask, Handle

\* The service never updates or deletes a host that is not marked for the
\* container it is handling, provided no marker is removed between the list
\* that saw it and the call that follows.
THEOREM OwnershipRespected ==
    ASSUME ~AdoptRaces
    PROVE  WriterSpec => TouchesOnlyOwn
  <1>1. WriterInv /\ [WriterNext]_writerVars => [OnlyOwn]_<<hosts, edits>>
    BY StepOnlyOwn
  <1> QED  BY <1>1, Invariance, PTL DEF WriterSpec, TouchesOnlyOwn, OnlyOwn
=============================================================================
