-------------------------------- MODULE Writer --------------------------------
(* writer/mod.rs: the NpmWriter task, the only one that changes NPM.  It      *)
(* takes one intent at a time and carries it out with one list call and at    *)
(* most three more; each call is a step, and what the task decides on a       *)
(* list's answer is part of the step that made the list.  Between two steps   *)
(* people edit NPM, and the process may be killed and started again.          *)
(* WriterSpec closes the module with the most general source of intents: any  *)
(* intent at any time.  Sync supplies the real source.                        *)
EXTENDS Npm

CONSTANTS
    TokenUrls,        \* domains TokenResolver has a Cloudflare token for
    CleanupOnRemove,  \* WriterConfig::cleanup_on_remove
    AdoptRaces,       \* a marker may be removed while a call is pending
    MaxRestarts       \* bound on restarts of the process

ASSUME WriterAssumption ==
    /\ TokenUrls \subseteq Urls
    /\ CleanupOnRemove \in BOOLEAN
    /\ AdoptRaces \in BOOLEAN
    /\ MaxRestarts \in Nat

VARIABLES
    phase,      \* the call about to be made, or "idle" at rx.recv()
    intent,     \* the intent in hand
    cache,      \* container id -> proxy host id, a partial function
    hostId,     \* the host an update, cert, attach or delete call is about
    patch,      \* the pending update
    seeded,     \* history: this process filled its cache from NPM
    restarts    \* restarts so far

taskVars   == <<phase, intent, cache, hostId, patch, seeded>>
writerVars == <<npmVars, taskVars, restarts>>

\* The phases in which the task has listed the hosts, chosen one and not yet
\* acted on it.
Committed == {"update", "cert", "attach", "delete"}
Phase     == {"seed", "idle", "upsert", "create", "remove"} \cup Committed

NoPatch == [fields |-> {}]

WriterTypeOK ==
    /\ NpmTypeOK
    /\ phase \in Phase
    /\ intent \in Intent \cup {NoIntent}
    /\ phase \in {"seed", "idle"} <=> intent = NoIntent
    /\ phase \in {"upsert", "create", "update", "cert", "attach"}
          => intent.kind = "upsert"
    /\ phase \in {"remove", "delete"} => intent.kind = "remove"
    /\ DOMAIN cache \subseteq Containers
    /\ cache \in [DOMAIN cache -> 1 .. MaxHostId]
    /\ hostId \in 0 .. MaxHostId
    /\ phase \in Committed => hostId # 0
    /\ patch \in Patch \cup {NoPatch}
    /\ phase \in {"update", "attach"} => patch \in Patch
    /\ seeded \in BOOLEAN
    /\ restarts \in 0 .. MaxRestarts

WriterInit ==
    /\ NpmInit
    /\ phase = "seed"
    /\ intent = NoIntent
    /\ cache = << >>
    /\ hostId = 0
    /\ patch = NoPatch
    /\ seeded = FALSE
    /\ restarts = 0

-----------------------------------------------------------------------------
(* run(): seed the cache, then take intents                                   *)

Remember(c, id) ==
    cache' = [d \in DOMAIN cache \cup {c} |-> IF d = c THEN id ELSE cache[d]]

Forget(c) == cache' = Restrict(cache, DOMAIN cache \ {c})

\* handle() returns: the task is back at rx.recv().
Done ==
    /\ phase' = "idle"
    /\ intent' = NoIntent
    /\ hostId' = 0
    /\ patch' = NoPatch
    /\ UNCHANGED <<seeded, restarts>>

Commit(p, id, update) ==
    /\ phase' = p
    /\ hostId' = id
    /\ patch' = update
    /\ UNCHANGED <<intent, seeded, restarts>>

\* Broken: hosts without a marker are seeded too.
AllOwners == {hosts[id].owner : id \in DOMAIN hosts}

Owners == {hosts[id].owner : id \in DOMAIN hosts} \ {NoOwner}

\* Every marked host is inserted; of two with one owner the last listed stays.
Seed ==
    /\ phase = "seed"
    /\ \E f \in [Owners -> DOMAIN hosts] :
          /\ \A c \in Owners : hosts[f[c]].owner = c
          /\ cache' = f
    /\ phase' = "idle"
    /\ seeded' = TRUE
    /\ NoEffect
    /\ UNCHANGED <<intent, hostId, patch, restarts>>

\* The list failed: the error is logged and the cache stays empty.
SeedFailed ==
    /\ phase = "seed"
    /\ phase' = "idle"
    /\ FaultyNoEffect
    /\ UNCHANGED <<intent, cache, hostId, patch, seeded, restarts>>

Accept(i) ==
    /\ phase = "idle"
    /\ intent' = i
    /\ phase' = i.kind
    /\ NoEffect
    /\ UNCHANGED <<cache, hostId, patch, seeded, restarts>>

-----------------------------------------------------------------------------
(* upsert()                                                                   *)

\* Broken: only a host with exactly the one domain counts as existing.
MatchingExactly ==
    {id \in DOMAIN hosts : hosts[id].domains = {UrlOf[intent.container]}}

\* The hosts that iter().find may return; the order of a list is NPM's.
Matching == HavingUrl(UrlOf[intent.container])

\* Broken: a new forward host is not noticed.
DiffDomains(h) ==
    IF h.domains = {UrlOf[intent.container]} THEN {} ELSE {"domains"}

\* diff_spec(): the fields in which the host differs from the spec.  ssl is
\* not one of them.
Diff(h) ==
    (IF h.target = intent.target THEN {} ELSE {"target"})
      \cup (IF h.domains = {UrlOf[intent.container]} THEN {} ELSE {"domains"})

UpdateOf(h) == [fields |-> Diff(h), seen |-> h.target]

\* The list call of upsert() or remove() fails and `?` ends the handler.
ListFailed ==
    /\ \/ phase = "upsert"
       \/ /\ phase = "remove" /\ CleanupOnRemove
          /\ intent.container \in DOMAIN cache
    /\ FaultyNoEffect
    /\ Done
    /\ UNCHANGED cache

\* Broken: a host the cache does not know is taken for another's.
ConflictUnlessCached ==
    /\ phase = "upsert"
    /\ \E id \in Matching : \/ hosts[id].owner # intent.container
                            \/ intent.container \notin DOMAIN cache
    /\ NoEffect
    /\ Done
    /\ UNCHANGED cache

UpsertConflict ==
    /\ phase = "upsert"
    /\ \E id \in Matching : hosts[id].owner # intent.container
    /\ NoEffect
    /\ Done
    /\ UNCHANGED cache

\* Broken: a host that is as it should be is remembered whoever owns it.
InSyncUnchecked ==
    /\ phase = "upsert"
    /\ \E id \in Matching :
          /\ Diff(hosts[id]) = {}
          /\ Remember(intent.container, id)
    /\ NoEffect
    /\ Done

UpsertInSync ==
    /\ phase = "upsert"
    /\ \E id \in Matching :
          /\ hosts[id].owner = intent.container
          /\ Diff(hosts[id]) = {}
          /\ Remember(intent.container, id)
    /\ NoEffect
    /\ Done

\* Broken: the marker is not compared before an update.
DriftedUnchecked ==
    /\ phase = "upsert"
    /\ \E id \in Matching :
          /\ Diff(hosts[id]) # {}
          /\ Commit("update", id, UpdateOf(hosts[id]))
    /\ NoEffect
    /\ UNCHANGED cache

UpsertDrifted ==
    /\ phase = "upsert"
    /\ \E id \in Matching :
          /\ hosts[id].owner = intent.container
          /\ Diff(hosts[id]) # {}
          /\ Commit("update", id, UpdateOf(hosts[id]))
    /\ NoEffect
    /\ UNCHANGED cache

UpsertMissing ==
    /\ phase = "upsert"
    /\ Matching = {}
    /\ Commit("create", 0, NoPatch)
    /\ NoEffect
    /\ UNCHANGED cache

Update ==
    /\ phase = "update"
    /\ \/ /\ PutOk(hostId, patch, intent.container, intent.target)
          /\ Remember(intent.container, hostId)
       \/ /\ PutErr(hostId, patch, intent.container, intent.target)
          /\ UNCHANGED cache
    /\ Done

\* The CreateProxyHost body, marker included.
NewHost == [domains |-> {UrlOf[intent.container]}, owner |-> intent.container,
            target |-> intent.target, tls |-> FALSE]

CreateFailed ==
    /\ phase = "create"
    /\ PostErr(NewHost)
    /\ Done
    /\ UNCHANGED cache

\* The new host is cached.  Without ssl, or without a Cloudflare token for
\* the domain, that is all; else the certificate is next.
Create ==
    /\ phase = "create"
    /\ PostOk(NewHost)
    /\ Remember(intent.container, nextId' - 1)
    /\ IF /\ intent.container \in SslContainers
          /\ UrlOf[intent.container] \in TokenUrls
       THEN Commit("cert", nextId' - 1, NoPatch)
       ELSE Done

\* certificate_id and ssl_forced.
CertUpdate == [fields |-> {"tls"}, seen |-> intent.target]

RequestCert ==
    /\ phase = "cert"
    /\ \/ NoEffect /\ Commit("attach", hostId, CertUpdate)
       \/ FaultyNoEffect /\ Done
    /\ UNCHANGED cache

\* The update that sets them.
AttachCert ==
    /\ phase = "attach"
    /\ \/ PutOk(hostId, patch, intent.container, intent.target)
       \/ PutErr(hostId, patch, intent.container, intent.target)
    /\ Done
    /\ UNCHANGED cache

-----------------------------------------------------------------------------
(* remove()                                                                   *)

\* No cleanup configured, or the cache does not know the container: no call.
RemoveSkipped ==
    /\ phase = "remove"
    /\ ~CleanupOnRemove \/ intent.container \notin DOMAIN cache
    /\ NoEffect
    /\ Done
    /\ UNCHANGED cache

RemoveListed ==
    /\ phase = "remove"
    /\ CleanupOnRemove
    /\ intent.container \in DOMAIN cache
    /\ NoEffect

RemoveAlreadyGone ==
    /\ RemoveListed
    /\ cache[intent.container] \notin DOMAIN hosts
    /\ Forget(intent.container)
    /\ Done

\* No marker, or another container's: the host is left alone.
RemoveRefused ==
    /\ RemoveListed
    /\ cache[intent.container] \in DOMAIN hosts
    /\ hosts[cache[intent.container]].owner # intent.container
    /\ Done
    /\ UNCHANGED cache

\* Broken: the cache is trusted and the marker not read.
RemoveUnchecked ==
    /\ RemoveListed
    /\ cache[intent.container] \in DOMAIN hosts
    /\ Commit("delete", cache[intent.container], NoPatch)
    /\ UNCHANGED cache

RemoveFound ==
    /\ RemoveListed
    /\ cache[intent.container] \in DOMAIN hosts
    /\ hosts[cache[intent.container]].owner = intent.container
    /\ Commit("delete", cache[intent.container], NoPatch)
    /\ UNCHANGED cache

\* Broken: the entry is dropped before the outcome is known.
DeleteForgetsFirst ==
    /\ phase = "delete"
    /\ DeleteOk(hostId) \/ DeleteErr(hostId)
    /\ Forget(intent.container)
    /\ Done

Delete ==
    /\ phase = "delete"
    /\ \/ DeleteOk(hostId) /\ Forget(intent.container)
       \/ DeleteErr(hostId) /\ UNCHANGED cache
    /\ Done

-----------------------------------------------------------------------------
(* The whole task, and what happens around it                                 *)

Handle ==
    \/ ListFailed
    \/ UpsertConflict \/ UpsertInSync \/ UpsertDrifted \/ UpsertMissing
    \/ Update \/ Create \/ CreateFailed \/ RequestCert \/ AttachCert
    \/ RemoveSkipped \/ RemoveAlreadyGone \/ RemoveRefused \/ RemoveFound
    \/ Delete

WriterTask == Seed \/ SeedFailed \/ Handle

\* The process is killed at any await and started again: all it knew is lost.
Restart ==
    /\ restarts < MaxRestarts
    /\ restarts' = restarts + 1
    /\ phase' = "seed"
    /\ intent' = NoIntent
    /\ cache' = << >>
    /\ hostId' = 0
    /\ patch' = NoPatch
    /\ seeded' = FALSE
    /\ NoEffect

User ==
    /\ \/ UserEdit
       \/ UserAdopt /\ (AdoptRaces \/ phase \notin Committed)
    /\ UNCHANGED <<taskVars, restarts>>

\* A call of another task to the same NPM fails: the reconciler's list.
OtherFault == FaultyNoEffect /\ UNCHANGED <<taskVars, restarts>>

WriterNext ==
    \/ WriterTask
    \/ \E i \in Intent : Accept(i)
    \/ OtherFault
    \/ User
    \/ Restart

WriterSpec == WriterInit /\ [][WriterNext]_writerVars

-----------------------------------------------------------------------------
(* Properties                                                                 *)

\* The cache never leads to a host that another container's marker is on: an
\* entry names a host that is gone, is the container's, or has lost its marker
\* (mod.rs:168, 197 insert; 236 trusts the entry in remove()).
CacheSound ==
    \A c \in DOMAIN cache :
        cache[c] \in DOMAIN hosts
            => hosts[cache[c]].owner \in {c, NoOwner}

\* No two containers are remembered with one host, so that the managed_hosts
\* gauge, which is cache.len() (mod.rs:78, 169, 198), counts a host once.
CacheInjective ==
    \A c, d \in DOMAIN cache : cache[c] = cache[d] => c = d

\* Whatever people do between the list that chose a host and the call that
\* acts on it (mod.rs:141 to 166, 241 to 256), the chosen id is still the
\* container's own or names nothing.  Not so under AdoptRaces.
CommitSound ==
    phase \in Committed /\ hostId \in DOMAIN hosts
        => hosts[hostId].owner = intent.container

\* The same while markers may be removed at any time: the chosen host is the
\* container's own, or has lost its marker.
CommitNeverForeign ==
    phase \in Committed /\ hostId \in DOMAIN hosts
        => hosts[hostId].owner \in {intent.container, NoOwner}

\* README: the service only ever updates or deletes hosts that carry its
\* marker.  Sharper: every host a step of the program changes or deletes is
\* marked with the container whose intent is in hand.
TouchesOnlyOwn ==
    [][\A id \in DOMAIN hosts :
          \/ edits' # edits
          \/ id \in DOMAIN hosts' /\ hosts'[id] = hosts[id]
          \/ hosts[id].owner = intent.container]_<<hosts, edits>>

\* A container never has two hosts, through retries of a list or an update,
\* restarts and drift (mod.rs:142 finds the first one before it creates).
\* Lost POST answers and a changed domain name are what breaks it.
OneHostPerContainer ==
    \A i, j \in DOMAIN hosts :
        hosts[i].owner = hosts[j].owner /\ hosts[i].owner # NoOwner => i = j

\* Once the seed succeeded, every marked host can be removed: remove() finds
\* hosts through the cache alone (mod.rs:236), so a host it does not know
\* outlives its container.
CacheComplete ==
    seeded => \A id \in DOMAIN hosts :
        hosts[id].owner # NoOwner
            => /\ hosts[id].owner \in DOMAIN cache
               /\ cache[hosts[id].owner] = id
=============================================================================
