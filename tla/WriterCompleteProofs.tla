------------------------- MODULE WriterCompleteProofs -------------------------
(* Theorems about Writer where a POST is executed once at most and nobody     *)
(* gives a marked host another domain name: a container has one host at most, *)
(* and, if no answer to a POST is lost, a cache that was seeded knows every   *)
(* host it must be able to remove.  Markers may vanish at any time, other     *)
(* hosts come, change and go.                                                 *)
EXTENDS WriterProofs

-----------------------------------------------------------------------------
(* The inductive invariant                                                    *)

\* A marked host answers for the domain of its container, so that the find()
\* of upsert() meets it (mod.rs:142).
MarkedAnswers ==
    \A id \in DOMAIN hosts :
        hosts[id].owner # NoOwner
            => UrlOf[hosts[id].owner] \in hosts[id].domains

\* A handler about to create has seen that its container has no host, and no
\* step but its own gives it one.
CreatesFirst == phase = "create" => OwnedBy(intent.container) = {}

\* A handler that has chosen a host has chosen the only one.
CommitOnly ==
    phase \in Committed => OwnedBy(intent.container) \subseteq {hostId}

\* Nobody need know the host of a POST whose answer was lost.
KnowsAll == ~LostResponses => CacheComplete

\* With WriterInv this is inductive.
FullInv ==
    /\ MarkedAnswers
    /\ OneHostPerContainer
    /\ KnowsAll
    /\ CreatesFirst
    /\ CommitOnly

-----------------------------------------------------------------------------
(* What the calls and the edits do to marks                                   *)

\* No host gets a mark, and marked hosts keep theirs and their domain.
MarksStay ==
    \A id \in DOMAIN hosts' :
        hosts'[id].owner # NoOwner =>
            /\ id \in DOMAIN hosts
            /\ hosts[id].owner = hosts'[id].owner
            /\ UrlOf[hosts'[id].owner] \in hosts'[id].domains

\* Calls that leave the table alone.
LEMMA TableMarks ==
    ASSUME MarkedAnswers, hosts' = hosts
    PROVE  MarksStay
  BY DEF MarksStay, MarkedAnswers

\* An update sends the domain of the container whose host it changes.
LEMMA PutMarks ==
    ASSUME NpmTypeOK, MarkedAnswers, NEW id, NEW p \in Patch,
           NEW c \in Containers, NEW t \in Targets,
           PutOk(id, p, c, t) \/ PutErr(id, p, c, t),
           id \in DOMAIN hosts => hosts[id].owner \in {c, NoOwner}
    PROVE  MarksStay
  <1>1. CASE hosts' = hosts
    BY <1>1, TableMarks
  <1>2. CASE PutApplied(id, p, c, t)
    <2>1. /\ id \in DOMAIN hosts /\ DOMAIN hosts' = DOMAIN hosts
          /\ \A i \in DOMAIN hosts : hosts'[i].owner = hosts[i].owner
          /\ \A i \in DOMAIN hosts : i # id => hosts'[i] = hosts[i]
      BY <1>2, PutAppliedKeeps
    <2>2. hosts'[id].domains \in {{UrlOf[c]}, hosts[id].domains}
      BY <1>2, <2>1 DEF PutApplied, Patched
    <2> QED  BY <2>1, <2>2 DEF MarksStay, MarkedAnswers
  <1> QED  BY <1>1, <1>2 DEF PutOk, PutErr

\* A delete takes one host away.
LEMMA DeleteMarks ==
    ASSUME NpmTypeOK, MarkedAnswers, NEW id, DeleteOk(id) \/ DeleteErr(id)
    PROVE  MarksStay
  <1>1. CASE hosts' = hosts
    BY <1>1, TableMarks
  <1>2. CASE DeleteApplied(id)
    <2>1. /\ DOMAIN hosts' \subseteq DOMAIN hosts
          /\ \A i \in DOMAIN hosts' : hosts'[i] = hosts[i]
      BY <1>2 DEF DeleteApplied, Restrict
    <2> QED  BY <2>1 DEF MarksStay, MarkedAnswers
  <1> QED  BY <1>1, <1>2 DEF DeleteOk, DeleteErr

\* Either NPM refuses the second copy of a host, or there is none.
ExecutedOnce == UniqueDomains \/ ~LostResponses

\* A POST made one host, at the next id.
Added(h) ==
    /\ nextId' - 1 = nextId
    /\ DOMAIN hosts' = DOMAIN hosts \cup {nextId}
    /\ hosts'[nextId] = h
    /\ nextId \notin DOMAIN hosts
    /\ \A i \in DOMAIN hosts : hosts'[i] = hosts[i]

\* One that succeeded did, one that failed only if its answer was lost.
LEMMA PostOnce ==
    ASSUME ExecutedOnce, NpmTypeOK, NEW h \in Host
    PROVE  /\ PostErr(h) => hosts' = hosts \/ (LostResponses /\ Added(h))
           /\ PostOk(h) => Added(h)
  <1>1. ASSUME NEW k \in 1 .. MaxAttempts, PostApplied(h, k)
        PROVE  Added(h)
    <2>1. k = 1
      BY <1>1, NpmConstants DEF PostApplied, ExecutedOnce
    <2>2. PostApplied(h, 1)
      BY <1>1, <2>1
    <2>3. nextId \in Nat
      BY NpmConstants DEF NpmTypeOK
    <2>4. /\ nextId' = nextId + 1
          /\ DOMAIN hosts' = DOMAIN hosts \cup nextId .. nextId + 1 - 1
          /\ \A i \in DOMAIN hosts : hosts'[i] = hosts[i]
          /\ \A i \in nextId .. nextId + 1 - 1 : hosts'[i] = h
      BY <2>2, PostAppliedKeeps
    <2>5. nextId .. nextId + 1 - 1 = {nextId} /\ nextId' - 1 = nextId
      BY <2>3, <2>4
    <2>6. nextId \notin DOMAIN hosts
      BY <2>3 DEF NpmTypeOK
    <2> QED  BY <2>4, <2>5, <2>6 DEF Added
  <1> QED  BY <1>1 DEF PostErr, PostOk

\* What people do, except that they give no host another domain instead.
LEMMA EditMarks ==
    ASSUME "redomain" \notin UserOps, NpmTypeOK, MarkedAnswers,
           UserEdit \/ UserAdopt
    PROVE  MarksStay
  <1>1. CASE UserCreate
    <2>1. PICK u \in Urls, t \in Targets :
             PostApplied([domains |-> {u}, owner |-> NoOwner, target |-> t,
                          tls |-> FALSE], 1)
      BY <1>1 DEF UserCreate
    <2> DEFINE h == [domains |-> {u}, owner |-> NoOwner, target |-> t,
                     tls |-> FALSE]
    <2>2. h \in Host /\ h.owner = NoOwner
      BY DEF Host
    <2>3. /\ DOMAIN hosts' = DOMAIN hosts \cup nextId .. nextId + 1 - 1
          /\ \A i \in DOMAIN hosts : hosts'[i] = hosts[i]
          /\ \A i \in nextId .. nextId + 1 - 1 : hosts'[i] = h
      <3> HIDE DEF h
      <3>1. PostApplied(h, 1)
        BY <2>1 DEF h
      <3> QED  BY <3>1, <2>2, PostAppliedKeeps
    <2> HIDE DEF h
    <2> QED  BY <2>2, <2>3 DEF MarksStay, MarkedAnswers
  <1>2. CASE UserDelete
    <2>1. PICK id \in DOMAIN hosts : DeleteApplied(id)
      BY <1>2 DEF UserDelete
    <2>2. /\ DOMAIN hosts' \subseteq DOMAIN hosts
          /\ \A i \in DOMAIN hosts' : hosts'[i] = hosts[i]
      BY <2>1 DEF DeleteApplied, Restrict
    <2> QED  BY <2>2 DEF MarksStay, MarkedAnswers
  <1>3. CASE UserDrift \/ UserAdopt
    <2>1. PICK id \in DOMAIN hosts :
             \/ \E t \in Targets : hosts' = [hosts EXCEPT ![id].target = t]
             \/ \E u \in Urls :
                   hosts' = [hosts EXCEPT ![id].domains = @ \cup {u}]
             \/ hosts' = [hosts EXCEPT ![id].owner = NoOwner]
      BY <1>3 DEF UserDrift, UserAdopt
    <2>2. hosts \in [DOMAIN hosts -> Host]
      BY DEF NpmTypeOK
    <2>3. /\ DOMAIN hosts' = DOMAIN hosts
          /\ \A i \in DOMAIN hosts :
                /\ hosts'[i].owner \in {hosts[i].owner, NoOwner}
                /\ hosts[i].domains \subseteq hosts'[i].domains
      BY <2>1, <2>2 DEF Host
    <2> QED  BY <2>3 DEF MarksStay, MarkedAnswers
  <1> QED  BY <1>1, <1>2, <1>3 DEF UserEdit, UserRedomain, Edit

-----------------------------------------------------------------------------
(* The parts of the invariant, over any step that keeps marks                 *)

\* The table alone.
LEMMA MarksKeepTable ==
    ASSUME FullInv, MarksStay
    PROVE  MarkedAnswers' /\ OneHostPerContainer'
  BY DEF FullInv, MarksStay, MarkedAnswers, OneHostPerContainer

\* A container without a host gets none; its only host stays the only one.
LEMMA MarksKeepOwned ==
    ASSUME MarksStay, NEW c \in Containers
    PROVE  OwnedBy(c)' \subseteq OwnedBy(c)
  BY NpmConstants DEF MarksStay, OwnedBy

\* What the cache knows it keeps knowing.
LEMMA MarksKeepCache ==
    ASSUME FullInv, MarksStay, UNCHANGED <<cache, seeded>>
    PROVE  KnowsAll'
  BY DEF FullInv, MarksStay, KnowsAll, CacheComplete

\* A handler returns with the cache as it was.
LEMMA FullFinish ==
    ASSUME FullInv, MarksStay, UNCHANGED cache, Done
    PROVE  FullInv'
  <1>1. MarkedAnswers' /\ OneHostPerContainer'
    BY MarksKeepTable
  <1>2. KnowsAll'
    BY MarksKeepCache DEF Done
  <1>3. CreatesFirst' /\ CommitOnly'
    BY DEF Done, CreatesFirst, CommitOnly, Committed
  <1> QED  BY <1>1, <1>2, <1>3 DEF FullInv

\* A handler returns having remembered the only host of its container.
LEMMA FullRemembered ==
    ASSUME FullInv, MarksStay, NEW c \in Containers, NEW id, Remember(c, id),
           OwnedBy(c) \subseteq {id}, Done
    PROVE  FullInv'
  <1>1. MarkedAnswers' /\ OneHostPerContainer'
    BY MarksKeepTable
  <1>2. KnowsAll'
    <2>1. /\ DOMAIN cache' = DOMAIN cache \cup {c} /\ cache'[c] = id
          /\ \A d \in DOMAIN cache : d # c => cache'[d] = cache[d]
      BY DEF Remember
    <2> QED
      BY <2>1, NpmConstants
      DEF FullInv, MarksStay, KnowsAll, CacheComplete, Done, OwnedBy
  <1>3. CreatesFirst' /\ CommitOnly'
    BY DEF Done, CreatesFirst, CommitOnly, Committed
  <1> QED  BY <1>1, <1>2, <1>3 DEF FullInv

\* A handler returns having forgotten a container that has no host.
LEMMA FullForgotten ==
    ASSUME FullInv, MarksStay, NEW c \in Containers, Forget(c), Done,
           \A id \in DOMAIN hosts' : hosts'[id].owner # c
    PROVE  FullInv'
  <1>1. MarkedAnswers' /\ OneHostPerContainer'
    BY MarksKeepTable
  <1>2. KnowsAll'
    <2>1. /\ DOMAIN cache' = DOMAIN cache \ {c}
          /\ \A d \in DOMAIN cache' : cache'[d] = cache[d]
      BY DEF Forget, Restrict
    <2> QED  BY <2>1 DEF FullInv, MarksStay, KnowsAll, CacheComplete, Done
  <1>3. CreatesFirst' /\ CommitOnly'
    BY DEF Done, CreatesFirst, CommitOnly, Committed
  <1> QED  BY <1>1, <1>2, <1>3 DEF FullInv

-----------------------------------------------------------------------------
(* The actions                                                                *)

\* The seed finds the one host of each owner.
LEMMA SeedFull ==
    ASSUME WriterInv, FullInv, Seed \/ SeedFailed
    PROVE  FullInv'
  <1>1. hosts' = hosts /\ UNCHANGED <<intent, hostId>> /\ phase' = "idle"
    BY InvCache, NoEffectKeeps DEF Seed, SeedFailed
  <1>2. MarksStay
    BY <1>1, TableMarks DEF FullInv
  <1>3. KnowsAll'
    <2>1. CASE SeedFailed
      BY <2>1, <1>2, MarksKeepCache DEF SeedFailed
    <2>2. CASE Seed
      <3>1. PICK f \in [Owners -> DOMAIN hosts] :
               (\A c \in Owners : hosts[f[c]].owner = c) /\ cache' = f
        BY <2>2 DEF Seed
      <3>2. ASSUME NEW id \in DOMAIN hosts, hosts[id].owner # NoOwner
            PROVE  /\ hosts[id].owner \in DOMAIN f
                   /\ f[hosts[id].owner] = id
        <4>1. hosts[id].owner \in Owners
          BY <3>2 DEF Owners
        <4>2. /\ f[hosts[id].owner] \in DOMAIN hosts
              /\ hosts[f[hosts[id].owner]].owner = hosts[id].owner
          BY <3>1, <4>1
        <4> QED
          BY <3>2, <4>1, <4>2 DEF FullInv, OneHostPerContainer
      <3> QED  BY <1>1, <3>1, <3>2 DEF KnowsAll, CacheComplete
    <2> QED  BY <2>1, <2>2
  <1> QED
    BY <1>1, <1>2, <1>3, MarksKeepTable
    DEF FullInv, CreatesFirst, CommitOnly, Committed

\* An intent is taken: nothing is chosen yet.
LEMMA AcceptFull ==
    ASSUME WriterInv, FullInv, NEW i \in Intent, Accept(i)
    PROVE  FullInv'
  <1>1. /\ hosts' = hosts /\ UNCHANGED <<cache, seeded>>
        /\ phase' \in {"upsert", "remove"}
    BY InvCache, NoEffectKeeps, IntentFields DEF Accept
  <1>2. MarksStay
    BY <1>1, TableMarks DEF FullInv
  <1> QED
    BY <1>1, <1>2, MarksKeepTable, MarksKeepCache
    DEF FullInv, CreatesFirst, CommitOnly, Committed

\* Handlers that end without changing the table or the cache.
LEMMA NothingFull ==
    ASSUME WriterInv, FullInv,
           ListFailed \/ UpsertConflict \/ RemoveSkipped \/ RemoveRefused
    PROVE  FullInv'
  <1>1. /\ NoEffect \/ FaultyNoEffect
        /\ Done /\ UNCHANGED cache
    BY DEF ListFailed, UpsertConflict, RemoveSkipped, RemoveRefused,
           RemoveListed
  <1>2. MarksStay
    BY <1>1, InvCache, NoEffectKeeps, TableMarks DEF FullInv
  <1> QED  BY <1>1, <1>2, FullFinish

\* What a handler finds marked for its container is its only host.
LEMMA FoundOnly ==
    ASSUME FullInv, NEW c \in Containers, NEW id \in DOMAIN hosts,
           hosts[id].owner = c
    PROVE  OwnedBy(c) = {id}
  BY NpmConstants DEF FullInv, OneHostPerContainer, OwnedBy

\* A host in step is remembered.
LEMMA UpsertInSyncFull ==
    ASSUME WriterInv, FullInv, UpsertInSync
    PROVE  FullInv'
  <1>1. intent.container \in Containers
    BY InvCache, Busy DEF UpsertInSync
  <1>2. MarksStay
    BY InvCache, NoEffectKeeps, TableMarks DEF UpsertInSync, FullInv
  <1>3. PICK id \in DOMAIN hosts : /\ hosts[id].owner = intent.container
                                   /\ Remember(intent.container, id)
    BY DEF UpsertInSync, Matching, HavingUrl
  <1>4. OwnedBy(intent.container) \subseteq {id}
    BY <1>1, <1>3, FoundOnly
  <1> QED
    BY <1>1, <1>2, <1>3, <1>4, FullRemembered DEF UpsertInSync

\* A handler goes on with the only host of its container.
LEMMA FullCommit ==
    ASSUME FullInv, MarksStay, UNCHANGED cache,
           intent.container \in Containers, NEW p \in Committed, NEW id, NEW u,
           Commit(p, id, u), OwnedBy(intent.container) \subseteq {id}
    PROVE  FullInv'
  <1>1. MarkedAnswers' /\ OneHostPerContainer'
    BY MarksKeepTable
  <1>2. KnowsAll'
    BY MarksKeepCache DEF Commit
  <1>3. CreatesFirst'
    BY DEF Commit, CreatesFirst, Committed
  <1>4. CommitOnly'
    <2>1. OwnedBy(intent.container)' \subseteq OwnedBy(intent.container)
      BY NpmConstants DEF MarksStay, OwnedBy, Commit
    <2> QED  BY <2>1 DEF Commit, CommitOnly
  <1> QED  BY <1>1, <1>2, <1>3, <1>4 DEF FullInv

\* A drifted host is chosen, or the remembered one for a delete.
LEMMA ChooseFull ==
    ASSUME WriterInv, FullInv, UpsertDrifted \/ RemoveFound
    PROVE  FullInv'
  <1>1. intent.container \in Containers
    BY InvCache, Busy DEF UpsertDrifted, RemoveFound, RemoveListed
  <1>2. MarksStay /\ UNCHANGED cache
    BY InvCache, NoEffectKeeps, TableMarks
    DEF UpsertDrifted, RemoveFound, RemoveListed, FullInv
  <1>3. \E id \in DOMAIN hosts, p \in Committed :
           /\ hosts[id].owner = intent.container
           /\ \E u \in {UpdateOf(hosts[id]), NoPatch} : Commit(p, id, u)
    BY DEF UpsertDrifted, RemoveFound, Matching, HavingUrl, Committed
  <1> QED  BY <1>1, <1>2, <1>3, FoundOnly, FullCommit

\* No host answers for the domain, so the container has none.
LEMMA UpsertMissingFull ==
    ASSUME WriterInv, FullInv, UpsertMissing
    PROVE  FullInv'
  <1>1. intent.container \in Containers
    BY InvCache, Busy DEF UpsertMissing
  <1>2. /\ hosts' = hosts /\ UNCHANGED <<cache, seeded, intent>>
        /\ phase' = "create"
    BY InvCache, NoEffectKeeps DEF UpsertMissing, Commit
  <1>3. MarksStay
    BY <1>2, TableMarks DEF FullInv
  <1>4. OwnedBy(intent.container) = {}
    BY <1>1, NpmConstants
    DEF UpsertMissing, Matching, HavingUrl, OwnedBy, FullInv, MarkedAnswers
  <1>5. CreatesFirst'
    BY <1>2, <1>4 DEF CreatesFirst, OwnedBy
  <1> QED
    BY <1>2, <1>3, <1>5, MarksKeepTable, MarksKeepCache
    DEF FullInv, CommitOnly, Committed

\* An update of the chosen host succeeds and is remembered, or fails.
LEMMA UpdateFull ==
    ASSUME WriterInv, FullInv, Update
    PROVE  FullInv'
  <1> DEFINE c == intent.container
  <1>1. c \in Containers /\ intent.target \in Targets /\ patch \in Patch
    BY InvCache, Busy DEF Update, WriterTypeOK
  <1>2. MarksStay
    BY <1>1, InvCache, PutMarks
    DEF Update, FullInv, WriterInv, CommitNeverForeign, Committed
  <1>3. OwnedBy(c) \subseteq {hostId}
    BY DEF FullInv, CommitOnly, Committed, Update
  <1>4. Done /\ (Remember(c, hostId) \/ UNCHANGED cache)
    BY DEF Update
  <1> QED  BY <1>1, <1>2, <1>3, <1>4, FullRemembered, FullFinish

\* The certificate update leaves mark and cache alone.
LEMMA AttachCertFull ==
    ASSUME WriterInv, FullInv, AttachCert
    PROVE  FullInv'
  <1>1. /\ intent.container \in Containers /\ intent.target \in Targets
        /\ patch \in Patch
    BY InvCache, Busy DEF AttachCert, WriterTypeOK
  <1>2. MarksStay
    BY <1>1, InvCache, PutMarks
    DEF AttachCert, FullInv, WriterInv, CommitNeverForeign, Committed
  <1> QED  BY <1>2, FullFinish DEF AttachCert

\* The certificate is there, or is given up.
LEMMA RequestCertFull ==
    ASSUME WriterInv, FullInv, RequestCert
    PROVE  FullInv'
  <1>1. intent.container \in Containers
    BY InvCache, Busy DEF RequestCert
  <1>2. MarksStay /\ UNCHANGED cache
    BY InvCache, NoEffectKeeps, TableMarks DEF RequestCert, FullInv
  <1>3. OwnedBy(intent.container) \subseteq {hostId}
    BY DEF FullInv, CommitOnly, Committed, RequestCert
  <1>4. Commit("attach", hostId, CertUpdate) \/ Done
    BY DEF RequestCert
  <1> QED
    BY <1>1, <1>2, <1>3, <1>4, FullCommit, FullFinish DEF Committed

\* A delete that succeeds has taken the only host.
LEMMA DeleteFull ==
    ASSUME WriterInv, FullInv, Delete
    PROVE  FullInv'
  <1> DEFINE c == intent.container
  <1>1. c \in Containers
    BY InvCache, Busy DEF Delete
  <1>2. MarksStay /\ Done
    BY InvCache, DeleteMarks DEF Delete, FullInv
  <1>3. CASE DeleteOk(hostId) /\ Forget(c)
    <2>1. hostId \notin DOMAIN hosts'
      BY <1>3, InvCache, DeleteKeeps
    <2>2. \A id \in DOMAIN hosts' : hosts'[id].owner # c
      BY <1>1, <1>2, <2>1, NpmConstants
      DEF MarksStay, FullInv, CommitOnly, Committed, Delete, OwnedBy
    <2> QED  BY <1>1, <1>2, <1>3, <2>2, FullForgotten
  <1>4. CASE UNCHANGED cache
    BY <1>2, <1>4, FullFinish
  <1> QED  BY <1>3, <1>4 DEF Delete

\* The remembered host is gone, and there is no other.
LEMMA RemoveAlreadyGoneFull ==
    ASSUME WriterInv, FullInv, RemoveAlreadyGone
    PROVE  FullInv'
  <1> DEFINE c == intent.container
  <1>1. c \in Containers
    BY InvCache, Busy DEF RemoveAlreadyGone, RemoveListed
  <1>2. MarksStay /\ hosts' = hosts
    BY InvCache, NoEffectKeeps, TableMarks
    DEF RemoveAlreadyGone, RemoveListed, FullInv
  <1>3. CASE seeded /\ ~LostResponses
    <2>1. \A id \in DOMAIN hosts' : hosts'[id].owner # c
      BY <1>1, <1>2, <1>3, NpmConstants
      DEF RemoveAlreadyGone, FullInv, KnowsAll, CacheComplete
    <2> QED
      BY <1>1, <1>2, <2>1, FullForgotten DEF RemoveAlreadyGone
  <1>4. CASE ~seeded \/ LostResponses
    BY <1>2, <1>4, MarksKeepTable
    DEF RemoveAlreadyGone, Done, FullInv, KnowsAll, CacheComplete,
        CreatesFirst, CommitOnly, Committed
  <1> QED  BY <1>3, <1>4

\* The created host is the first of its container.
LEMMA CreateFirst ==
    ASSUME WriterInv, FullInv, Create \/ CreateFailed, Added(NewHost)
    PROVE  MarkedAnswers' /\ OneHostPerContainer'
  <1>1. /\ intent.container \in Containers
        /\ NewHost.owner = intent.container
        /\ NewHost.domains = {UrlOf[intent.container]}
    BY InvCache, Busy DEF Create, CreateFailed, NewHost
  <1>2. OwnedBy(intent.container) = {}
    BY DEF Create, CreateFailed, FullInv, CreatesFirst
  <1>3. MarkedAnswers'
    BY <1>1 DEF Added, FullInv, MarkedAnswers
  <1>4. OneHostPerContainer'
    BY <1>1, <1>2 DEF Added, FullInv, OneHostPerContainer, OwnedBy
  <1> QED  BY <1>3, <1>4

\* A create that failed has left nothing behind, or its answer was lost.
LEMMA CreateFailedFull ==
    ASSUME ExecutedOnce, WriterInv, FullInv, CreateFailed
    PROVE  FullInv'
  <1>1. hosts' = hosts \/ (LostResponses /\ Added(NewHost))
    BY InvCache, NewHostTyped, PostOnce DEF CreateFailed
  <1>2. CASE hosts' = hosts
    BY <1>2, TableMarks, FullFinish DEF FullInv, CreateFailed
  <1>3. CASE LostResponses /\ Added(NewHost)
    BY <1>3, CreateFirst
    DEF CreateFailed, Done, FullInv, KnowsAll, CreatesFirst, CommitOnly,
        Committed
  <1> QED  BY <1>1, <1>2, <1>3

\* The created host is remembered.
LEMMA CreateFull ==
    ASSUME ExecutedOnce, WriterInv, FullInv, Create
    PROVE  FullInv'
  <1> DEFINE c == intent.container
             n == nextId
  <1>1. c \in Containers /\ NewHost.owner = c
    BY InvCache, Busy DEF Create, NewHost
  <1>2. Added(NewHost)
    BY InvCache, NewHostTyped, PostOnce DEF Create
  <1>3. OwnedBy(c) = {}
    BY DEF Create, FullInv, CreatesFirst
  <1>4. MarkedAnswers' /\ OneHostPerContainer'
    BY <1>2, CreateFirst
  <1>5. /\ DOMAIN cache' = DOMAIN cache \cup {c} /\ cache'[c] = n
        /\ \A d \in DOMAIN cache : d # c => cache'[d] = cache[d]
    BY <1>2 DEF Create, Remember, Added
  <1>6. /\ UNCHANGED seeded
        /\ \/ phase' = "idle"
           \/ phase' = "cert" /\ hostId' = n /\ intent' = intent
    BY <1>2 DEF Create, Commit, Done, Added
  <1>7. KnowsAll'
    BY <1>1, <1>2, <1>3, <1>5, <1>6
    DEF Added, FullInv, KnowsAll, CacheComplete, OwnedBy
  <1>8. CreatesFirst' /\ CommitOnly'
    BY <1>1, <1>2, <1>3, <1>6
    DEF Added, CreatesFirst, CommitOnly, Committed, OwnedBy
  <1> QED  BY <1>4, <1>7, <1>8 DEF FullInv

\* People at NPM and calls of the other task, during any call of the writer.
LEMMA OthersFull ==
    ASSUME "redomain" \notin UserOps, WriterInv, FullInv, User \/ OtherFault
    PROVE  FullInv'
  <1>1. UNCHANGED taskVars
    BY DEF User, OtherFault
  <1>2. MarksStay
    BY InvCache, EditMarks, NoEffectKeeps, TableMarks
    DEF User, OtherFault, FullInv
  <1>3. MarkedAnswers' /\ OneHostPerContainer'
    BY <1>2, MarksKeepTable
  <1>4. KnowsAll'
    BY <1>1, <1>2, MarksKeepCache DEF taskVars
  <1>5. phase \notin {"seed", "idle"}
           => OwnedBy(intent.container)' \subseteq OwnedBy(intent.container)
    BY <1>1, <1>2, InvCache, Busy, NpmConstants
    DEF taskVars, MarksStay, OwnedBy
  <1>6. CreatesFirst' /\ CommitOnly'
    BY <1>1, <1>5 DEF taskVars, FullInv, CreatesFirst, CommitOnly, Committed
  <1> QED  BY <1>3, <1>4, <1>6 DEF FullInv

\* A restart forgets the cache, and that it was seeded.
LEMMA RestartFull ==
    ASSUME WriterInv, FullInv, Restart
    PROVE  FullInv'
  <1>1. MarksStay
    BY InvCache, NoEffectKeeps, TableMarks DEF Restart, FullInv
  <1> QED
    BY <1>1, MarksKeepTable
    DEF Restart, FullInv, KnowsAll, CacheComplete, CreatesFirst, CommitOnly,
        Committed

-----------------------------------------------------------------------------
(* The theorems                                                               *)

\* It holds when there are no hosts.
LEMMA InitFull == WriterInit => FullInv
  BY DEF WriterInit, NpmInit, FullInv, MarkedAnswers, OneHostPerContainer,
         KnowsAll, CacheComplete, CreatesFirst, CommitOnly, Committed

\* Every step of the writer and of people keeps it.
LEMMA StepFull ==
    ASSUME ExecutedOnce, "redomain" \notin UserOps, WriterInv, FullInv,
           [WriterNext]_writerVars
    PROVE  FullInv'
  <1>1. CASE Seed \/ SeedFailed
    BY <1>1, SeedFull
  <1>2. ASSUME NEW i \in Intent, Accept(i)
        PROVE  FullInv'
    BY <1>2, AcceptFull
  <1>3. CASE ListFailed \/ UpsertConflict \/ RemoveSkipped \/ RemoveRefused
    BY <1>3, NothingFull
  <1>4. CASE UpsertInSync
    BY <1>4, UpsertInSyncFull
  <1>5. CASE UpsertDrifted \/ RemoveFound
    BY <1>5, ChooseFull
  <1>6. CASE UpsertMissing
    BY <1>6, UpsertMissingFull
  <1>7. CASE Update
    BY <1>7, UpdateFull
  <1>8. CASE Create
    BY <1>8, CreateFull
  <1>9. CASE CreateFailed
    BY <1>9, CreateFailedFull
  <1>10. CASE RequestCert
    BY <1>10, RequestCertFull
  <1>11. CASE AttachCert
    BY <1>11, AttachCertFull
  <1>12. CASE RemoveAlreadyGone
    BY <1>12, RemoveAlreadyGoneFull
  <1>13. CASE Delete
    BY <1>13, DeleteFull
  <1>14. CASE User \/ OtherFault
    BY <1>14, OthersFull
  <1>15. CASE Restart
    BY <1>15, RestartFull
  <1>16. CASE UNCHANGED writerVars
    <2>1. MarksStay
      BY <1>16, TableMarks DEF writerVars, npmVars, FullInv
    <2> QED
      BY <1>16, <2>1, MarksKeepTable, MarksKeepCache
      DEF writerVars, taskVars, npmVars, FullInv, CreatesFirst, CommitOnly,
          OwnedBy
  <1> QED
    BY <1>1, <1>2, <1>3, <1>4, <1>5, <1>6, <1>7, <1>8, <1>9, <1>10, <1>11,
       <1>12, <1>13, <1>14, <1>15, <1>16
    DEF WriterNext, WriterTask, Handle

\* The inductive invariant, together with that of WriterProofs.
LEMMA FullInvariance ==
    ASSUME ExecutedOnce, "redomain" \notin UserOps
    PROVE  WriterSpec => []FullInv
  <1>1. WriterInv /\ FullInv /\ [WriterNext]_writerVars => FullInv'
    BY StepFull
  <1> QED  BY InitFull, <1>1, Invariance, PTL DEF WriterSpec

\* While NPM refuses the second copy of a host, or no POST is executed behind
\* a lost answer, and nobody renames a marked host, upsert() never gives a
\* container a second host, through any failed call, restart, drift or intent.
THEOREM NeverTwoHosts ==
    ASSUME UniqueDomains \/ ~LostResponses, "redomain" \notin UserOps
    PROVE  WriterSpec => []OneHostPerContainer
  <1>1. ExecutedOnce
    BY DEF ExecutedOnce
  <1>2. FullInv => OneHostPerContainer
    BY DEF FullInv
  <1> QED  BY <1>1, <1>2, FullInvariance, PTL

\* If no answer to a POST is lost, a cache that was seeded knows every marked
\* host, also those marked before this process began: remove() misses none
\* (mod.rs:236).
THEOREM CacheKnowsAll ==
    ASSUME ~LostResponses, "redomain" \notin UserOps
    PROVE  WriterSpec => []CacheComplete
  <1>1. ExecutedOnce
    BY DEF ExecutedOnce
  <1>2. FullInv => CacheComplete
    BY DEF FullInv, KnowsAll
  <1> QED  BY <1>1, <1>2, FullInvariance, PTL
=============================================================================
