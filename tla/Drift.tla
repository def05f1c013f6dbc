-------------------------------- MODULE Drift --------------------------------
(* One container and its proxy host, field by field: the upsert() of          *)
(* writer/mod.rs with real patches, fed by inspections whose answer changes   *)
(* as the container is renamed or readdressed, by restarts with another       *)
(* configuration, and by people who edit single fields of the host.  Writer   *)
(* has one value for all that is forwarded; Drift shows that its patches do   *)
(* to that value what the fields do.                                          *)
EXTENDS Specs, Functions, Sequences

CONSTANTS
    LabelSets,      \* the labels a container may have been created with
    ExposedSets,    \* the ports its image may expose
    Names,          \* the names it may have
    Addresses,      \* network -> address, as inspected at some time
    Configs,        \* defaults and forwarding of the process
    Alias,          \* a domain a person adds
    UserPorts,      \* the ports a person may set
    UserHosts,      \* the forward hosts a person may set
    NoHost, NoSpec, Me, Nobody,
    MaxMoves,       \* bound on changes of name and address
    MaxFaults, MaxEdits, MaxRestarts

\* What a label, or its absence, can be read as; the defaults are all there.
Value(type) == type \cup {Absent, Bad}

LabelSet == [port : Value(Nat), scheme : Value(Scheme), ssl : Value(BOOLEAN),
             websockets : Value(BOOLEAN), blockExploits : Value(BOOLEAN)]

DefaultSet == [scheme : Scheme, ssl : BOOLEAN, websockets : BOOLEAN,
               blockExploits : BOOLEAN]

VARIABLES
    facts,          \* the container as inspect shows it now
    earlier,        \* what it showed before, since the process started
    config,         \* of the running process
    host,           \* the host with the container's marker, or NoHost
    phase,          \* the call the writer is about to make
    spec,           \* the spec of the intent in hand
    listed,         \* `h` of upsert(): the host as it was listed
    patch,          \* the UpdateProxyHost: field -> new value
    cached,         \* the cache knows the host
    seeded,         \* history: the seed list succeeded
    since,          \* history: what happened since the last inspection
    moves, faults, edits, restarts  \* counters for the bounds

worldVars == <<facts, earlier, moves>>
taskVars  == <<phase, spec, listed, patch>>
driftVars == <<worldVars, config, host, taskVars, cached, seeded, since,
               faults, edits, restarts>>

\* All a host may come to be forwarded to.
ServedHosts == UserHosts \cup Names \cup (UNION {Range(a) : a \in Addresses})
                 \cup {Or(c.hostAddress, DockerHost) : c \in Configs}

ServedPorts == (UserPorts \cup (UNION ExposedSets)
                  \cup {LabelPort(l) : l \in LabelSets}) \cap u16

ProxyHost ==
    [domain_names            : {<<Url>>, <<Url, Alias>>, <<Alias, Url>>},
     forward_scheme          : Scheme,
     forward_host            : ServedHosts,
     forward_port            : ServedPorts,
     allow_websocket_upgrade : BOOLEAN,
     block_exploits          : BOOLEAN]

\* What parse() returns.
ContainerSpec ==
    [name : Names, addresses : Addresses, port : ServedPorts, scheme : Scheme,
     ssl : BOOLEAN, websockets : BOOLEAN, blockExploits : BOOLEAN]

ASSUME DriftAssumption ==
    /\ Absent # Bad /\ Url # Alias /\ Me # Nobody
    /\ \A v \in {Absent, Bad} :
          v \notin Nat /\ v \notin Scheme /\ v \notin BOOLEAN
    /\ LabelSets \subseteq LabelSet
    /\ ExposedSets \subseteq SUBSET u16
    /\ \A c \in Configs : c.strategy \in Strategy /\ c.defaults \in DefaultSet
    /\ UserPorts \subseteq u16
    /\ NoHost \notin ProxyHost
    /\ NoSpec \notin ContainerSpec

\* What is written to a host, and what is about to be, is always a proper
\* value of its field: no Bad or Absent gets through.
DriftTypeOK ==
    /\ host \in ProxyHost \cup {NoHost}
    /\ phase \in {"seed", "idle", "upsert", "create", "update"}
    /\ phase \in {"seed", "idle"} <=> spec = NoSpec
    /\ phase = "update" <=> listed # NoHost
    /\ phase = "update" => DOMAIN patch \subseteq DOMAIN listed
    /\ phase # "update" => patch = << >>
    /\ cached \in BOOLEAN /\ seeded \in BOOLEAN
    /\ since \in {"touched", "fresh", "settled"}

DriftInit ==
    /\ facts \in [labels : LabelSets, exposed : ExposedSets,
                  name : Names, addresses : Addresses]
    /\ earlier = {}
    /\ config \in Configs
    /\ host = NoHost
    /\ phase = "seed"
    /\ spec = NoSpec /\ listed = NoHost /\ patch = << >>
    /\ cached = FALSE /\ seeded = FALSE
    /\ since = "touched"
    /\ moves = 0 /\ faults = 0 /\ edits = 0 /\ restarts = 0

-----------------------------------------------------------------------------
(* The tasks                                                                  *)

Done ==
    /\ phase' = "idle"
    /\ spec' = NoSpec /\ listed' = NoHost /\ patch' = << >>

Settle == since' = IF since = "fresh" THEN "settled" ELSE since

Fault == faults < MaxFaults /\ faults' = faults + 1 /\ since' = "touched"

Seed ==
    /\ phase = "seed"
    /\ phase' = "idle"
    /\ \/ /\ cached' = (host # NoHost)
          /\ seeded' = TRUE
          /\ UNCHANGED <<faults, since>>
       \/ Fault /\ UNCHANGED <<cached, seeded>>
    /\ UNCHANGED <<worldVars, config, host, spec, listed, patch, edits,
                   restarts>>

\* The watcher or a sweep inspects the container and its labels parse; then
\* the writer takes the intent.
Inspect ==
    /\ phase = "idle"
    /\ Parses(facts, config.defaults)
    /\ spec' = Reading(facts, config.defaults)
    /\ phase' = "upsert"
    /\ since' = IF since = "touched" THEN "fresh" ELSE since
    /\ UNCHANGED <<worldVars, config, host, listed, patch, cached, seeded,
                   faults, edits, restarts>>

\* The Upsert of a container as it was inspected before it moved: its producer
\* had to wait, or an intent of the other producer came first.
InspectEarlier ==
    /\ phase = "idle"
    /\ \E f \in earlier :
          /\ Parses(f, config.defaults)
          /\ spec' = Reading(f, config.defaults)
    /\ phase' = "upsert"
    /\ since' = "touched"
    /\ UNCHANGED <<worldVars, config, host, listed, patch, cached, seeded,
                   faults, edits, restarts>>

\* The labels do not parse: there is no intent.
Reject ==
    /\ phase = "idle"
    /\ ~Parses(facts, config.defaults)
    /\ UNCHANGED driftVars

ListFailed ==
    /\ phase = "upsert"
    /\ Fault
    /\ Done
    /\ UNCHANGED <<worldVars, config, host, cached, seeded, edits, restarts>>

UpsertInSync ==
    /\ phase = "upsert"
    /\ host # NoHost
    /\ DiffSpec(host, spec, config) = << >>
    /\ cached' = TRUE
    /\ Settle
    /\ Done
    /\ UNCHANGED <<worldVars, config, host, seeded, faults, edits, restarts>>

UpsertDrifted ==
    /\ phase = "upsert"
    /\ host # NoHost
    /\ DiffSpec(host, spec, config) # << >>
    /\ phase' = "update"
    /\ listed' = host
    /\ patch' = DiffSpec(host, spec, config)
    /\ UNCHANGED <<worldVars, config, host, spec, cached, seeded, since,
                   faults, edits, restarts>>

UpsertMissing ==
    /\ phase = "upsert"
    /\ host = NoHost
    /\ phase' = "create"
    /\ UNCHANGED <<worldVars, config, host, spec, listed, patch, cached,
                   seeded, since, faults, edits, restarts>>

\* A call succeeds, fails without an effect, or was executed all the same.
Call(effect, remembered) ==
    /\ \/ effect /\ cached' = remembered /\ Settle /\ UNCHANGED faults
       \/ Fault /\ UNCHANGED <<host, cached>>
       \/ Fault /\ effect /\ UNCHANGED cached
    /\ Done
    /\ UNCHANGED <<worldVars, config, seeded, edits, restarts>>

Create ==
    /\ phase = "create"
    /\ Call(host' = CreateBody(spec, config), TRUE)

\* NPM merges the fields it is sent into the host as it is by now.
Merged(h, p) == [f \in DOMAIN h |-> IF f \in DOMAIN p THEN p[f] ELSE h[f]]

Update ==
    /\ phase = "update"
    /\ Call(host' = Merged(host, patch), TRUE)

-----------------------------------------------------------------------------
(* The world                                                                  *)

\* The container is renamed, or started again with other addresses.
Move ==
    /\ moves < MaxMoves
    /\ moves' = moves + 1
    /\ \/ \E n \in Names \ {facts.name} :
             facts' = [facts EXCEPT !.name = n]
       \/ \E a \in Addresses \ {facts.addresses} :
             facts' = [facts EXCEPT !.addresses = a]
    /\ earlier' = earlier \cup {facts}
    /\ since' = "touched"
    /\ UNCHANGED <<config, host, taskVars, cached, seeded, faults, edits,
                   restarts>>

\* A person changes one field of the host.
UserEdit ==
    /\ edits < MaxEdits
    /\ host # NoHost
    /\ edits' = edits + 1
    /\ \/ \E s \in Scheme : host' = [host EXCEPT !.forward_scheme = s]
       \/ \E x \in UserHosts : host' = [host EXCEPT !.forward_host = x]
       \/ \E p \in UserPorts : host' = [host EXCEPT !.forward_port = p]
       \/ host' = [host EXCEPT !.allow_websocket_upgrade = ~@]
       \/ host' = [host EXCEPT !.block_exploits = ~@]
       \/ /\ host.domain_names = <<Url>>
          /\ \E d \in {<<Url, Alias>>, <<Alias, Url>>} :
                host' = [host EXCEPT !.domain_names = d]
    /\ host' # host
    /\ since' = "touched"
    /\ UNCHANGED <<worldVars, config, taskVars, cached, seeded, faults,
                   restarts>>

\* The process starts again, perhaps with another configuration; what it had
\* inspected is lost with the channel.
Restart ==
    /\ restarts < MaxRestarts
    /\ restarts' = restarts + 1
    /\ config' \in Configs
    /\ phase' = "seed"
    /\ spec' = NoSpec /\ listed' = NoHost /\ patch' = << >>
    /\ cached' = FALSE /\ seeded' = FALSE
    /\ since' = "touched"
    /\ earlier' = {}
    /\ UNCHANGED <<facts, moves, host, faults, edits>>

DriftNext ==
    \/ Seed \/ Inspect \/ InspectEarlier \/ Reject \/ ListFailed
    \/ UpsertInSync \/ UpsertDrifted \/ UpsertMissing \/ Create \/ Update
    \/ Move \/ UserEdit \/ Restart

DriftSpec == DriftInit /\ [][DriftNext]_driftVars

-----------------------------------------------------------------------------
(* Properties                                                                 *)

\* The labels and defaults as README.md:45-56 describes them: a label goes
\* before the default, the port label before the ports exposed.  Of the port
\* under host_port nothing is said: README.md:74 promises the published one,
\* which the code does not look at.
Honours(label, default, value) ==
    value = IF label = Absent THEN default ELSE label

ServedAsLabelled ==
    LET l == facts.labels  d == config.defaults
    IN  /\ host.domain_names = <<Url>>
        /\ Honours(l.scheme, d.scheme, host.forward_scheme)
        /\ Honours(l.websockets, d.websockets, host.allow_websocket_upgrade)
        /\ Honours(l.blockExploits, d.blockExploits, host.block_exploits)
        /\ config.strategy # "host_port" =>
              IF l.port # Absent THEN host.forward_port = l.port
              ELSE /\ host.forward_port \in facts.exposed
                   /\ \A p \in facts.exposed : host.forward_port <= p
        /\ config.strategy = "container_name" => host.forward_host = facts.name
        /\ config.strategy = "container_ip" =>
              host.forward_host = IF config.network \in DOMAIN facts.addresses
                                  THEN facts.addresses[config.network]
                                  ELSE facts.name
        /\ config.strategy = "host_port" =>
              Honours(config.hostAddress, DockerHost, host.forward_host)

\* Once an intent has been carried out and nothing has happened since its
\* inspection, an older intent included, all fields of the host are as labels
\* and configuration want them, whatever the host was before: created under
\* another configuration, edited, patched for what the container was before
\* it moved (diff.rs:10-48, mod.rs:177-193).
SettledAgrees ==
    since = "settled" => host # NoHost /\ ServedAsLabelled

\* A settled host is not updated again: what is created or patched is not
\* different in the eyes of the next diff, or each sweep would write it anew.
NoFlapping == phase = "update" => since # "settled"

\* A container with a label that means nothing never gets a host, whatever
\* the defaults are (labels.rs:40-61, 75-91).
OnlyWellFormed ==
    host # NoHost =>
        /\ Bad \notin {facts.labels[f] : f \in DOMAIN facts.labels}
        /\ facts.labels.port # Absent => facts.labels.port \in u16
        /\ facts.labels.port = Absent => facts.exposed # {}

\* Of what people change after the list, a late PUT takes back only the fields
\* that were wrong when they were listed, each to what the labels want: a field
\* that agreed then keeps what it was given since (mod.rs:141 to 166, the
\* fields that diff.rs:10-48 leaves out of the map of UpdateProxyHost).
AgreedFieldsKept ==
    [][edits' = edits /\ host # NoHost =>
          \A f \in DOMAIN host :
              host'[f] # host[f] =>
                  /\ listed[f] # CreateBody(spec, config)[f]
                  /\ host'[f] = CreateBody(spec, config)[f]]_host

-----------------------------------------------------------------------------
(* Refinement                                                                 *)

TargetOf(h) == Restrict(h, TargetFields)

AbstractHost(h) == [domains |-> Range(h.domain_names), owner |-> Me,
                    target |-> TargetOf(h), tls |-> FALSE]

AbstractPatch ==
    IF phase # "update" THEN [fields |-> {}]
    ELSE [fields |-> {IF f = "domain_names" THEN "domains" ELSE "target" :
                         f \in DOMAIN patch},
          seen   |-> TargetOf(listed)]

AbstractCache == [c \in IF cached THEN {Me} ELSE {} |-> 1]

Target == [forward_scheme          : Scheme,
           forward_host            : ServedHosts,
           forward_port            : ServedPorts,
           allow_websocket_upgrade : BOOLEAN,
           block_exploits          : BOOLEAN]

UrlOfMe == [c \in {Me} |-> Url]

AbstractHosts ==
    [id \in IF host = NoHost THEN {} ELSE {1} |-> AbstractHost(host)]

AbstractIntent ==
    IF spec = NoSpec THEN [kind |-> "none"]
    ELSE [kind |-> "upsert", container |-> Me,
          target |-> TargetOf(CreateBody(spec, config))]

W == INSTANCE Writer WITH
    Containers      <- {Me},
    Urls            <- {Url, Alias},
    Targets         <- Target,
    UrlOf           <- UrlOfMe,
    SslContainers   <- {},
    NoOwner         <- Nobody,
    UniqueDomains   <- TRUE,
    LostResponses   <- TRUE,
    MaxAttempts     <- 1,
    UserOps         <- {"drift"},
    MaxHostId       <- 1,
    TokenUrls       <- {},
    CleanupOnRemove <- TRUE,
    AdoptRaces      <- FALSE,
    hosts  <- AbstractHosts,
    nextId <- IF host = NoHost THEN 1 ELSE 2,
    intent <- AbstractIntent,
    cache  <- AbstractCache,
    hostId <- IF phase = "update" THEN 1 ELSE 0,
    patch  <- AbstractPatch

\* Patches and bodies of real fields do to a host what Writer's one target
\* value says, an edit between the list and the update included: what is proved
\* of Writer is true of them (mod.rs:132-199).
ImplementsWriter == W!WriterSpec
=============================================================================
