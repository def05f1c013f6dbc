----------------------------- MODULE DriftProofs -----------------------------
(* Theorems about Drift for any labels, ports, names, addresses and           *)
(* configurations: what is settled is as the labels want it and is not        *)
(* written again, malformed labels never make a host, and Drift implements    *)
(* the open writer: what bodies and patches do to the fields of a host is     *)
(* what Writer says they do to its one target value.                          *)
EXTENDS Drift, WellFoundedInduction, TLAPS

-----------------------------------------------------------------------------
(* Specs                                                                      *)

\* The fields of a create, which are those a diff compares.
Fields == {"domain_names", "forward_scheme", "forward_host", "forward_port",
           "allow_websocket_upgrade", "block_exploits"}

\* A set of ports has a lowest one, and Lowest is one.
LEMMA LowestPort ==
    ASSUME NEW S \in SUBSET u16, S # {}
    PROVE  Lowest(S) \in S /\ \A q \in S : Lowest(S) <= q
  <1> DEFINE R == OpToRel(<, Nat)
  <1>1. IsWellFoundedOn(R, Nat)
    BY NatLessThanWellFounded
  <1>2. \A x, y \in Nat : x < y => <<x, y>> \in R
    BY DEF OpToRel
  <1> HIDE DEF R
  <1>3. S \subseteq Nat
    <2>1. u16 \subseteq Nat
      BY DEF u16
    <2> QED  BY <2>1
  <1>4. PICK p \in S : \A q \in S : ~(<<q, p>> \in R)
    BY <1>1, <1>3, WFMin
  <1>5. ASSUME NEW q \in S
        PROVE  p <= q
    <2>1. p \in Nat /\ q \in Nat /\ ~(<<q, p>> \in R)
      BY <1>3, <1>4
    <2>2. ~(q < p)
      BY <1>2, <2>1
    <2> QED  BY <2>1, <2>2
  <1> QED  BY <1>5 DEF Lowest

\* A body has the fields of a body, and a diff is made of the same values.
LEMMA BodyFields ==
    ASSUME NEW s, NEW c
    PROVE  /\ DOMAIN CreateBody(s, c) = Fields
           /\ CreateBody(s, c) = [f \in Fields |-> CreateBody(s, c)[f]]
           /\ CreateBody(s, c).domain_names = <<Url>>
           /\ CreateBody(s, c).forward_scheme = s.scheme
           /\ CreateBody(s, c).forward_host = ForwardHost(s, c)
           /\ CreateBody(s, c).forward_port = s.port
           /\ CreateBody(s, c).allow_websocket_upgrade = s.websockets
           /\ CreateBody(s, c).block_exploits = s.blockExploits
  BY DEF CreateBody, Fields

LEMMA DiffIsOfBody ==
    ASSUME NEW h, NEW s, NEW c
    PROVE  LET b == CreateBody(s, c)
           IN  DiffSpec(h, s, c) = [f \in {f \in Fields : h[f] # b[f]} |-> b[f]]
  BY DEF DiffSpec, CreateBody, Fields

\* There is nothing to patch if, and only if, the host is the body.
LEMMA DiffEmpty ==
    ASSUME NEW h, NEW s, NEW c, h = [f \in Fields |-> h[f]]
    PROVE  DiffSpec(h, s, c) = << >> <=> h = CreateBody(s, c)
  <1> DEFINE b == CreateBody(s, c)
             D == {f \in Fields : h[f] # b[f]}
  <1>1. DiffSpec(h, s, c) = [f \in D |-> b[f]]
    BY DiffIsOfBody
  <1>2. b = [f \in Fields |-> b[f]]
    BY BodyFields
  <1> HIDE DEF b
  <1>3. [f \in D |-> b[f]] = << >> <=> D = {}
    <2>1. DOMAIN << >> = {}
      OBVIOUS
    <2>2. [f \in {} |-> b[f]] = << >>
      OBVIOUS
    <2> QED  BY <2>1, <2>2
  <1>4. D = {} <=> h = b
    BY <1>2
  <1> QED  BY <1>1, <1>3, <1>4 DEF b

\* A host that is patched as the diff says is the body.
LEMMA PatchMakesBody ==
    ASSUME NEW h, NEW s, NEW c, h = [f \in Fields |-> h[f]]
    PROVE  Merged(h, DiffSpec(h, s, c)) = CreateBody(s, c)
  <1> DEFINE b == CreateBody(s, c)
             D == {f \in Fields : h[f] # b[f]}
  <1>1. DiffSpec(h, s, c) = [f \in D |-> b[f]]
    BY DiffIsOfBody
  <1>2. b = [f \in Fields |-> b[f]]
    BY BodyFields
  <1> HIDE DEF b
  <1>3. DOMAIN h = Fields
    OBVIOUS
  <1>4. Merged(h, [f \in D |-> b[f]])
           = [f \in Fields |-> IF f \in D THEN b[f] ELSE h[f]]
    BY <1>3 DEF Merged
  <1>5. \A f \in Fields : (IF f \in D THEN b[f] ELSE h[f]) = b[f]
    OBVIOUS
  <1> QED  BY <1>1, <1>2, <1>4, <1>5 DEF b

-----------------------------------------------------------------------------
(* Labels                                                                     *)

\* What is known of the container and the configuration.
FactsOK ==
    /\ facts \in [labels : LabelSets, exposed : ExposedSets, name : Names,
                 addresses : Addresses]
    /\ config \in Configs

\* The facts under which OnlyWellFormed allows a host.
WellFormed ==
    /\ Bad \notin {facts.labels[f] : f \in DOMAIN facts.labels}
    /\ facts.labels.port # Absent => facts.labels.port \in u16
    /\ facts.labels.port = Absent => facts.exposed # {}

\* What the host should be.
Wanted == CreateBody(Reading(facts, config.defaults), config)

\* A reading without an error has no error in any of its parts.
LEMMA ParsedFields ==
    ASSUME Parses(facts, config.defaults)
    PROVE  /\ SelectPort(facts) # Bad
           /\ Or(facts.labels.scheme, config.defaults.scheme) # Bad
           /\ Or(facts.labels.ssl, config.defaults.ssl) # Bad
           /\ Or(facts.labels.websockets, config.defaults.websockets) # Bad
           /\ Or(facts.labels.blockExploits, config.defaults.blockExploits)
                 # Bad
  <1> DEFINE r == Reading(facts, config.defaults)
  <1>1. \A f \in {"port", "scheme", "ssl", "websockets", "blockExploits"} :
           r[f] # Bad
    BY DEF Parses
  <1>2. /\ r.port # Bad /\ r.scheme # Bad /\ r.ssl # Bad
        /\ r.websockets # Bad /\ r.blockExploits # Bad
    BY <1>1
  <1> QED  BY <1>2 DEF Reading

\* The port of a reading is the label, or else the lowest port exposed.
LEMMA SelectedPort ==
    ASSUME FactsOK, Parses(facts, config.defaults)
    PROVE  /\ facts.labels.port # Bad
           /\ facts.labels.port # Absent =>
                 /\ facts.labels.port \in u16
                 /\ SelectPort(facts) = facts.labels.port
           /\ facts.labels.port = Absent =>
                 /\ facts.exposed # {}
                 /\ SelectPort(facts) \in facts.exposed
                 /\ \A p \in facts.exposed : SelectPort(facts) <= p
  <1> DEFINE l == facts.labels
  <1>1. SelectPort(facts) # Bad /\ Absent # Bad
    BY ParsedFields, DriftAssumption
  <1>2. CASE l.port = Absent
    <2>1. LabelPort(l) = Absent
      BY <1>2 DEF LabelPort
    <2>2. facts.exposed # {} /\ SelectPort(facts) = Lowest(facts.exposed)
      BY <1>1, <2>1 DEF SelectPort
    <2>3. facts.exposed \in SUBSET u16
      BY DriftAssumption DEF FactsOK
    <2> QED  BY <1>1, <1>2, <2>2, <2>3, LowestPort
  <1>3. CASE l.port # Absent
    <2>1. LabelPort(l) # Absent /\ SelectPort(facts) = LabelPort(l)
      BY <1>1, <1>3 DEF SelectPort, LabelPort
    <2> QED  BY <1>1, <1>3, <2>1 DEF LabelPort
  <1> QED  BY <1>2, <1>3

\* Labels that parse under any defaults are well formed.
LEMMA ParsedWellFormed ==
    ASSUME FactsOK, Parses(facts, config.defaults)
    PROVE  WellFormed
  <1> DEFINE l == facts.labels
  <1>1. l.scheme # Bad /\ l.ssl # Bad /\ l.websockets # Bad
        /\ l.blockExploits # Bad
    BY ParsedFields, DriftAssumption DEF Or
  <1>2. DOMAIN l = {"port", "scheme", "ssl", "websockets", "blockExploits"}
    BY DriftAssumption DEF FactsOK, LabelSet
  <1>3. \A f \in DOMAIN l : l[f] # Bad
    BY <1>1, <1>2, SelectedPort
  <1> QED  BY <1>3, SelectedPort DEF WellFormed

\* The strategies, one by one.
LEMMA ForwardsTo ==
    ASSUME NEW s, NEW c
    PROVE  /\ c.strategy = "container_name" => ForwardHost(s, c) = s.name
           /\ c.strategy = "container_ip" =>
                 ForwardHost(s, c) = IF c.network \in DOMAIN s.addresses
                                     THEN s.addresses[c.network] ELSE s.name
           /\ c.strategy = "host_port" =>
                 ForwardHost(s, c) = Or(c.hostAddress, DockerHost)
  <1>1. ASSUME c.strategy = "container_name"
        PROVE  ForwardHost(s, c) = s.name
    BY <1>1, Zenon DEF ForwardHost
  <1>2. ASSUME c.strategy = "container_ip"
        PROVE  ForwardHost(s, c) = IF c.network \in DOMAIN s.addresses
                                   THEN s.addresses[c.network] ELSE s.name
    BY <1>2, Zenon DEF ForwardHost
  <1>3. ASSUME c.strategy = "host_port"
        PROVE  ForwardHost(s, c) = Or(c.hostAddress, DockerHost)
    BY <1>3, Zenon DEF ForwardHost
  <1> QED  BY <1>1, <1>2, <1>3

\* A host that is as wanted is as the labels say.
LEMMA WantedServes ==
    ASSUME FactsOK, Parses(facts, config.defaults), host = Wanted
    PROVE  ServedAsLabelled
  <1> DEFINE r == Reading(facts, config.defaults)
             l == facts.labels
             d == config.defaults
  <1>1. /\ host.domain_names = <<Url>>
        /\ host.forward_scheme = r.scheme
        /\ host.forward_host = ForwardHost(r, config)
        /\ host.forward_port = r.port
        /\ host.allow_websocket_upgrade = r.websockets
        /\ host.block_exploits = r.blockExploits
    BY BodyFields DEF Wanted
  <1>2. /\ r.scheme = Or(l.scheme, d.scheme) /\ r.port = SelectPort(facts)
        /\ r.websockets = Or(l.websockets, d.websockets)
        /\ r.blockExploits = Or(l.blockExploits, d.blockExploits)
        /\ r.name = facts.name /\ r.addresses = facts.addresses
    BY DEF Reading
  <1> HIDE DEF r
  <1>3. /\ Honours(l.scheme, d.scheme, host.forward_scheme)
        /\ Honours(l.websockets, d.websockets, host.allow_websocket_upgrade)
        /\ Honours(l.blockExploits, d.blockExploits, host.block_exploits)
    BY <1>1, <1>2 DEF Honours, Or
  <1>4. IF l.port # Absent THEN host.forward_port = l.port
        ELSE /\ host.forward_port \in facts.exposed
             /\ \A p \in facts.exposed : host.forward_port <= p
    BY <1>1, <1>2, SelectedPort
  <1>5. /\ config.strategy = "container_name" => host.forward_host = facts.name
        /\ config.strategy = "container_ip" =>
              host.forward_host = IF config.network \in DOMAIN facts.addresses
                                  THEN facts.addresses[config.network]
                                  ELSE facts.name
        /\ config.strategy = "host_port" =>
              Honours(config.hostAddress, DockerHost, host.forward_host)
    BY <1>1, <1>2, ForwardsTo DEF Honours, Or
  <1> QED  BY <1>1, <1>3, <1>4, <1>5 DEF ServedAsLabelled

\* A reading without an error is a spec.
LEMMA ParsedTyped ==
    ASSUME FactsOK, Parses(facts, config.defaults)
    PROVE  Reading(facts, config.defaults) \in ContainerSpec
  <1> DEFINE l == facts.labels
             d == config.defaults
  <1>1. l \in LabelSet /\ d \in DefaultSet
    BY DriftAssumption DEF FactsOK
  <1>2. SelectPort(facts) \in ServedPorts
    <2>1. facts.exposed \in ExposedSets /\ facts.exposed \subseteq u16
      BY DriftAssumption DEF FactsOK
    <2>2. CASE l.port = Absent
      <3>1. SelectPort(facts) \in facts.exposed
        BY <2>2, SelectedPort
      <3> QED  BY <2>1, <3>1 DEF ServedPorts
    <2>3. CASE l.port # Absent
      <3>1. LabelPort(l) = l.port /\ l.port \in u16
        BY <2>3, SelectedPort DEF LabelPort
      <3>2. LabelPort(l) \in {LabelPort(x) : x \in LabelSets}
        BY DEF FactsOK
      <3>3. SelectPort(facts) = LabelPort(l)
        BY <2>3, <3>1, SelectedPort
      <3> QED  BY <3>1, <3>2, <3>3 DEF ServedPorts
    <2> QED  BY <2>2, <2>3
  <1>3. /\ Or(l.scheme, d.scheme) \in Scheme
        /\ Or(l.ssl, d.ssl) \in BOOLEAN
        /\ Or(l.websockets, d.websockets) \in BOOLEAN
        /\ Or(l.blockExploits, d.blockExploits) \in BOOLEAN
    BY <1>1, ParsedFields DEF LabelSet, DefaultSet, Value, Or
  <1>4. facts.name \in Names /\ facts.addresses \in Addresses
    BY DEF FactsOK
  <1> QED  BY <1>2, <1>3, <1>4 DEF Reading, ContainerSpec

\* A spec is forwarded to something a host can be forwarded to.
LEMMA ForwardTyped ==
    ASSUME NEW s \in ContainerSpec, NEW c \in Configs
    PROVE  ForwardHost(s, c) \in ServedHosts
  <1>1. s.name \in Names /\ s.addresses \in Addresses
    BY DEF ContainerSpec
  <1>2. s.name \in ServedHosts
    BY <1>1 DEF ServedHosts
  <1>3. CASE c.strategy = "container_name"
    BY <1>2, <1>3, ForwardsTo
  <1>4. CASE c.strategy = "container_ip"
    <2>1. ASSUME c.network \in DOMAIN s.addresses
          PROVE  s.addresses[c.network] \in ServedHosts
      <3>1. s.addresses[c.network] \in Range(s.addresses)
        BY <2>1 DEF Range
      <3>2. Range(s.addresses) \in {Range(a) : a \in Addresses}
        BY <1>1
      <3> QED  BY <3>1, <3>2 DEF ServedHosts
    <2> QED  BY <1>2, <1>4, <2>1, ForwardsTo
  <1>5. CASE c.strategy = "host_port"
    <2>1. Or(c.hostAddress, DockerHost)
             \in {Or(x.hostAddress, DockerHost) : x \in Configs}
      OBVIOUS
    <2>2. Or(c.hostAddress, DockerHost) \in ServedHosts
      BY <2>1 DEF ServedHosts
    <2> QED  BY <1>5, <2>2, ForwardsTo
  <1> QED  BY <1>3, <1>4, <1>5, DriftAssumption DEF Strategy

\* What is created is a proxy host.
LEMMA BodyTyped ==
    ASSUME NEW s \in ContainerSpec, NEW c \in Configs
    PROVE  CreateBody(s, c) \in ProxyHost /\ CreateBody(s, c) # NoHost
  <1>1. CreateBody(s, c) \in ProxyHost
    BY ForwardTyped DEF CreateBody, ProxyHost, ContainerSpec
  <1> QED  BY <1>1, DriftAssumption

\* A proxy host has the fields of a body, and no others.
LEMMA HostFields ==
    ASSUME NEW h \in ProxyHost
    PROVE  DOMAIN h = Fields /\ h = [f \in Fields |-> h[f]]
  BY DEF ProxyHost, Fields

\* So is what is patched with the values of a body.
LEMMA PatchTyped ==
    ASSUME NEW h \in ProxyHost, NEW g \in ProxyHost,
           NEW s \in ContainerSpec, NEW c \in Configs
    PROVE  Merged(h, DiffSpec(g, s, c)) \in ProxyHost
  <1> DEFINE b == CreateBody(s, c)
             D == {f \in Fields : g[f] # b[f]}
             m == [f \in Fields |-> IF f \in D THEN b[f] ELSE h[f]]
  <1>1. b \in ProxyHost
    BY BodyTyped
  <1>2. DiffSpec(g, s, c) = [f \in D |-> b[f]]
    BY DiffIsOfBody
  <1> HIDE DEF b
  <1>3. Merged(h, [f \in D |-> b[f]]) = m
    BY HostFields DEF Merged
  <1>4. m = [domain_names            |-> m.domain_names,
             forward_scheme          |-> m.forward_scheme,
             forward_host            |-> m.forward_host,
             forward_port            |-> m.forward_port,
             allow_websocket_upgrade |-> m.allow_websocket_upgrade,
             block_exploits          |-> m.block_exploits]
    BY DEF Fields
  <1>5. /\ m.domain_names \in {<<Url>>, <<Url, Alias>>, <<Alias, Url>>}
        /\ m.forward_scheme \in Scheme
        /\ m.forward_host \in ServedHosts
        /\ m.forward_port \in ServedPorts
        /\ m.allow_websocket_upgrade \in BOOLEAN
        /\ m.block_exploits \in BOOLEAN
    BY <1>1 DEF Fields, ProxyHost
  <1> HIDE DEF m
  <1>6. m \in ProxyHost
    BY <1>4, <1>5 DEF ProxyHost
  <1> QED  BY <1>2, <1>3, <1>6

-----------------------------------------------------------------------------
(* The inductive invariant                                                    *)

Handling == {"upsert", "create", "update"}

\* The task holds what its phase says; a patch is what the list called for.
TaskOK ==
    /\ phase \in {"seed", "idle"} \cup Handling
    /\ phase \in {"seed", "idle"} => spec = NoSpec
    /\ phase \in Handling => spec \in ContainerSpec
    /\ phase # "update" => listed = NoHost /\ patch = << >>
    /\ phase = "update" => /\ listed \in ProxyHost
                           /\ patch = DiffSpec(listed, spec, config)
                           /\ patch # << >>
    /\ cached \in BOOLEAN /\ seeded \in BOOLEAN

\* Only upsert() makes a host, and people take none away.
HostOK ==
    /\ host \in ProxyHost \cup {NoHost}
    /\ phase = "create" => host = NoHost
    /\ phase = "update" => host # NoHost

\* Who sees a handler or a host sees labels that have parsed.
ParsedOK == phase \in Handling \/ host # NoHost => WellFormed

\* Nothing has happened since the inspection: the handler works with what it
\* would read now, and its list is the table still.
FreshOK ==
    /\ since \in {"touched", "fresh", "settled"}
    /\ since # "touched" /\ phase \in Handling =>
          /\ spec = Reading(facts, config.defaults)
          /\ Parses(facts, config.defaults)
    /\ since # "touched" /\ phase = "update" => listed = host
    /\ since = "fresh" => phase \in Handling

\* The container was created with the labels and the ports it has.
EarlierOK ==
    \A f \in earlier :
        /\ f \in [labels : LabelSets, exposed : ExposedSets, name : Names,
                  addresses : Addresses]
        /\ f.labels = facts.labels /\ f.exposed = facts.exposed

\* What is settled is as it should be.
SettledOK ==
    since = "settled" => /\ Parses(facts, config.defaults)
                         /\ host = Wanted /\ host # NoHost

DriftInv ==
    /\ FactsOK /\ EarlierOK
    /\ TaskOK /\ HostOK /\ ParsedOK /\ FreshOK /\ SettledOK

\* The tasks leave the container and the configuration alone.
LEMMA FactsStay ==
    ASSUME FactsOK, EarlierOK, UNCHANGED <<facts, earlier, config>>
    PROVE  /\ FactsOK' /\ EarlierOK' /\ (WellFormed => WellFormed')
           /\ Wanted' = Wanted
           /\ Parses(facts, config.defaults)
                 => Parses(facts, config.defaults)'
           /\ Reading(facts, config.defaults)'
                 = Reading(facts, config.defaults)
  <1>1. FactsOK' /\ (WellFormed => WellFormed') /\ Wanted' = Wanted
    BY DEF FactsOK, WellFormed, Wanted
  <1>2. EarlierOK'
    BY DEF EarlierOK
  <1> QED  BY <1>1, <1>2

\* What a settled host looks like to the next diff.
LEMMA SettledInSync ==
    ASSUME DriftInv, since = "settled", phase \in Handling
    PROVE  DiffSpec(host, spec, config) = << >>
  <1>1. host = CreateBody(spec, config) /\ host \in ProxyHost
    BY DEF DriftInv, HostOK, FreshOK, SettledOK, Wanted
  <1> QED  BY <1>1, DiffEmpty, HostFields

\* Nothing is created or updated for a container that is settled.
LEMMA SettledIdle ==
    ASSUME DriftInv, since = "settled"
    PROVE  phase \notin {"create", "update"}
  <1>1. phase # "create"
    BY DEF DriftInv, HostOK, SettledOK
  <1>2. ASSUME phase = "update"
        PROVE  FALSE
    <2>1. DiffSpec(host, spec, config) = << >>
      BY <1>2, SettledInSync DEF Handling
    <2> QED  BY <1>2, <2>1 DEF DriftInv, TaskOK, FreshOK
  <1> QED  BY <1>1, <1>2

-----------------------------------------------------------------------------
(* The actions                                                                *)

\* Steps that end or interrupt whatever was under way.
LEMMA TouchedKeeps ==
    ASSUME DriftInv, FactsOK', EarlierOK', WellFormed => WellFormed',
           host' \in ProxyHost \cup {NoHost},
           host' # NoHost => WellFormed, Done, since' = "touched",
           cached' \in BOOLEAN, seeded' \in BOOLEAN
    PROVE  DriftInv'
  BY DEF DriftInv, TaskOK, HostOK, ParsedOK, FreshOK, SettledOK, Done, Handling

\* The cache is filled, or the list failed.
LEMMA SeedKeeps ==
    ASSUME DriftInv, Seed
    PROVE  DriftInv'
  <1>1. UNCHANGED <<facts, earlier, config, host, spec, listed, patch>>
    BY DEF Seed, worldVars
  <1>2. /\ phase = "seed" /\ phase' = "idle"
        /\ since' \in {since, "touched"}
        /\ cached' \in BOOLEAN /\ seeded' \in BOOLEAN
    BY DEF Seed, Fault, DriftInv, TaskOK
  <1>3. FactsOK' /\ EarlierOK' /\ (WellFormed => WellFormed')
        /\ Wanted' = Wanted
        /\ (Parses(facts, config.defaults) => Parses(facts, config.defaults)')
    BY <1>1, FactsStay DEF DriftInv
  <1> QED
    BY <1>1, <1>2, <1>3
    DEF DriftInv, TaskOK, HostOK, ParsedOK, FreshOK, SettledOK, Handling

\* A handler starts with what was read just now.
LEMMA InspectKeeps ==
    ASSUME DriftInv, Inspect
    PROVE  DriftInv'
  <1>1. /\ UNCHANGED <<facts, earlier, config, host, listed, patch, cached,
                       seeded>>
        /\ phase = "idle" /\ phase' = "upsert"
        /\ Parses(facts, config.defaults)
        /\ spec' = Reading(facts, config.defaults)
        /\ since' = IF since = "touched" THEN "fresh" ELSE since
    BY DEF Inspect, worldVars
  <1>2. /\ FactsOK' /\ EarlierOK' /\ (WellFormed => WellFormed')
        /\ Wanted' = Wanted
        /\ Parses(facts, config.defaults)'
        /\ Reading(facts, config.defaults)' = Reading(facts, config.defaults)
    BY <1>1, FactsStay DEF DriftInv
  <1>3. WellFormed /\ spec' \in ContainerSpec
    BY <1>1, ParsedWellFormed, ParsedTyped DEF DriftInv
  <1>4. TaskOK' /\ HostOK' /\ ParsedOK'
    BY <1>1, <1>2, <1>3 DEF DriftInv, TaskOK, HostOK, ParsedOK, Handling
  <1>5. FreshOK' /\ SettledOK'
    BY <1>1, <1>2 DEF DriftInv, FreshOK, SettledOK, Handling
  <1> QED  BY <1>2, <1>4, <1>5 DEF DriftInv

\* What can be read of the container as it was can be read of it as it is, and
\* is a spec.
LEMMA EarlierParsed ==
    ASSUME DriftInv, NEW f \in earlier, Parses(f, config.defaults)
    PROVE  WellFormed /\ Reading(f, config.defaults) \in ContainerSpec
  <1> DEFINE d == config.defaults
             old == Reading(f, d)
             new == Reading(facts, d)
             Parsed == {"port", "scheme", "ssl", "websockets", "blockExploits"}
  <1>1. /\ f.labels = facts.labels /\ f.exposed = facts.exposed
        /\ f.name \in Names /\ f.addresses \in Addresses
    BY DEF DriftInv, EarlierOK
  <1>2. SelectPort(f) = SelectPort(facts)
    BY <1>1 DEF SelectPort
  <1>3. /\ \A i \in Parsed : old[i] = new[i]
        /\ old.name = f.name /\ old.addresses = f.addresses
        /\ old = [i \in Parsed \cup {"name", "addresses"} |-> old[i]]
    BY <1>1, <1>2 DEF Reading
  <1>4. Parses(facts, d)
    BY <1>3 DEF Parses
  <1>5. new \in ContainerSpec
    BY <1>4, ParsedTyped DEF DriftInv
  <1> HIDE DEF old, new
  <1>6. old \in ContainerSpec
    <2>1. old = [name          |-> old.name,
                 addresses     |-> old.addresses,
                 port          |-> old.port,
                 scheme        |-> old.scheme,
                 ssl           |-> old.ssl,
                 websockets    |-> old.websockets,
                 blockExploits |-> old.blockExploits]
      BY <1>3
    <2>2. /\ old.port \in ServedPorts /\ old.scheme \in Scheme
          /\ old.ssl \in BOOLEAN /\ old.websockets \in BOOLEAN
          /\ old.blockExploits \in BOOLEAN
          /\ old.name \in Names /\ old.addresses \in Addresses
      BY <1>1, <1>3, <1>5 DEF ContainerSpec
    <2> QED  BY <2>1, <2>2 DEF ContainerSpec
  <1> QED  BY <1>4, <1>6, ParsedWellFormed DEF DriftInv, old

\* A handler starts with what was read before the container moved.
LEMMA InspectEarlierKeeps ==
    ASSUME DriftInv, InspectEarlier
    PROVE  DriftInv'
  <1>1. /\ UNCHANGED <<facts, earlier, config, host, listed, patch, cached,
                       seeded>>
        /\ phase = "idle" /\ phase' = "upsert" /\ since' = "touched"
    BY DEF InspectEarlier, worldVars
  <1>2. WellFormed /\ spec' \in ContainerSpec
    BY EarlierParsed DEF InspectEarlier
  <1>3. FactsOK' /\ EarlierOK' /\ (WellFormed => WellFormed')
    BY <1>1, FactsStay DEF DriftInv
  <1>4. TaskOK' /\ HostOK' /\ ParsedOK'
    BY <1>1, <1>2, <1>3 DEF DriftInv, TaskOK, HostOK, ParsedOK, Handling
  <1>5. FreshOK' /\ SettledOK'
    BY <1>1 DEF FreshOK, SettledOK
  <1> QED  BY <1>3, <1>4, <1>5 DEF DriftInv

\* The list fails.
LEMMA ListFailedKeeps ==
    ASSUME DriftInv, ListFailed
    PROVE  DriftInv'
  <1>1. /\ UNCHANGED <<facts, earlier, config, host, cached, seeded>>
        /\ Done /\ since' = "touched"
    BY DEF ListFailed, Fault, worldVars
  <1>2. FactsOK' /\ EarlierOK' /\ (WellFormed => WellFormed')
    BY <1>1, FactsStay DEF DriftInv
  <1> QED
    BY <1>1, <1>2, TouchedKeeps DEF DriftInv, TaskOK, HostOK, ParsedOK

\* A handler that returns successfully has left the host as it should be.
LEMMA SettleKeeps ==
    ASSUME DriftInv, UNCHANGED <<facts, earlier, config, seeded>>,
           phase \in Handling, cached' \in BOOLEAN, Settle, Done,
           host' \in ProxyHost,
           since # "touched" => host' = CreateBody(spec, config)
    PROVE  DriftInv'
  <1>1. /\ FactsOK' /\ EarlierOK' /\ (WellFormed => WellFormed')
        /\ Wanted' = Wanted
        /\ Parses(facts, config.defaults) => Parses(facts, config.defaults)'
    BY FactsStay DEF DriftInv
  <1>2. TaskOK' /\ HostOK' /\ ParsedOK'
    BY <1>1, DriftAssumption
    DEF DriftInv, TaskOK, HostOK, ParsedOK, Done, Handling
  <1>3. FreshOK'
    BY DEF DriftInv, FreshOK, Settle, Done, Handling
  <1>4. SettledOK'
    <2>1. ASSUME since' = "settled"
          PROVE  since # "touched"
      BY <2>1 DEF Settle
    <2>2. ASSUME since # "touched"
          PROVE  Parses(facts, config.defaults) /\ host' = Wanted
      BY <2>2 DEF DriftInv, FreshOK, Wanted
    <2> QED  BY <1>1, <2>1, <2>2, DriftAssumption DEF SettledOK
  <1> QED  BY <1>1, <1>2, <1>3, <1>4 DEF DriftInv

\* The host is in step already.
LEMMA UpsertInSyncKeeps ==
    ASSUME DriftInv, UpsertInSync
    PROVE  DriftInv'
  <1>1. host \in ProxyHost /\ host' = host /\ phase \in Handling
    BY DEF UpsertInSync, DriftInv, HostOK, Handling
  <1>2. host = CreateBody(spec, config)
    BY <1>1, DiffEmpty, HostFields DEF UpsertInSync
  <1> QED  BY <1>1, <1>2, SettleKeeps DEF UpsertInSync, worldVars

\* The host differs and a patch is made, or there is none and a body is.
LEMMA UpsertGoesOnKeeps ==
    ASSUME DriftInv, UpsertDrifted \/ UpsertMissing
    PROVE  DriftInv'
  <1>1. /\ UNCHANGED <<facts, earlier, config, host, spec, cached, seeded,
                       since>>
        /\ phase = "upsert" /\ phase' \in Handling
    BY DEF UpsertDrifted, UpsertMissing, worldVars, Handling
  <1>2. /\ FactsOK' /\ EarlierOK' /\ (WellFormed => WellFormed')
        /\ Wanted' = Wanted
        /\ Parses(facts, config.defaults) => Parses(facts, config.defaults)'
        /\ Reading(facts, config.defaults)' = Reading(facts, config.defaults)
    BY <1>1, FactsStay DEF DriftInv
  <1>3. TaskOK' /\ HostOK'
    BY <1>1
    DEF UpsertDrifted, UpsertMissing, DriftInv, TaskOK, HostOK, Handling
  <1>4. ParsedOK' /\ SettledOK'
    BY <1>1, <1>2 DEF DriftInv, ParsedOK, SettledOK, Handling
  <1>5. FreshOK'
    BY <1>1, <1>2
    DEF UpsertDrifted, UpsertMissing, DriftInv, FreshOK, Handling
  <1> QED  BY <1>2, <1>3, <1>4, <1>5 DEF DriftInv

\* A create or an update, carried out or not.
LEMMA CallKeeps ==
    ASSUME DriftInv, Create \/ Update
    PROVE  DriftInv'
  <1> DEFINE b == IF phase = "create" THEN CreateBody(spec, config)
                  ELSE Merged(host, patch)
  <1>1. /\ UNCHANGED <<facts, earlier, config, seeded>> /\ Done
        /\ phase \in {"create", "update"}
        /\ \/ host' = b /\ cached' = TRUE /\ Settle
           \/ Fault /\ host' \in {host, b} /\ UNCHANGED cached
    BY DEF Create, Update, Call, worldVars
  <1>2. spec \in ContainerSpec /\ config \in Configs /\ phase \in Handling
    BY <1>1 DEF DriftInv, TaskOK, FactsOK, Handling
  <1>3. b \in ProxyHost
    <2>1. CASE phase = "create"
      BY <1>2, <2>1, BodyTyped
    <2>2. CASE phase = "update"
      BY <1>2, <2>2, PatchTyped DEF DriftInv, TaskOK, HostOK
    <2> QED  BY <1>1, <2>1, <2>2
  <1>4. since # "touched" => b = CreateBody(spec, config)
    <2>1. CASE phase = "update" /\ since # "touched"
      <3>1. patch = DiffSpec(host, spec, config) /\ host \in ProxyHost
        BY <2>1 DEF DriftInv, TaskOK, HostOK, FreshOK
      <3> QED  BY <2>1, <3>1, PatchMakesBody, HostFields
    <2> QED  BY <1>1, <2>1
  <1> HIDE DEF b
  <1>5. CASE host' = b /\ cached' = TRUE /\ Settle
    BY <1>1, <1>2, <1>3, <1>4, <1>5, SettleKeeps
  <1>6. CASE Fault /\ host' \in {host, b} /\ UNCHANGED cached
    <2>1. FactsOK' /\ EarlierOK' /\ (WellFormed => WellFormed')
      BY <1>1, FactsStay DEF DriftInv
    <2> QED
      BY <1>1, <1>2, <1>3, <1>6, <2>1, TouchedKeeps
      DEF DriftInv, TaskOK, HostOK, ParsedOK, Fault
  <1> QED  BY <1>1, <1>5, <1>6

\* The container is renamed or gets other addresses.
LEMMA MoveKeeps ==
    ASSUME DriftInv, Move
    PROVE  DriftInv'
  <1>1. /\ UNCHANGED <<config, host, phase, spec, listed, patch, cached,
                      seeded>>
        /\ since' = "touched"
    BY DEF Move, taskVars
  <1>2. /\ FactsOK' /\ facts'.labels = facts.labels
        /\ facts'.exposed = facts.exposed
    BY DEF Move, DriftInv, FactsOK
  <1>3. WellFormed => WellFormed'
    BY <1>2 DEF WellFormed
  <1>4. EarlierOK'
    <2>1. earlier' = earlier \cup {facts}
      BY DEF Move
    <2> QED  BY <1>2, <2>1 DEF EarlierOK, DriftInv, FactsOK
  <1> QED
    BY <1>1, <1>2, <1>3, <1>4
    DEF DriftInv, TaskOK, HostOK, ParsedOK, FreshOK, SettledOK

\* An edited host is a host.
LEMMA EditTyped ==
    ASSUME host \in ProxyHost, UserEdit
    PROVE  host' \in ProxyHost
  <1>1. UserHosts \subseteq ServedHosts /\ UserPorts \subseteq ServedPorts
    BY DriftAssumption DEF ServedHosts, ServedPorts
  <1>2. ASSUME NEW s \in Scheme, host' = [host EXCEPT !.forward_scheme = s]
        PROVE  host' \in ProxyHost
    BY <1>2 DEF ProxyHost
  <1>3. ASSUME NEW x \in UserHosts, host' = [host EXCEPT !.forward_host = x]
        PROVE  host' \in ProxyHost
    BY <1>1, <1>3 DEF ProxyHost
  <1>4. ASSUME NEW p \in UserPorts, host' = [host EXCEPT !.forward_port = p]
        PROVE  host' \in ProxyHost
    BY <1>1, <1>4 DEF ProxyHost
  <1>5. CASE \/ host' = [host EXCEPT !.allow_websocket_upgrade = ~@]
             \/ host' = [host EXCEPT !.block_exploits = ~@]
    BY <1>5 DEF ProxyHost
  <1>6. ASSUME NEW d \in {<<Url, Alias>>, <<Alias, Url>>},
               host' = [host EXCEPT !.domain_names = d]
        PROVE  host' \in ProxyHost
    BY <1>6 DEF ProxyHost
  <1> QED  BY <1>2, <1>3, <1>4, <1>5, <1>6 DEF UserEdit

\* A person changes a field.
LEMMA UserEditKeeps ==
    ASSUME DriftInv, UserEdit
    PROVE  DriftInv'
  <1>1. /\ UNCHANGED <<facts, earlier, config, phase, spec, listed, patch,
                       cached, seeded>>
        /\ since' = "touched" /\ host # NoHost
    BY DEF UserEdit, taskVars, worldVars
  <1>2. FactsOK' /\ EarlierOK' /\ (WellFormed => WellFormed')
    BY <1>1, FactsStay DEF DriftInv
  <1>3. host' \in ProxyHost
    BY <1>1, EditTyped DEF DriftInv, HostOK
  <1> QED
    BY <1>1, <1>2, <1>3, DriftAssumption
    DEF DriftInv, TaskOK, HostOK, ParsedOK, FreshOK, SettledOK

\* The process starts again with another configuration.
LEMMA RestartKeeps ==
    ASSUME DriftInv, Restart
    PROVE  DriftInv'
  <1>1. UNCHANGED <<facts, host>> /\ config' \in Configs
    BY DEF Restart
  <1>2. FactsOK' /\ EarlierOK' /\ (WellFormed => WellFormed')
    BY <1>1 DEF Restart, DriftInv, FactsOK, EarlierOK, WellFormed
  <1> QED
    BY <1>1, <1>2
    DEF Restart, DriftInv, TaskOK, HostOK, ParsedOK, FreshOK, SettledOK,
        Handling

-----------------------------------------------------------------------------
(* The theorems                                                               *)

\* There is no host at the start.
LEMMA InitDriftInv == DriftInit => DriftInv
  BY DEF DriftInit, DriftInv, FactsOK, EarlierOK, TaskOK, HostOK, ParsedOK,
         FreshOK, SettledOK, Handling

\* Every step keeps the invariant.
LEMMA StepDriftInv == DriftInv /\ [DriftNext]_driftVars => DriftInv'
  <1> SUFFICES ASSUME DriftInv, [DriftNext]_driftVars PROVE DriftInv'
    OBVIOUS
  <1>1. CASE Reject \/ UNCHANGED driftVars
    <2>1. UNCHANGED <<facts, earlier, config, host, phase, spec, listed, patch,
                      cached, seeded, since>>
      BY <1>1 DEF Reject, driftVars, worldVars, taskVars
    <2>2. /\ FactsOK' /\ EarlierOK' /\ (WellFormed => WellFormed')
          /\ Wanted' = Wanted
          /\ Parses(facts, config.defaults) => Parses(facts, config.defaults)'
          /\ Reading(facts, config.defaults)' = Reading(facts, config.defaults)
      BY <2>1, FactsStay DEF DriftInv
    <2> QED
      BY <2>1, <2>2
      DEF DriftInv, TaskOK, HostOK, ParsedOK, FreshOK, SettledOK
  <1>2. CASE Seed
    BY <1>2, SeedKeeps
  <1>3. CASE Inspect
    BY <1>3, InspectKeeps
  <1>4. CASE ListFailed
    BY <1>4, ListFailedKeeps
  <1>5. CASE UpsertInSync
    BY <1>5, UpsertInSyncKeeps
  <1>6. CASE UpsertDrifted \/ UpsertMissing
    BY <1>6, UpsertGoesOnKeeps
  <1>7. CASE Create \/ Update
    BY <1>7, CallKeeps
  <1>8. CASE Move
    BY <1>8, MoveKeeps
  <1>9. CASE UserEdit
    BY <1>9, UserEditKeeps
  <1>10. CASE Restart
    BY <1>10, RestartKeeps
  <1>11. CASE InspectEarlier
    BY <1>11, InspectEarlierKeeps
  <1> QED
    BY <1>1, <1>2, <1>3, <1>4, <1>5, <1>6, <1>7, <1>8, <1>9, <1>10, <1>11
    DEF DriftNext

\* The inductive invariant holds in every reachable state.
LEMMA DriftInvariance == DriftSpec => []DriftInv
  BY InitDriftInv, StepDriftInv, PTL DEF DriftSpec

\* Nothing but proper values gets into a host or a patch.
THEOREM DriftTyped == DriftSpec => []DriftTypeOK
  <1>1. ASSUME DriftInv
        PROVE  DriftTypeOK
    <2>1. phase \in {"seed", "idle"} <=> spec = NoSpec
      BY <1>1, DriftAssumption DEF DriftInv, TaskOK, Handling
    <2>2. phase = "update" <=> listed # NoHost
      BY <1>1, DriftAssumption DEF DriftInv, TaskOK
    <2>3. ASSUME phase = "update"
          PROVE  DOMAIN patch \subseteq DOMAIN listed
      <3>1. listed \in ProxyHost /\ patch = DiffSpec(listed, spec, config)
        BY <1>1, <2>3 DEF DriftInv, TaskOK
      <3>2. DOMAIN patch \subseteq Fields
        BY <3>1, DiffIsOfBody
      <3> QED  BY <3>1, <3>2, HostFields
    <2> QED
      BY <1>1, <2>1, <2>2, <2>3
      DEF DriftInv, TaskOK, HostOK, FreshOK, DriftTypeOK, Handling
  <1> QED  BY <1>1, DriftInvariance, PTL

\* Once an intent has been carried out and nothing has happened since, every
\* field is as labels and configuration want it, whatever it was before.
THEOREM SettledHostAgrees == DriftSpec => []SettledAgrees
  <1>1. DriftInv => SettledAgrees
    BY WantedServes DEF DriftInv, SettledOK, SettledAgrees
  <1> QED  BY <1>1, DriftInvariance, PTL

\* What is created, patched or found in step is not different in the eyes of
\* the next diff, for any labels, defaults and strategies.
THEOREM SettledIsLeftAlone == DriftSpec => []NoFlapping
  <1>1. DriftInv => NoFlapping
    BY SettledIdle DEF NoFlapping
  <1> QED  BY <1>1, DriftInvariance, PTL

\* A malformed label never makes a host, under any configuration.
THEOREM MalformedNeverServed == DriftSpec => []OnlyWellFormed
  <1>1. DriftInv => OnlyWellFormed
    BY DEF DriftInv, ParsedOK, WellFormed, OnlyWellFormed
  <1> QED  BY <1>1, DriftInvariance, PTL

\* What a PUT does to single fields, whatever has become of the host since it
\* was listed.
LEMMA PutFields ==
    ASSUME DriftInv, phase = "update", NEW f \in DOMAIN host,
           Merged(host, patch)[f] # host[f]
    PROVE  /\ listed[f] # CreateBody(spec, config)[f]
           /\ Merged(host, patch)[f] = CreateBody(spec, config)[f]
  <1> DEFINE b == CreateBody(spec, config)
             D == {i \in Fields : listed[i] # b[i]}
  <1>1. patch = [i \in D |-> b[i]]
    BY DiffIsOfBody DEF DriftInv, TaskOK
  <1>2. Merged(host, patch)[f] = IF f \in D THEN b[f] ELSE host[f]
    BY <1>1 DEF Merged
  <1> QED  BY <1>2

\* Edits are counted.
Counted == edits \in Nat

LEMMA EditsCounted == DriftSpec => []Counted
  <1>1. DriftInit => Counted
    BY DEF DriftInit, Counted
  <1>2. Counted /\ [DriftNext]_driftVars => Counted'
    <2>1. DriftNext => edits' \in {edits, edits + 1}
      BY DEF DriftNext, driftVars, Seed, Inspect, InspectEarlier, Reject,
             ListFailed, UpsertInSync, UpsertDrifted, UpsertMissing, Create,
             Update, Call, Move, UserEdit, Restart
    <2> QED  BY <2>1 DEF driftVars, Counted
  <1> QED  BY <1>1, <1>2, PTL DEF DriftSpec

\* An edit that comes between a list and its PUT is undone in those fields
\* alone that the list had shown to be wrong (diff.rs:10-48).
THEOREM EditsSurvivePuts == DriftSpec => AgreedFieldsKept
  <1>1. DriftInv /\ Counted /\ [DriftNext]_driftVars =>
           [edits' = edits /\ host # NoHost =>
               \A f \in DOMAIN host :
                   host'[f] # host[f] =>
                       /\ listed[f] # CreateBody(spec, config)[f]
                       /\ host'[f] = CreateBody(spec, config)[f]]_host
    <2> SUFFICES ASSUME DriftInv, Counted, [DriftNext]_driftVars,
                        edits' = edits, host # NoHost, host' # host,
                        NEW f \in DOMAIN host, host'[f] # host[f]
                 PROVE  /\ listed[f] # CreateBody(spec, config)[f]
                        /\ host'[f] = CreateBody(spec, config)[f]
      OBVIOUS
    <2>1. ~UserEdit
      BY DEF UserEdit, Counted
    <2>2. Create \/ Update
      BY <2>1
      DEF DriftNext, driftVars, Seed, Inspect, InspectEarlier, Reject,
          ListFailed,
          UpsertInSync, UpsertDrifted, UpsertMissing, Move, Restart
    <2>3. phase = "update" /\ host' = Merged(host, patch)
      BY <2>2 DEF Create, Update, Call, DriftInv, HostOK
    <2> QED  BY <2>3, PutFields
  <1> QED
    BY <1>1, DriftInvariance, EditsCounted, PTL DEF DriftSpec, AgreedFieldsKept

-----------------------------------------------------------------------------
(* Fields and targets                                                         *)

\* People keep the container's domain, and alone it is the name of one list.
LEMMA DomainNames ==
    ASSUME NEW h \in ProxyHost
    PROVE  /\ Url \in Range(h.domain_names)
           /\ Range(h.domain_names) = {Url} <=> h.domain_names = <<Url>>
           /\ h.domain_names # <<Url>> => Range(h.domain_names) = {Url, Alias}
  <1>1. Range(<<Url>>) = {Url}
    BY DEF Range
  <1>2. Range(<<Url, Alias>>) = {Url, Alias}
    BY DEF Range
  <1>3. Range(<<Alias, Url>>) = {Url, Alias}
    BY DEF Range
  <1>4. h.domain_names \in {<<Url>>, <<Url, Alias>>, <<Alias, Url>>}
    BY DEF ProxyHost
  <1>5. {Url, Alias} # {Url}
    BY DriftAssumption
  <1>6. /\ <<Url, Alias>> # <<Url>>
        /\ <<Alias, Url>> # <<Url>>
    OBVIOUS
  <1> QED  BY <1>1, <1>2, <1>3, <1>4, <1>5, <1>6

\* A host's target is its forwarding fields.
LEMMA TargetTyped ==
    ASSUME NEW h \in ProxyHost
    PROVE  /\ TargetOf(h) = [f \in TargetFields |-> h[f]]
           /\ TargetOf(h) \in Target
  <1>1. TargetOf(h) = [f \in TargetFields |-> h[f]]
    <2>1. DOMAIN h \cap TargetFields = TargetFields
      BY HostFields DEF Fields, TargetFields
    <2> QED  BY <2>1 DEF TargetOf, Restrict
  <1>2. /\ h.forward_scheme \in Scheme /\ h.forward_host \in ServedHosts
        /\ h.forward_port \in ServedPorts
        /\ h.allow_websocket_upgrade \in BOOLEAN
        /\ h.block_exploits \in BOOLEAN
    BY DEF ProxyHost
  <1>3. [f \in TargetFields |-> h[f]]
           = [forward_scheme          |-> h.forward_scheme,
              forward_host            |-> h.forward_host,
              forward_port            |-> h.forward_port,
              allow_websocket_upgrade |-> h.allow_websocket_upgrade,
              block_exploits          |-> h.block_exploits]
    BY DEF TargetFields
  <1> QED  BY <1>1, <1>2, <1>3 DEF Target

\* Two hosts have one target if their forwarding fields agree.
LEMMA SameTarget ==
    ASSUME NEW g \in ProxyHost, NEW h \in ProxyHost
    PROVE  TargetOf(g) = TargetOf(h) <=> \A f \in TargetFields : g[f] = h[f]
  <1>1. /\ TargetOf(g) = [f \in TargetFields |-> g[f]]
        /\ TargetOf(h) = [f \in TargetFields |-> h[f]]
    BY TargetTyped
  <1>2. TargetOf(g) = TargetOf(h) => \A f \in TargetFields : g[f] = h[f]
    <2> SUFFICES ASSUME TargetOf(g) = TargetOf(h), NEW f \in TargetFields
                 PROVE  g[f] = h[f]
      OBVIOUS
    <2>1. TargetOf(g)[f] = g[f] /\ TargetOf(h)[f] = h[f]
      BY <1>1
    <2> QED  BY <2>1
  <1> QED  BY <1>1, <1>2

\* Writer's fields of a patch are those of diff_spec: all the forwarding
\* fields are one, the domain names the other.
LEMMA PatchFields ==
    ASSUME NEW h \in ProxyHost, NEW s \in ContainerSpec, NEW c \in Configs
    PROVE  {IF f = "domain_names" THEN "domains" ELSE "target" :
               f \in DOMAIN DiffSpec(h, s, c)}
           = (IF TargetOf(h) = TargetOf(CreateBody(s, c))
              THEN {} ELSE {"target"})
             \cup (IF Range(h.domain_names) = {Url} THEN {} ELSE {"domains"})
  <1> DEFINE b == CreateBody(s, c)
             D == {f \in Fields : h[f] # b[f]}
             A == {IF f = "domain_names" THEN "domains" ELSE "target" : f \in D}
  <1>1. DOMAIN DiffSpec(h, s, c) = D
    BY DiffIsOfBody
  <1>2. b \in ProxyHost /\ b.domain_names = <<Url>>
    BY BodyTyped, BodyFields
  <1> HIDE DEF b
  <1>3. "domains" \in A <=> Range(h.domain_names) # {Url}
    <2>1. "domains" \in A <=> "domain_names" \in D
      OBVIOUS
    <2> QED  BY <1>2, <2>1, DomainNames DEF Fields
  <1>4. "target" \in A <=> TargetOf(h) # TargetOf(b)
    <2>1. "target" \in A <=> \E f \in D : f # "domain_names"
      OBVIOUS
    <2>2. (\E f \in D : f # "domain_names")
             <=> \E f \in TargetFields : h[f] # b[f]
      BY DEF Fields, TargetFields
    <2> QED  BY <1>2, <2>1, <2>2, SameTarget
  <1>5. A \subseteq {"domains", "target"}
    OBVIOUS
  <1> HIDE DEF A
  <1>6. A = (IF TargetOf(h) = TargetOf(b) THEN {} ELSE {"target"})
             \cup (IF Range(h.domain_names) = {Url} THEN {} ELSE {"domains"})
    BY <1>3, <1>4, <1>5
  <1> QED  BY <1>1, <1>6 DEF A, b

\* What a patch made for the host that was listed does to the host as it is
\* by the time of the update.
LEMMA PatchEffect ==
    ASSUME NEW h \in ProxyHost, NEW g \in ProxyHost,
           NEW s \in ContainerSpec, NEW c \in Configs
    PROVE  LET m == Merged(h, DiffSpec(g, s, c))
           IN  /\ m \in ProxyHost
               /\ m.domain_names = IF g.domain_names = <<Url>>
                                   THEN h.domain_names ELSE <<Url>>
               /\ TargetOf(g) = TargetOf(CreateBody(s, c))
                     => TargetOf(m) = TargetOf(h)
               /\ TargetOf(h) = TargetOf(g)
                     => TargetOf(m) = TargetOf(CreateBody(s, c))
  <1> DEFINE b == CreateBody(s, c)
             m == Merged(h, DiffSpec(g, s, c))
             D == {f \in Fields : g[f] # b[f]}
  <1>1. m \in ProxyHost
    BY PatchTyped
  <1>2. b \in ProxyHost /\ b.domain_names = <<Url>>
    BY BodyTyped, BodyFields
  <1>3. DiffSpec(g, s, c) = [f \in D |-> b[f]]
    BY DiffIsOfBody
  <1> HIDE DEF b
  <1>4. \A f \in Fields : m[f] = IF f \in D THEN b[f] ELSE h[f]
    BY <1>3, HostFields DEF Merged
  <1> HIDE DEF m
  <1>5. m.domain_names = IF g.domain_names = <<Url>>
                         THEN h.domain_names ELSE <<Url>>
    BY <1>2, <1>4 DEF Fields
  <1>6. \A f \in TargetFields : m[f] = IF g[f] # b[f] THEN b[f] ELSE h[f]
    BY <1>4 DEF Fields, TargetFields
  <1>7. TargetOf(g) = TargetOf(b) => TargetOf(m) = TargetOf(h)
    BY <1>1, <1>2, <1>6, SameTarget
  <1>8. TargetOf(h) = TargetOf(g) => TargetOf(m) = TargetOf(b)
    BY <1>1, <1>2, <1>6, SameTarget
  <1> QED  BY <1>1, <1>5, <1>7, <1>8 DEF b, m

-----------------------------------------------------------------------------
(* The mapped state                                                           *)

\* What Writer sees of the table.
LEMMA MappedTable ==
    /\ host = NoHost => AbstractHosts = << >> /\ DOMAIN AbstractHosts = {}
    /\ host # NoHost =>
          /\ DOMAIN AbstractHosts = {1}
          /\ AbstractHosts[1] = AbstractHost(host)
          /\ AbstractHosts[1].owner = Me
          /\ AbstractHosts[1].domains = Range(host.domain_names)
          /\ AbstractHosts[1].target = TargetOf(host)
          /\ AbstractHosts[1].tls = FALSE
  <1>1. [id \in {} |-> AbstractHost(host)] = << >>
    OBVIOUS
  <1> QED  BY <1>1 DEF AbstractHosts, AbstractHost

\* What it sees of the intent in hand.
LEMMA MappedIntent ==
    ASSUME DriftInv, phase \in Handling
    PROVE  /\ spec \in ContainerSpec /\ config \in Configs
           /\ AbstractIntent.kind = "upsert"
           /\ AbstractIntent.container = Me
           /\ AbstractIntent.target = TargetOf(CreateBody(spec, config))
           /\ UrlOfMe[AbstractIntent.container] = Url
           /\ CreateBody(spec, config) \in ProxyHost
  <1>1. spec \in ContainerSpec /\ spec # NoSpec /\ config \in Configs
    BY DriftAssumption DEF DriftInv, TaskOK, FactsOK
  <1> QED  BY <1>1, BodyTyped DEF AbstractIntent, UrlOfMe

\* The hosts that answer for the container's domain are all there are.
LEMMA MappedMatching ==
    ASSUME DriftInv, phase \in Handling
    PROVE  /\ W!Matching = DOMAIN AbstractHosts
           /\ host # NoHost =>
                 W!Diff(AbstractHosts[1])
                    = {IF f = "domain_names" THEN "domains" ELSE "target" :
                          f \in DOMAIN DiffSpec(host, spec, config)}
  <1>1. host # NoHost => host \in ProxyHost
    BY DEF DriftInv, HostOK
  <1>2. W!Matching = DOMAIN AbstractHosts
    BY <1>1, MappedTable, MappedIntent, DomainNames
    DEF W!Matching, W!HavingUrl
  <1>3. ASSUME host # NoHost
        PROVE  W!Diff(AbstractHosts[1])
                  = {IF f = "domain_names" THEN "domains" ELSE "target" :
                        f \in DOMAIN DiffSpec(host, spec, config)}
    <2>1. W!Diff(AbstractHosts[1])
            = (IF TargetOf(host) = TargetOf(CreateBody(spec, config))
               THEN {} ELSE {"target"})
              \cup (IF Range(host.domain_names) = {Url}
                    THEN {} ELSE {"domains"})
      BY <1>3, MappedTable, MappedIntent DEF W!Diff
    <2> QED  BY <1>1, <1>3, <2>1, MappedIntent, PatchFields
  <1> QED  BY <1>2, <1>3

\* The task is back at its queue, in both.
LEMMA MappedDone ==
    ASSUME Done, UNCHANGED <<seeded, restarts>>
    PROVE  W!Done
  BY DEF Done, W!Done, W!NoIntent, W!NoPatch, AbstractIntent, AbstractPatch

\* What is read but not written.
LEMMA MappedUnchanged ==
    /\ UNCHANGED <<host, faults, edits>> => W!NoEffect
    /\ UNCHANGED host => UNCHANGED AbstractHosts
    /\ UNCHANGED cached => UNCHANGED AbstractCache
    /\ UNCHANGED <<spec, config>> => UNCHANGED AbstractIntent
    /\ Fault => W!Fault
  <1>1. UNCHANGED host => UNCHANGED AbstractHosts
    BY DEF AbstractHosts
  <1>2. UNCHANGED <<host, faults, edits>> => W!NoEffect
    BY <1>1 DEF W!NoEffect, W!npmVars
  <1>3. UNCHANGED cached => UNCHANGED AbstractCache
    BY DEF AbstractCache
  <1>4. UNCHANGED <<spec, config>> => UNCHANGED AbstractIntent
    BY DEF AbstractIntent
  <1>5. Fault => W!Fault
    BY DEF Fault, W!Fault
  <1> QED  BY <1>1, <1>2, <1>3, <1>4, <1>5

\* The entry of the one container.
LEMMA MappedCache ==
    ASSUME cached' = TRUE
    PROVE  W!Remember(Me, 1)
  BY DEF W!Remember, AbstractCache

-----------------------------------------------------------------------------
(* The initial state and the steps                                            *)

\* The initial states are the writer's.
LEMMA InitMapped == DriftInit => W!WriterInit
  <1> SUFFICES ASSUME DriftInit
               PROVE  W!WriterInit
    OBVIOUS
  <1>1. AbstractHosts = << >>
    BY MappedTable DEF DriftInit
  <1>2. AbstractCache = << >>
    <2>1. [c \in {} |-> 1] = << >>
      OBVIOUS
    <2> QED  BY <2>1 DEF DriftInit, AbstractCache
  <1> QED
    BY <1>1, <1>2
    DEF DriftInit, W!WriterInit, W!NpmInit, W!NoIntent, W!NoPatch,
        AbstractIntent, AbstractPatch

\* The seed list fills the cache with the one entry there can be.
LEMMA SeedMapped ==
    ASSUME DriftInv, Seed
    PROVE  W!Seed \/ W!SeedFailed
  <1>1. /\ phase = "seed" /\ phase' = "idle"
        /\ UNCHANGED <<host, config, spec, listed, patch, edits, restarts>>
    BY DEF Seed, worldVars
  <1>2. UNCHANGED AbstractIntent /\ UNCHANGED AbstractPatch
    BY <1>1, MappedUnchanged DEF AbstractPatch
  <1>3. CASE cached' = (host # NoHost) /\ seeded' = TRUE /\ UNCHANGED faults
    <2>1. W!Owners = IF host = NoHost THEN {} ELSE {Me}
      BY MappedTable, DriftAssumption DEF W!Owners
    <2>2. /\ AbstractCache' \in [W!Owners -> DOMAIN AbstractHosts]
          /\ \A c \in W!Owners : AbstractHosts[AbstractCache'[c]].owner = c
      BY <1>3, <2>1, MappedTable DEF AbstractCache
    <2>3. W!NoEffect
      BY <1>1, <1>3, MappedUnchanged
    <2> QED  BY <1>1, <1>2, <1>3, <2>2, <2>3 DEF W!Seed
  <1>4. CASE Fault /\ UNCHANGED <<cached, seeded>>
    <2>1. W!FaultyNoEffect /\ UNCHANGED AbstractCache
      BY <1>1, <1>4, MappedUnchanged DEF W!FaultyNoEffect
    <2> QED  BY <1>1, <1>2, <1>4, <2>1 DEF W!SeedFailed
  <1> QED  BY <1>3, <1>4 DEF Seed

\* The intent an inspection leads to is one of Writer's.
LEMMA InspectMapped ==
    ASSUME DriftInv, Inspect \/ InspectEarlier, DriftInv'
    PROVE  \E i \in W!Intent : W!Accept(i)
  <1>1. /\ phase = "idle" /\ phase' = "upsert"
        /\ UNCHANGED <<host, config, cached, listed, patch, seeded, faults,
                       edits, restarts>>
    BY DEF Inspect, InspectEarlier, worldVars
  <1>2. /\ spec' \in ContainerSpec /\ config' \in Configs
        /\ CreateBody(spec', config') \in ProxyHost /\ spec' # NoSpec
    BY <1>1, BodyTyped, DriftAssumption DEF DriftInv, TaskOK, FactsOK, Handling
  <1> DEFINE t == TargetOf(CreateBody(spec', config'))
  <1>3. t \in Target
    BY <1>2, TargetTyped
  <1>4. AbstractIntent' = W!Upsert(Me, t)
    BY <1>2 DEF AbstractIntent, W!Upsert
  <1> HIDE DEF t
  <1>5. W!Upsert(Me, t) \in W!Intent
    BY <1>3 DEF W!Intent
  <1>6. W!Accept(W!Upsert(Me, t))
    <2>1. W!NoEffect /\ UNCHANGED AbstractCache
      BY <1>1, MappedUnchanged
    <2>2. UNCHANGED AbstractPatch
      BY <1>1 DEF AbstractPatch
    <2>3. W!Upsert(Me, t).kind = "upsert"
      BY DEF W!Upsert
    <2> QED  BY <1>1, <1>4, <2>1, <2>2, <2>3 DEF W!Accept
  <1> QED  BY <1>5, <1>6

LEMMA ListFailedMapped ==
    ASSUME DriftInv, ListFailed
    PROVE  W!ListFailed
  <1>1. W!FaultyNoEffect /\ UNCHANGED AbstractCache
    BY MappedUnchanged DEF ListFailed, W!FaultyNoEffect
  <1>2. W!Done
    BY MappedDone DEF ListFailed
  <1> QED  BY <1>1, <1>2 DEF ListFailed, W!ListFailed

\* A host without a difference in any field has none in Writer's two.
LEMMA InSyncMapped ==
    ASSUME DriftInv, UpsertInSync
    PROVE  W!UpsertInSync
  <1>1. phase = "upsert" /\ phase \in Handling /\ host # NoHost
    BY DEF UpsertInSync, Handling
  <1>2. W!Matching = {1} /\ AbstractHosts[1].owner = AbstractIntent.container
    BY <1>1, MappedMatching, MappedTable, MappedIntent
  <1>3. W!Diff(AbstractHosts[1]) = {}
    <2>1. DOMAIN DiffSpec(host, spec, config) = {}
      BY DEF UpsertInSync
    <2> QED  BY <1>1, <2>1, MappedMatching
  <1>4. W!Remember(AbstractIntent.container, 1)
    BY <1>1, MappedIntent, MappedCache DEF UpsertInSync
  <1>5. W!NoEffect /\ W!Done
    BY MappedUnchanged, MappedDone DEF UpsertInSync
  <1> QED  BY <1>1, <1>2, <1>3, <1>4, <1>5 DEF W!UpsertInSync

\* A patch of fields that is not empty is one of Writer's fields.
LEMMA DriftedMapped ==
    ASSUME DriftInv, UpsertDrifted
    PROVE  W!UpsertDrifted
  <1>1. /\ phase = "upsert" /\ phase \in Handling /\ host # NoHost
        /\ phase' = "update" /\ listed' = host
        /\ patch' = DiffSpec(host, spec, config) /\ patch' # << >>
        /\ UNCHANGED <<host, spec, config, cached, seeded, faults, edits,
                       restarts>>
    BY DEF UpsertDrifted, Handling, worldVars
  <1>2. W!Matching = {1} /\ AbstractHosts[1].owner = AbstractIntent.container
    BY <1>1, MappedMatching, MappedTable, MappedIntent
  <1>3. W!Diff(AbstractHosts[1]) # {}
    <2> DEFINE p == DiffSpec(host, spec, config)
    <2>1. DOMAIN p # {}
      <3>1. p = [f \in DOMAIN p |-> p[f]]
        BY DiffIsOfBody
      <3>2. [f \in {} |-> p[f]] = << >>
        OBVIOUS
      <3> QED  BY <1>1, <3>1, <3>2
    <2> QED  BY <1>1, <2>1, MappedMatching
  <1>4. AbstractPatch' = W!UpdateOf(AbstractHosts[1])
    <2>1. AbstractPatch'
            = [fields |-> {IF f = "domain_names" THEN "domains" ELSE "target" :
                              f \in DOMAIN DiffSpec(host, spec, config)},
               seen   |-> TargetOf(host)]
      BY <1>1 DEF AbstractPatch
    <2> QED  BY <1>1, <2>1, MappedMatching, MappedTable DEF W!UpdateOf
  <1>5. W!Commit("update", 1, W!UpdateOf(AbstractHosts[1]))
    BY <1>1, <1>4, MappedUnchanged DEF W!Commit
  <1>6. W!NoEffect /\ UNCHANGED AbstractCache
    BY <1>1, MappedUnchanged
  <1> QED  BY <1>1, <1>2, <1>3, <1>5, <1>6 DEF W!UpsertDrifted

LEMMA MissingMapped ==
    ASSUME DriftInv, UpsertMissing
    PROVE  W!UpsertMissing
  <1>1. /\ phase = "upsert" /\ phase \in Handling /\ host = NoHost
        /\ phase' = "create"
        /\ UNCHANGED <<host, spec, config, cached, seeded, faults, edits,
                       restarts>>
    BY DEF UpsertMissing, Handling, worldVars
  <1>2. W!Matching = {}
    BY <1>1, MappedMatching, MappedTable
  <1>3. W!Commit("create", 0, W!NoPatch)
    BY <1>1, MappedUnchanged DEF W!Commit, W!NoPatch, AbstractPatch
  <1>4. W!NoEffect /\ UNCHANGED AbstractCache
    BY <1>1, MappedUnchanged
  <1> QED  BY <1>1, <1>2, <1>3, <1>4 DEF W!UpsertMissing

\* The body of a create is Writer's new host, and it gets the one id there is.
LEMMA PostMapped ==
    ASSUME DriftInv, phase = "create", host' = CreateBody(spec, config)
    PROVE  W!PostApplied(W!NewHost, 1)
  <1>1. phase \in Handling /\ host = NoHost /\ host' # NoHost
    BY BodyTyped DEF DriftInv, HostOK, TaskOK, FactsOK, Handling
  <1>2. AbstractHosts' = [id \in {1} |-> AbstractHost(host')]
    BY <1>1 DEF AbstractHosts, AbstractHost, TargetOf
  <1>3. AbstractHost(host') = W!NewHost
    <2>1. Range(host'.domain_names) = {Url}
      BY BodyFields DEF Range
    <2> QED  BY <1>1, <2>1, MappedIntent DEF AbstractHost, W!NewHost
  <1>4. ~W!Taken(W!NewHost.domains, 0)
    BY <1>1, MappedTable DEF W!Taken, W!HavingUrl
  <1>5. AbstractHosts' = [id \in DOMAIN AbstractHosts \cup 1 .. 1 + 1 - 1 |->
                            IF id < 1 THEN AbstractHosts[id] ELSE W!NewHost]
    <2>1. DOMAIN AbstractHosts \cup 1 .. 1 + 1 - 1 = {1}
      BY <1>1, MappedTable
    <2> QED  BY <1>2, <1>3, <2>1
  <1> QED  BY <1>1, <1>4, <1>5 DEF W!PostApplied

LEMMA CreateMapped ==
    ASSUME DriftInv, Create
    PROVE  W!Create \/ W!CreateFailed
  <1>1. phase = "create" /\ phase \in Handling /\ host = NoHost
    BY DEF Create, DriftInv, HostOK, Handling
  <1>2. /\ Done /\ W!Done
        /\ UNCHANGED <<config, seeded, edits, restarts>>
    BY MappedDone DEF Create, Call, worldVars
  <1>3. CASE /\ host' = CreateBody(spec, config) /\ cached' = TRUE
             /\ UNCHANGED faults
    <2>1. W!PostApplied(W!NewHost, 1) /\ host' # NoHost
      BY <1>1, <1>3, PostMapped, MappedIntent, BodyTyped
    <2>2. W!PostOk(W!NewHost)
      BY <1>2, <1>3, <2>1 DEF W!PostOk
    <2>3. W!Remember(AbstractIntent.container, 1)
      BY <1>1, <1>3, MappedCache, MappedIntent
    <2> QED  BY <1>1, <1>2, <2>1, <2>2, <2>3 DEF W!Create
  <1>4. CASE Fault /\ UNCHANGED <<host, cached>>
    <2>1. W!PostErr(W!NewHost) /\ UNCHANGED AbstractCache
      BY <1>2, <1>4, MappedUnchanged DEF W!PostErr
    <2> QED  BY <1>1, <1>2, <2>1 DEF W!CreateFailed
  <1>5. CASE /\ Fault /\ host' = CreateBody(spec, config)
             /\ UNCHANGED cached
    <2>1. W!PostApplied(W!NewHost, 1) /\ W!Fault
      BY <1>1, <1>5, PostMapped, MappedUnchanged
    <2>2. W!PostErr(W!NewHost) /\ UNCHANGED AbstractCache
      BY <1>2, <1>5, <2>1, MappedUnchanged DEF W!PostErr
    <2> QED  BY <1>1, <1>2, <2>2 DEF W!CreateFailed
  <1> QED  BY <1>3, <1>4, <1>5 DEF Create, Call

\* A merged patch of fields is one of Writer's outcomes: the target wanted, if
\* nobody has touched the host since the list, and else some target.
LEMMA PutMapped ==
    ASSUME DriftInv, phase = "update", host' = Merged(host, patch)
    PROVE  /\ W!PutApplied(1, AbstractPatch, Me, AbstractIntent.target)
           /\ host' # NoHost
  <1> DEFINE b == CreateBody(spec, config)
  <1>1. /\ phase \in Handling /\ host # NoHost /\ host \in ProxyHost
        /\ listed \in ProxyHost /\ patch = DiffSpec(listed, spec, config)
    BY DEF DriftInv, HostOK, TaskOK, Handling
  <1>2. /\ spec \in ContainerSpec /\ config \in Configs
        /\ AbstractIntent.target = TargetOf(b)
    BY <1>1, MappedIntent
  <1>3. /\ host' \in ProxyHost
        /\ host'.domain_names = IF listed.domain_names = <<Url>>
                                THEN host.domain_names ELSE <<Url>>
        /\ TargetOf(listed) = TargetOf(b) => TargetOf(host') = TargetOf(host)
        /\ TargetOf(host) = TargetOf(listed) => TargetOf(host') = TargetOf(b)
    <2>1. host' = Merged(host, DiffSpec(listed, spec, config))
      BY <1>1
    <2> QED  BY <1>1, <1>2, <2>1, PatchEffect
  <1>4. host' # NoHost
    BY <1>3, DriftAssumption
  <1>5. TargetOf(host') \in Target
    BY <1>3, TargetTyped
  <1>6. /\ AbstractPatch.seen = TargetOf(listed)
        /\ AbstractPatch.fields
             = (IF TargetOf(listed) = TargetOf(b) THEN {} ELSE {"target"})
               \cup (IF Range(listed.domain_names) = {Url}
                     THEN {} ELSE {"domains"})
    BY <1>1, <1>2, PatchFields DEF AbstractPatch
  <1> HIDE DEF b
  <1>7. /\ "target" \in AbstractPatch.fields <=> TargetOf(listed) # TargetOf(b)
        /\ "domains" \in AbstractPatch.fields
              <=> listed.domain_names # <<Url>>
        /\ "tls" \notin AbstractPatch.fields
    BY <1>1, <1>6, DomainNames
  <1>8. TargetOf(host')
          \in W!Outcomes(AbstractHosts[1], AbstractPatch, AbstractIntent.target)
    <2>1. AbstractHosts[1].target = TargetOf(host)
      BY <1>1, MappedTable
    <2> QED  BY <1>2, <1>3, <1>5, <1>6, <1>7, <2>1 DEF W!Outcomes
  <1>9. ~W!PutRefused(1, AbstractPatch, Me)
    <2>1. DOMAIN AbstractHosts = {1}
      BY <1>1, MappedTable
    <2> QED  BY <2>1 DEF W!PutRefused, W!Taken, W!HavingUrl
  <1>10. AbstractHost(host') = W!Patched(AbstractHosts[1], AbstractPatch, Me,
                                        TargetOf(host'))
    <2>1. Range(<<Url>>) = {Url}
      BY DEF Range
    <2> QED
      BY <1>1, <1>3, <1>7, <2>1, MappedTable
      DEF AbstractHost, W!Patched, UrlOfMe
  <1>11. AbstractHosts' = [AbstractHosts EXCEPT ![1] =
             W!Patched(@, AbstractPatch, Me, TargetOf(host'))]
    <2>1. AbstractHosts' = [id \in {1} |-> AbstractHost(host')]
      BY <1>4 DEF AbstractHosts, AbstractHost, TargetOf
    <2>2. AbstractHosts = [id \in {1} |-> AbstractHosts[id]]
      BY <1>1 DEF AbstractHosts
    <2> QED  BY <1>10, <2>1, <2>2
  <1> QED  BY <1>4, <1>8, <1>9, <1>11 DEF W!PutApplied

LEMMA UpdateMapped ==
    ASSUME DriftInv, Update
    PROVE  W!Update
  <1>1. phase = "update" /\ phase \in Handling /\ host # NoHost
        /\ AbstractIntent.container = Me
    BY MappedIntent DEF Update, DriftInv, HostOK, Handling
  <1>2. /\ Done /\ W!Done
        /\ UNCHANGED <<config, seeded, edits, restarts>>
    BY MappedDone DEF Update, Call, worldVars
  <1> DEFINE t == AbstractIntent.target
  <1>3. CASE /\ host' = Merged(host, patch) /\ cached' = TRUE
             /\ UNCHANGED faults
    <2>1. W!PutApplied(1, AbstractPatch, Me, t) /\ host' # NoHost
      BY <1>1, <1>3, PutMapped
    <2>2. W!PutOk(1, AbstractPatch, Me, t)
      BY <1>1, <1>2, <1>3, <2>1 DEF W!PutOk
    <2>3. W!Remember(Me, 1)
      BY <1>3, MappedCache
    <2> QED  BY <1>1, <1>2, <2>2, <2>3 DEF W!Update
  <1>4. CASE Fault /\ UNCHANGED <<host, cached>>
    <2>1. W!PutErr(1, AbstractPatch, Me, t) /\ UNCHANGED AbstractCache
      BY <1>2, <1>4, MappedUnchanged DEF W!PutErr
    <2> QED  BY <1>1, <1>2, <2>1 DEF W!Update
  <1>5. CASE /\ Fault /\ host' = Merged(host, patch) /\ UNCHANGED cached
    <2>1. /\ W!PutApplied(1, AbstractPatch, Me, t) /\ host' # NoHost
          /\ W!Fault
      BY <1>1, <1>5, PutMapped, MappedUnchanged
    <2>2. W!PutErr(1, AbstractPatch, Me, t) /\ UNCHANGED AbstractCache
      BY <1>1, <1>2, <1>5, <2>1, MappedUnchanged DEF W!PutErr
    <2> QED  BY <1>1, <1>2, <2>2 DEF W!Update
  <1> QED  BY <1>3, <1>4, <1>5 DEF Update, Call

\* A person either adds the alias or changes a field of the target.
LEMMA EditedFields ==
    ASSUME host \in ProxyHost, UserEdit
    PROVE  \/ /\ host'.domain_names = host.domain_names
              /\ TargetOf(host') # TargetOf(host)
           \/ /\ host.domain_names = <<Url>> /\ host'.domain_names # <<Url>>
              /\ TargetOf(host') = TargetOf(host)
  <1>1. host' \in ProxyHost /\ host' # host
    BY EditTyped DEF UserEdit
  <1>2. CASE host'.domain_names = host.domain_names
    <2>1. \E f \in Fields : host'[f] # host[f]
      BY <1>1, HostFields
    <2>2. \E f \in TargetFields : host'[f] # host[f]
      BY <1>2, <2>1 DEF Fields, TargetFields
    <2> QED  BY <1>1, <1>2, <2>2, SameTarget
  <1>3. ASSUME host.domain_names = <<Url>>,
               NEW d \in {<<Url, Alias>>, <<Alias, Url>>},
               host' = [host EXCEPT !.domain_names = d]
        PROVE  /\ host'.domain_names # <<Url>>
               /\ TargetOf(host') = TargetOf(host)
    <2>1. d # <<Url>> /\ host'.domain_names = d
      BY <1>3 DEF ProxyHost
    <2>2. \A f \in TargetFields : host'[f] = host[f]
      BY <1>3 DEF ProxyHost, TargetFields
    <2> QED  BY <1>1, <2>1, <2>2, SameTarget
  <1>4. ASSUME \/ \E s \in Scheme : host' = [host EXCEPT !.forward_scheme = s]
               \/ \E x \in UserHosts : host' = [host EXCEPT !.forward_host = x]
               \/ \E p \in UserPorts : host' = [host EXCEPT !.forward_port = p]
               \/ host' = [host EXCEPT !.allow_websocket_upgrade = ~@]
               \/ host' = [host EXCEPT !.block_exploits = ~@]
        PROVE  host'.domain_names = host.domain_names
    BY <1>4 DEF ProxyHost
  <1> QED  BY <1>2, <1>3, <1>4 DEF UserEdit

\* Writer's ways to change a table of one host.
LEMMA EditedTable ==
    ASSUME NEW d, NEW t, NEW f, NEW e, NEW u
    PROVE  LET Row(x, y) == [domains |-> x, owner |-> Me,
                             target |-> y, tls |-> f]
               Table(r) == [id \in {1} |-> r]
           IN  /\ [Table(Row(d, t)) EXCEPT ![1].target = u] = Table(Row(d, u))
               /\ [Table(Row(d, t)) EXCEPT ![1].domains = @ \cup e]
                     = Table(Row(d \cup e, t))
  <1> DEFINE Row(x, y) == [domains |-> x, owner |-> Me,
                           target |-> y, tls |-> f]
             Table(r) == [id \in {1} |-> r]
  <1>1. /\ [Row(d, t) EXCEPT !.target = u] = Row(d, u)
        /\ [Row(d, t) EXCEPT !.domains = @ \cup e] = Row(d \cup e, t)
        /\ Row(d, t).domains = d
    OBVIOUS
  <1> HIDE DEF Row
  <1>2. /\ [Table(Row(d, t)) EXCEPT ![1].target = u]
              = Table([Row(d, t) EXCEPT !.target = u])
        /\ [Table(Row(d, t)) EXCEPT ![1].domains = @ \cup e]
              = Table([Row(d, t) EXCEPT !.domains = @ \cup e])
    OBVIOUS
  <1> QED  BY <1>1, <1>2 DEF Row

\* Which is one of the two edits that Writer has for a host that drifts.
LEMMA UserEditMapped ==
    ASSUME DriftInv, UserEdit
    PROVE  W!User
  <1>1. /\ host # NoHost /\ host \in ProxyHost /\ edits < MaxEdits
        /\ edits' = edits + 1
        /\ UNCHANGED <<config, phase, spec, listed, patch, cached, seeded,
                       faults, restarts>>
    BY DEF UserEdit, DriftInv, HostOK, worldVars, taskVars
  <1>2. host' \in ProxyHost /\ host' # NoHost
    BY <1>1, EditTyped, DriftAssumption
  <1>3. /\ DOMAIN AbstractHosts = {1}
        /\ AbstractHosts = [id \in {1} |-> AbstractHost(host)]
        /\ AbstractHosts' = [id \in {1} |-> AbstractHost(host')]
    BY <1>1, <1>2 DEF AbstractHosts, AbstractHost, TargetOf
  <1> DEFINE f    == FALSE
             R(h) == [domains |-> Range(h.domain_names), owner |-> Me,
                      target |-> TargetOf(h), tls |-> f]
  <1>4. AbstractHost(host) = R(host) /\ AbstractHost(host') = R(host')
    BY DEF AbstractHost
  <1> HIDE DEF f
  <1>5. W!Edit("drift")
    BY <1>1 DEF W!Edit
  <1>6. W!UserDrift
    <2>1. CASE /\ host'.domain_names = host.domain_names
               /\ TargetOf(host') # TargetOf(host)
      <3> DEFINE t == TargetOf(host')
      <3>1. t \in Target \ {AbstractHosts[1].target}
        BY <1>1, <1>2, <2>1, TargetTyped, MappedTable
      <3>2. AbstractHosts' = [AbstractHosts EXCEPT ![1].target = t]
        BY <1>3, <1>4, <2>1, EditedTable
      <3>3. UNCHANGED (IF host = NoHost THEN 1 ELSE 2)
        BY <1>1, <1>2
      <3> HIDE DEF t
      <3> QED  BY <1>3, <1>5, <3>1, <3>2, <3>3 DEF W!UserDrift
    <2>2. CASE /\ host.domain_names = <<Url>> /\ host'.domain_names # <<Url>>
               /\ TargetOf(host') = TargetOf(host)
      <3>1. /\ Range(host.domain_names) = {Url}
            /\ Range(host'.domain_names) = {Url} \cup {Alias}
        BY <1>1, <1>2, <2>2, DomainNames
      <3>2. Alias \in {Url, Alias} \ AbstractHosts[1].domains
        BY <1>1, <3>1, MappedTable, DriftAssumption
      <3>3. ~W!Taken({Alias}, 1)
        BY <1>3 DEF W!Taken, W!HavingUrl
      <3>4. AbstractHosts'
              = [AbstractHosts EXCEPT ![1].domains = @ \cup {Alias}]
        BY <1>3, <1>4, <2>2, <3>1, EditedTable
      <3>5. UNCHANGED (IF host = NoHost THEN 1 ELSE 2)
        BY <1>1, <1>2
      <3> QED  BY <1>3, <1>5, <3>2, <3>3, <3>4, <3>5 DEF W!UserDrift
    <2> QED  BY <1>1, <2>1, <2>2, EditedFields
  <1>7. UNCHANGED AbstractIntent /\ UNCHANGED AbstractCache
        /\ UNCHANGED AbstractPatch
    BY <1>1, MappedUnchanged DEF AbstractPatch
  <1> QED  BY <1>1, <1>6, <1>7 DEF W!User, W!UserEdit, W!taskVars

LEMMA RestartMapped ==
    ASSUME DriftInv, Restart
    PROVE  W!Restart
  <1>1. /\ phase' = "seed" /\ spec' = NoSpec /\ cached' = FALSE
        /\ seeded' = FALSE /\ UNCHANGED <<host, faults, edits>>
        /\ restarts < MaxRestarts /\ restarts' = restarts + 1
    BY DEF Restart, worldVars
  <1>2. AbstractCache' = << >>
    <2>1. [c \in {} |-> 1] = << >>
      OBVIOUS
    <2> QED  BY <1>1, <2>1 DEF AbstractCache
  <1>3. W!NoEffect
    BY <1>1, MappedUnchanged
  <1> QED
    BY <1>1, <1>2, <1>3
    DEF W!Restart, W!NoIntent, W!NoPatch, AbstractIntent, AbstractPatch

\* A container that moves, or an intent there is none of, is nothing to Writer.
LEMMA StutterMapped ==
    ASSUME UNCHANGED <<host, config, phase, spec, listed, patch, cached,
                       seeded, faults, edits, restarts>>
    PROVE  UNCHANGED W!writerVars
  <1>1. UNCHANGED AbstractPatch
    BY DEF AbstractPatch
  <1> QED
    BY <1>1, MappedUnchanged
    DEF W!writerVars, W!npmVars, W!taskVars, W!NoEffect

\* Every step is a step of the writer, or none.
LEMMA StepMapped ==
    ASSUME DriftInv, [DriftNext]_driftVars, DriftInv'
    PROVE  [W!WriterNext]_W!writerVars
  <1>1. CASE Seed
    BY <1>1, SeedMapped DEF W!WriterNext, W!WriterTask
  <1>2. CASE Inspect \/ InspectEarlier
    BY <1>2, InspectMapped DEF W!WriterNext
  <1>3. CASE ListFailed
    BY <1>3, ListFailedMapped DEF W!WriterNext, W!WriterTask, W!Handle
  <1>4. CASE UpsertInSync
    BY <1>4, InSyncMapped DEF W!WriterNext, W!WriterTask, W!Handle
  <1>5. CASE UpsertDrifted
    BY <1>5, DriftedMapped DEF W!WriterNext, W!WriterTask, W!Handle
  <1>6. CASE UpsertMissing
    BY <1>6, MissingMapped DEF W!WriterNext, W!WriterTask, W!Handle
  <1>7. CASE Create
    BY <1>7, CreateMapped DEF W!WriterNext, W!WriterTask, W!Handle
  <1>8. CASE Update
    BY <1>8, UpdateMapped DEF W!WriterNext, W!WriterTask, W!Handle
  <1>9. CASE UserEdit
    BY <1>9, UserEditMapped DEF W!WriterNext
  <1>10. CASE Restart
    BY <1>10, RestartMapped DEF W!WriterNext
  <1>11. CASE Reject \/ Move \/ UNCHANGED driftVars
    <2>1. UNCHANGED <<host, config, phase, spec, listed, patch, cached,
                      seeded, faults, edits, restarts>>
      BY <1>11 DEF Reject, Move, driftVars, taskVars
    <2> QED  BY <2>1, StutterMapped
  <1> QED
    BY <1>1, <1>2, <1>3, <1>4, <1>5, <1>6, <1>7, <1>8, <1>9, <1>10, <1>11
    DEF DriftNext

-----------------------------------------------------------------------------
(* The theorem                                                                *)

\* What bodies and patches of fields do to a host, with people editing it
\* between the list and the update, is what Writer's one target value says
\* (mod.rs:132-199, diff.rs:10-48): Npm's Outcomes allow enough.
THEOREM FieldsImplementTargets == DriftSpec => ImplementsWriter
  <1>1. DriftInv /\ DriftInv' /\ [DriftNext]_driftVars
           => [W!WriterNext]_W!writerVars
    BY StepMapped
  <1> QED
    BY InitMapped, <1>1, DriftInvariance, PTL
    DEF DriftSpec, ImplementsWriter, W!WriterSpec
=============================================================================
