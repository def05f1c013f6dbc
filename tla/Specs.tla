-------------------------------- MODULE Specs --------------------------------
(* How a container's labels become a proxy host: labels.rs parses them into   *)
(* a ContainerSpec, forward_host_for chooses where NPM forwards to, and       *)
(* diff_spec compares the result with a host that exists.  A label's value is *)
(* Absent, Bad when it has no meaning (not a number, not a boolean), or what  *)
(* it means.                                                                  *)
EXTENDS Integers

CONSTANTS
    Absent, Bad,
    Url,            \* the container's nginx_proxy_url
    DockerHost      \* the name "host.docker.internal"

u16    == 0 .. 65535
Scheme == {"http", "https"}

Strategy == {"container_name", "container_ip", "host_port"}

TargetFields == {"forward_scheme", "forward_host", "forward_port",
                 "allow_websocket_upgrade", "block_exploits"}

-----------------------------------------------------------------------------
(* labels.rs, parse()                                                         *)

\* Broken: any number will do.
LabelPortUnchecked(l) == l.port

\* A number that is no u16 is refused like a word.
LabelPort(l) == IF l.port = Absent \/ l.port = Bad THEN l.port
                ELSE IF l.port \in u16 THEN l.port ELSE Bad

Lowest(ports) == CHOOSE p \in ports : \A q \in ports : p <= q

\* select_port(): the label, else the lowest port the image exposes.
SelectPort(facts) ==
    LET label == LabelPort(facts.labels)
    IN  IF label # Absent THEN label
        ELSE IF facts.exposed = {} THEN Bad ELSE Lowest(facts.exposed)

Or(label, default) == IF label = Absent THEN default ELSE label

\* parse() before its `?`s: a spec in which Bad stands for an error.
Reading(facts, defaults) ==
    [name          |-> facts.name,
     addresses     |-> facts.addresses,
     port          |-> SelectPort(facts),
     scheme        |-> Or(facts.labels.scheme, defaults.scheme),
     ssl           |-> Or(facts.labels.ssl, defaults.ssl),
     websockets    |-> Or(facts.labels.websockets, defaults.websockets),
     blockExploits |-> Or(facts.labels.blockExploits, defaults.blockExploits)]

\* Broken: a label without meaning does not stop the container.
AlwaysParses(facts, defaults) == SelectPort(facts) # Bad

Parses(facts, defaults) ==
    \A field \in {"port", "scheme", "ssl", "websockets", "blockExploits"} :
        Reading(facts, defaults)[field] # Bad

-----------------------------------------------------------------------------
(* writer/mod.rs and diff.rs                                                  *)

\* Of addresses, an entry "{network}:ip" is the network's; a container has
\* none on a network it is not on, or while it does not run.
ForwardHost(spec, config) ==
    CASE config.strategy = "container_name" -> spec.name
      [] config.strategy = "container_ip" ->
            IF config.network \in DOMAIN spec.addresses
            THEN spec.addresses[config.network] ELSE spec.name
      [] config.strategy = "host_port" ->
            Or(config.hostAddress, DockerHost)

\* Broken: websockets are left at NPM's default.
CreateWithoutWebsockets(spec, config) ==
    [domain_names            |-> <<Url>>,
     forward_scheme          |-> spec.scheme,
     forward_host            |-> ForwardHost(spec, config),
     forward_port            |-> spec.port,
     allow_websocket_upgrade |-> FALSE,
     block_exploits          |-> spec.blockExploits]

\* The body of create_proxy_host.
CreateBody(spec, config) ==
    [domain_names            |-> <<Url>>,
     forward_scheme          |-> spec.scheme,
     forward_host            |-> ForwardHost(spec, config),
     forward_port            |-> spec.port,
     allow_websocket_upgrade |-> spec.websockets,
     block_exploits          |-> spec.blockExploits]

\* Broken: the domains are sent with every patch, needed or not.
DiffAlwaysDomains(h, spec, config) ==
    LET desired == CreateBody(spec, config)
        differs == {f \in DOMAIN desired : h[f] # desired[f]}
    IN  [f \in differs \cup {"domain_names"} |-> desired[f]]

\* Broken: if one field differs, all are sent.
DiffAll(h, spec, config) ==
    LET desired == CreateBody(spec, config)
    IN  IF \A f \in DOMAIN desired : h[f] = desired[f] THEN << >> ELSE desired

\* diff_spec(): the fields to change, each with its new value; none at all
\* means that there is nothing to update.
DiffSpec(h, spec, config) ==
    LET desired == [domain_names            |-> <<Url>>,
                    forward_scheme          |-> spec.scheme,
                    forward_host            |-> ForwardHost(spec, config),
                    forward_port            |-> spec.port,
                    allow_websocket_upgrade |-> spec.websockets,
                    block_exploits          |-> spec.blockExploits]
    IN  [f \in {f \in DOMAIN desired : h[f] # desired[f]} |-> desired[f]]
=============================================================================
