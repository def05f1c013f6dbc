------------------------------- MODULE Intents -------------------------------
(* intent.rs: the messages by which the watcher and the reconciler tell the   *)
(* writer what a container needs.  A ContainerSpec is reduced to what the     *)
(* properties tell apart.  Its url comes from a label, which Docker fixes for *)
(* the life of a container, so it is the constant UrlOf[c]; scheme, forward   *)
(* host, port, websockets and block_exploits are one value, the target; ssl   *)
(* is the constant set SslContainers.                                         *)
CONSTANTS
    Containers,     \* container ids
    Urls,           \* domain names
    Targets,        \* all that diff_spec compares except the domain names
    UrlOf,          \* nginx_proxy_url label of each container
    SslContainers   \* containers whose spec has ssl = true

ASSUME IntentsAssumption ==
    /\ UrlOf \in [Containers -> Urls]
    /\ SslContainers \subseteq Containers

Upsert(c, t) == [kind |-> "upsert", container |-> c, target |-> t]
Remove(c)    == [kind |-> "remove", container |-> c]

Intent == {Upsert(c, t) : c \in Containers, t \in Targets}
            \cup {Remove(c) : c \in Containers}

NoIntent == [kind |-> "none"]
=============================================================================
