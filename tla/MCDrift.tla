------------------------------- MODULE MCDrift -------------------------------
(* A small instance of Drift for TLC.                                         *)
EXTENDS Drift, TLC

Labels(port, scheme, ssl, websockets, blockExploits) ==
    [port |-> port, scheme |-> scheme, ssl |-> ssl,
     websockets |-> websockets, blockExploits |-> blockExploits]

\* None, all, some, the ends of the port's range, each way to be malformed.
MCLabelSets ==
    {Labels(Absent, Absent, Absent, Absent, Absent),
     Labels(65535, "https", TRUE, FALSE, TRUE),
     Labels(0, Absent, Absent, TRUE, Absent),
     Labels(65536, Absent, Absent, Absent, Absent),
     Labels(Bad, Absent, Absent, Absent, Absent),
     Labels(Absent, Bad, Absent, Absent, Absent),
     Labels(Absent, Absent, Bad, Absent, Absent),
     Labels(Absent, Absent, Absent, Bad, Absent),
     Labels(Absent, Absent, Absent, Absent, Bad)}

MCExposedSets == {{}, {80, 65535}}

\* While it runs and while it does not.
MCAddresses == {"lan" :> "172.18.0.2", << >>}

Config(strategy, network, hostAddress, defaults) ==
    [strategy |-> strategy, network |-> network, hostAddress |-> hostAddress,
     defaults |-> defaults]

Defaults(scheme, flag) == [scheme |-> scheme, ssl |-> flag,
                           websockets |-> flag, blockExploits |-> flag]

MCConfigs ==
    {Config("container_name", Absent, Absent, Defaults("http", TRUE)),
     Config("container_ip", "lan", Absent, Defaults("http", FALSE)),
     Config("host_port", Absent, Absent, Defaults("https", TRUE)),
     Config("host_port", Absent, "gateway", Defaults("http", TRUE))}
=============================================================================
