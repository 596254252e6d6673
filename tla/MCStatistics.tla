----------------------------- MODULE MCStatistics -----------------------------
(***************************************************************************)
(* Statistics for TLC: one packet of each kind that the analysis tells     *)
(* apart, two of them of one connection.                                   *)
(***************************************************************************)
EXTENDS Statistics

Packet(family, transport, connection, content, name) ==
    [family |-> family, transport |-> transport, connection |-> connection,
     content |-> content, name |-> name]

MCWire == {Packet("IPv4", "UDP", 1, "dnsQuery", "a"),
           Packet("IPv4", "UDP", 1, "dnsQuery", "b"),
           Packet("IPv6", "TCP", 2, "clientHello", "a"),
           Packet("IPv4", "UDP", 3, "dnsQuery", "quote")}
=============================================================================
