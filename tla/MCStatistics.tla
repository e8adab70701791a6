----------------------------- MODULE MCStatistics -----------------------------
(* An ARP packet, HTTP and HTTPS over TCP, and a ping.                      *)
EXTENDS Statistics

Over(protocols, port) == [layers |-> {"EthernetII"} \cup protocols, port |-> port]

MCPacket == {Over({"ARP"}, 0), Over({"IP", "TCP"}, 80), Over({"IP", "TCP"}, 443),
             Over({"IP", "ICMP"}, 0)}
==============================================================================
