------------------------ MODULE MCNetworkManagerConn ------------------------
(* Inputs for NetworkManagerConn: two-octet IPv4 words, one static        *)
(* address, a valid and an invalid netmask, and DNS servers that are      *)
(* empty, valid (with octets that differ between the two byte orders) or  *)
(* invalid.                                                                *)
EXTENDS NetworkManagerConn

MCOctets == 2

MCValid6 == {"fe80::1", "fe80::ff", "2001::1", "2001::2"}
MCBad6 == {"fe80"}

MCIPv4Inputs ==
  {[staticIP |-> FALSE, address |-> NoAddr, netmask |-> NoAddr,
    gateway |-> NoAddr, dnsServer1 |-> NoAddr, dnsServer2 |-> NoAddr]}
  \cup
  [staticIP: {TRUE}, address: {<<10, 1>>, BadAddr},
   netmask: {<<255, 0>>, <<255, 1>>, NoAddr}, gateway: {<<10, 254>>},
   dnsServer1: {NoAddr, <<8, 4>>, BadAddr},
   dnsServer2: {NoAddr, <<1, 2>>, BadAddr}]

MCIPv6Inputs ==
  {[staticIP |-> FALSE, address |-> "", prefix |-> 0, gateway |-> "",
    dnsServer1 |-> "", dnsServer2 |-> ""]}
  \cup
  [staticIP: {TRUE}, address: {"fe80::1"}, prefix: {64},
   gateway: {"fe80::ff"}, dnsServer1: {"", "2001::1", "fe80"},
   dnsServer2: {"", "2001::2", "fe80"}]
=============================================================================
