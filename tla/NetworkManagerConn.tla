------------------------- MODULE NetworkManagerConn -------------------------
(***************************************************************************)
(* The NetworkManager connection type of src/client/network-manager-conn.go:*)
(* the conversions between SimpleIoT's NetworkManagerConn, IPv4Config and *)
(* IPv6Config and the D-Bus settings maps (DBus, Resolve...), the address *)
(* and netmask conversions, and the Equal methods.                          *)
(*                                                                         *)
(* An IPv4 address word is scaled from 32 bits to Octets octets.  A valid  *)
(* dotted address is the sequence of its octets (the text is abstracted   *)
(* to what it denotes); NoAddr is the empty string and BadAddr a text      *)
(* net.ParseIP rejects.  IPv6 addresses are texts from a small set: the   *)
(* canonical valid ones, "" and texts ParseIP rejects.  A byte slice       *)
(* returned by IPv6Address.Bytes is the address text it came from, or      *)
(* NilBytes.                                                               *)
(*                                                                         *)
(* The connection keeps the fields whose handling differs between DBus,   *)
(* Resolve and Equal: Type, Managed, KeyManagement, PSK and the two IP     *)
(* configurations.  ID, Description, AutoConnect, the priority, the       *)
(* interface name and the SSID are written by DBus and read by Resolve    *)
(* unchanged, and compared by Equal, and are left out.                     *)
(*                                                                         *)
(* The state is a connection conn and the connection read back from      *)
(* NetworkManager after conn was written to it: NetworkManager is assumed *)
(* to return the values it was given.                                     *)
(***************************************************************************)
EXTENDS Integers, Sequences, SequencesExt, Bitwise

CONSTANTS
  Octets,       \* octets in an IPv4 word (4 in the code)
  NoAddr,       \* IPv4Address("")
  BadAddr,      \* an IPv4 text that is not a valid address
  Valid6,       \* canonical IPv6 texts that parse
  Bad6,         \* IPv6 texts without ":" or that do not parse ("" excluded)
  NilBytes,     \* the nil []byte of Bytes() on an invalid IPv6 text
  KeyMgmts,     \* WiFiConfig.KeyManagement values ("" included)
  PSKs,         \* WiFiConfig.PSK values ("" included)
  IPv4Inputs,   \* the IPv4Config values of the checked connections
  IPv6Inputs    \* the IPv6Config values of the checked connections

W == 8 * Octets

\* The dotted IPv4 texts that parse, as their octets.
OctetSeqs == [1..Octets -> 0..255]

\* The IPv4 texts.
Texts4 == OctetSeqs \cup {NoAddr, BadAddr}

\* The IPv6 texts, with the "<nil>" that String() gives for a nil IP.
Texts6 == Valid6 \cup Bad6 \cup {"", "<nil>"}

Ethernet == "802-3-ethernet"
Wireless == "802-11-wireless"

-----------------------------------------------------------------------------
(* IPv4 addresses and netmasks.                                            *)

\* IPv4Address.Valid: contains "." and net.ParseIP(...).To4() is not nil.
Valid4(a) == a \notin {NoAddr, BadAddr}

\* Variant of IPv4AddressUint32 used to check IPv4ReadBackStable: the word
\* is always put big-endian.
IPv4AddressUint32BigEndian(n, order) ==
  [i \in 1..Octets |-> (n \div 2^(8 * (Octets - i))) % 256]

\* IPv4AddressUint32: PutUint32 in the given byte order, then the dotted
\* text of the octets.
IPv4AddressUint32(n, order) ==
  LET be == [i \in 1..Octets |-> (n \div 2^(8 * (Octets - i))) % 256]
  IN  IF order = "BE" THEN be ELSE Reverse(be)

\* IPv4Address.Uint32: the octets read in the given byte order, 0 when the
\* text does not parse.
Uint32(a, order) ==
  IF ~Valid4(a) THEN 0
  ELSE FoldLeft(LAMBDA acc, o : acc * 256 + o, 0,
                IF order = "BE" THEN a ELSE Reverse(a))

\* x << k on a W-bit word: the low W - k bits of x moved up by k.  A shift
\* by the full width gives 0.
ShiftLeft(x, k) == (x % 2^(W - k)) * 2^k

\* IPv4NetmaskPrefix: 0xFFFFFFFF << (32 - prefix), in big-endian order.
IPv4NetmaskPrefix(prefix) ==
  IPv4AddressUint32(ShiftLeft(2^W - 1, W - prefix), "BE")

RECURSIVE OnesCount(_)
\* bits.OnesCount32.
OnesCount(n) == IF n = 0 THEN 0 ELSE (n % 2) + OnesCount(n \div 2)

\* IPv4Netmask.Prefix: the number of ones of the big-endian word.
Prefix(m) == OnesCount(Uint32(m, "BE"))

\* Variant of NetmaskValid used to check NetmaskPrefixExact: the complement
\* shifted left instead of right.
NetmaskValidShiftLeft(m) ==
  /\ Valid4(m)
  /\ LET w == Uint32(m, "BE")
     IN  (w & ShiftLeft(2^W - 1 - w, 1)) = 0

\* IPv4Netmask.Valid: a valid address and mask & (^mask >> 1) <= 0.
NetmaskValid(m) ==
  /\ Valid4(m)
  /\ LET w == Uint32(m, "BE")
     IN  (w & shiftR(2^W - 1 - w, 1)) = 0

-----------------------------------------------------------------------------
(* IPv4Config.                                                             *)

\* IPv4Config.Method.
Method4(c) ==
  IF c.staticIP /\ Valid4(c.address) /\ NetmaskValid(c.netmask)
       /\ Valid4(c.gateway)
  THEN "manual" ELSE "auto"

\* IPv4Config.DBus: the method only for "auto"; otherwise the address with
\* its prefix, the gateway, and the valid DNS servers little-endian.
DBus4(c) ==
  IF Method4(c) = "auto" THEN [method |-> "auto"]
  ELSE LET kept == SelectSeq(<<c.dnsServer1, c.dnsServer2>>, Valid4)
       IN  [method      |-> "manual",
            addressData |-> <<[address |-> c.address,
                               prefix  |-> Prefix(c.netmask)]>>,
            gateway     |-> c.gateway,
            dns         |-> [i \in 1..Len(kept) |-> Uint32(kept[i], "LE")]]

\* ResolveIPv4Config: a missing entry leaves the zero value.
Resolve4(s) ==
  LET has(k)  == k \in DOMAIN s
      ad      == IF has("addressData") THEN s.addressData ELSE <<>>
      dns     == IF has("dns") THEN s.dns ELSE <<>>
      dnsAt(i) == IF Len(dns) >= i THEN IPv4AddressUint32(dns[i], "LE")
                  ELSE NoAddr
  IN  [staticIP   |-> s.method = "manual",
       address    |-> IF ad # <<>> THEN ad[1].address ELSE NoAddr,
       netmask    |-> IF ad # <<>> /\ ad[1].prefix <= W
                      THEN IPv4NetmaskPrefix(ad[1].prefix) ELSE NoAddr,
       gateway    |-> IF has("gateway") THEN s.gateway ELSE NoAddr,
       dnsServer1 |-> dnsAt(1),
       dnsServer2 |-> dnsAt(2)]

\* IPv4Config.Equal: two "auto" configurations are equal, others are
\* compared field by field.
Equal4(c1, c2) ==
  (Method4(c1) = "auto" /\ Method4(c2) = "auto") \/ c1 = c2

-----------------------------------------------------------------------------
(* IPv6Config.                                                             *)

\* IPv6Address.Valid: contains ":" and parses.
IsValid6(a) == a \in Valid6

\* IPv6Address.Bytes: the 16 bytes of a parsed address, nil otherwise.
Bytes(a) == IF IsValid6(a) THEN a ELSE NilBytes

\* Variant of NewIPv6Address used to check TypeOK: the bytes are kept
\* without String().
NewIPv6AddressRaw(bs) == bs

\* NewIPv6Address: String() of the bytes, "<nil>" for a nil slice.
NewIPv6Address(bs) == IF bs = NilBytes THEN "<nil>" ELSE bs

\* IPv6Config.Method (no check of the prefix).
Method6(c) ==
  IF c.staticIP /\ IsValid6(c.address) /\ IsValid6(c.gateway)
  THEN "manual" ELSE "auto"

\* IPv6Config.DBus: DNSServer1 is added when it is valid, DNSServer2 when
\* it is not empty.
DBus6(c) ==
  IF Method6(c) = "auto" THEN [method |-> "auto"]
  ELSE [method      |-> "manual",
        addressData |-> <<[address |-> c.address, prefix |-> c.prefix]>>,
        gateway     |-> c.gateway,
        dns         |-> (IF IsValid6(c.dnsServer1)
                         THEN <<Bytes(c.dnsServer1)>> ELSE <<>>)
                        \o (IF c.dnsServer2 # ""
                            THEN <<Bytes(c.dnsServer2)>> ELSE <<>>)]

\* ResolveIPv6Config.
Resolve6(s) ==
  LET has(k)  == k \in DOMAIN s
      ad      == IF has("addressData") THEN s.addressData ELSE <<>>
      dns     == IF has("dns") THEN s.dns ELSE <<>>
      dnsAt(i) == IF Len(dns) >= i THEN NewIPv6Address(dns[i]) ELSE ""
  IN  [staticIP   |-> s.method = "manual",
       address    |-> IF ad # <<>> THEN ad[1].address ELSE "",
       prefix     |-> IF ad # <<>> /\ ad[1].prefix <= 128
                      THEN ad[1].prefix ELSE 0,
       gateway    |-> IF has("gateway") THEN s.gateway ELSE "",
       dnsServer1 |-> dnsAt(1),
       dnsServer2 |-> dnsAt(2)]

\* IPv6Config.Equal.
Equal6(c1, c2) ==
  (Method6(c1) = "auto" /\ Method6(c2) = "auto") \/ c1 = c2

-----------------------------------------------------------------------------
(* NetworkManagerConn.                                                     *)

Conns ==
  [type: {Ethernet, Wireless}, managed: BOOLEAN, keyMgmt: KeyMgmts,
   psk: PSKs, ipv4: IPv4Inputs, ipv6: IPv6Inputs]

NoFields == [f \in {} |-> ""]

\* NetworkManagerConn.DBus: the wireless settings only for a wireless
\* connection, the security settings only with a key management, and the
\* PSK only for a Managed connection.
DBus(c) ==
  [connection |-> c.type, ipv4 |-> DBus4(c.ipv4), ipv6 |-> DBus6(c.ipv6)]
  @@ IF c.type = Wireless /\ c.keyMgmt # ""
     THEN [security |-> [keyMgmt |-> c.keyMgmt]
                        @@ IF c.managed THEN [psk |-> c.psk] ELSE NoFields]
     ELSE NoFields

\* ResolveNetworkManagerConn: Managed and PSK keep their zero values; the
\* key management is read for a wireless connection only.
ResolveNetworkManagerConn(s) ==
  [type    |-> s.connection,
   managed |-> FALSE,
   keyMgmt |-> IF s.connection = Wireless /\ "security" \in DOMAIN s
               THEN s.security.keyMgmt ELSE "",
   psk     |-> "",
   ipv4    |-> Resolve4(s.ipv4),
   ipv6    |-> Resolve6(s.ipv6)]

\* NetworkManagerConn.Equal: every field but Parent, Managed,
\* LastActivated, the IP configurations and Error, then the Equal of the
\* two IP configurations.
Equal(c1, c2) ==
  /\ c1.type = c2.type
  /\ c1.keyMgmt = c2.keyMgmt
  /\ c1.psk = c2.psk
  /\ Equal4(c1.ipv4, c2.ipv4)
  /\ Equal6(c1.ipv6, c2.ipv6)

-----------------------------------------------------------------------------
(* A connection and what NetworkManager reports after it was written.    *)

VARIABLES
  conn,   \* the connection SimpleIoT holds
  read    \* the connection resolved from NetworkManager's settings

vars == <<conn, read>>

TypeOK ==
  /\ conn \in Conns
  /\ read \in [type: {Ethernet, Wireless}, managed: BOOLEAN,
               keyMgmt: KeyMgmts, psk: PSKs,
               ipv4: [staticIP: BOOLEAN, address: Texts4, netmask: Texts4,
                      gateway: Texts4, dnsServer1: Texts4, dnsServer2: Texts4],
               ipv6: [staticIP: BOOLEAN, address: Texts6, prefix: 0..128,
                      gateway: Texts6, dnsServer1: Texts6, dnsServer2: Texts6]]

\* Before the write NetworkManager holds the same connection.
Init ==
  /\ conn \in Conns
  /\ read = conn

\* conn.DBus() is written and ResolveNetworkManagerConn reads it back.
ReadBack ==
  /\ read' = ResolveNetworkManagerConn(DBus(conn))
  /\ UNCHANGED conn

Next == ReadBack

Spec == Init /\ [][Next]_vars

-----------------------------------------------------------------------------
(* Properties.                                                             *)

\* Over every word: a netmask is valid exactly when it is IPv4NetmaskPrefix
\* of a prefix in 0..32, and Prefix inverts IPv4NetmaskPrefix.
NetmaskTableExact ==
  /\ \A m \in OctetSeqs :
       NetmaskValid(m) <=> \E p \in 0..W : IPv4NetmaskPrefix(p) = m
  /\ \A p \in 0..W : Prefix(IPv4NetmaskPrefix(p)) = p

\* The netmask conversions are exact over every word, and a static IPv4
\* configuration is still static once read back.  About the check
\* mask & (^mask >> 1) in IPv4Netmask.Valid, the shift in
\* IPv4NetmaskPrefix and the prefix guard of ResolveIPv4Config.
NetmaskPrefixExact ==
  /\ NetmaskTableExact
  /\ Method4(read.ipv4) = Method4(conn.ipv4)

\* Writing the IPv4 settings that were read back writes the same settings
\* again.  About the netmask going out as a prefix and back, and the DNS
\* servers going out little-endian, the invalid ones dropped, and back.
IPv4ReadBackStable == DBus4(read.ipv4) = DBus4(conn.ipv4)

\* Equal holds exactly when the two connections produce the same D-Bus
\* settings, as the comment on NetworkManagerConn.Equal says.
EqualIffSameDBus == Equal(conn, read) <=> DBus(conn) = DBus(read)
====
