CONSTANTS
  Octets <- MCOctets
  NoAddr = NoAddr
  BadAddr = BadAddr
  NilBytes = NilBytes
  Valid6 <- MCValid6
  Bad6 <- MCBad6
  KeyMgmts = {"", "wpa-psk"}
  PSKs = {"", "secret"}
  IPv4Inputs <- MCIPv4Inputs
  IPv6Inputs <- MCIPv6Inputs
SPECIFICATION Spec
INVARIANT EqualIffSameDBus
