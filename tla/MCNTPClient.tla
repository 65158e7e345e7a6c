---------------------------- MODULE MCNTPClient ----------------------------
EXTENDS NTPClient

\* Two servers: lists of length 0..2 give files of different lengths, so an
\* update can shorten the file.
MCServers == {"s1", "s2"}
=============================================================================
