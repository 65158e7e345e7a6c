------------------------------ MODULE Timezone ------------------------------
(***************************************************************************)
(* The system time zone of src/system/timezone.go: ReadTimezones lists    *)
(* the zone files of a directory under /usr/share/zoneinfo/, SetTimezone  *)
(* replaces the /etc/localtime symlink (Lstat, Remove, Symlink) and       *)
(* GetTimezone parses the link target with two regular expressions.       *)
(*                                                                         *)
(* A path is the sequence of its segments; path.Join gives a clean path.  *)
(* The file system persists across a crash of the process, which can stop *)
(* SetTimezone between any two of its system calls.  Several callers may *)
(* run SetTimezone at once: the function takes no lock, so its calls      *)
(* interleave at the system calls, and /etc/localtime may change between  *)
(* the Lstat and the Remove or Symlink that act on its result.            *)
(***************************************************************************)
EXTENDS Naturals, Sequences, SequencesExt

CONSTANTS
  Callers,          \* the goroutines or processes that call SetTimezone
  ZoneFiles,        \* the zone files, paths relative to /usr/share/zoneinfo/
  NoLink,           \* /etc/localtime does not exist
  RegularFile,      \* /etc/localtime is a regular file, not a symlink
  RemoveMayFail,    \* TRUE: os.Remove may fail
  SymlinkMayFail    \* TRUE: os.Symlink may fail

\* Variant of Exists used to check StaleErrorOnlyUnderRace: SetTimezone
\* without its Lstat, removing the link unconditionally.
ExistsAlways(l) == TRUE

\* What os.Lstat(zoneLink) reports: err == nil when a file or link exists.
Exists(l) == l # NoLink

\* zoneInfoPath.
ZoneInfoPath == <<"usr", "share", "zoneinfo">>

\* The directories that hold zone files ("" is the root of zoneinfo).
Dirs == {Front(f) : f \in ZoneFiles}

\* ReadTimezones(dir): the names of the files (not directories) in dir.
ReadTimezones(dir) == {Last(f) : f \in {f \in ZoneFiles : Front(f) = dir}}

\* Variant of Target used to check TypeOK: zoneInfoPath left out of the
\* path.Join.
TargetUnjoined(dir, zone) == dir \o <<zone>>

\* The symlink target SetTimezone(dir, zone) creates.
Target(dir, zone) == ZoneInfoPath \o dir \o <<zone>>

\* Variant of GetTimezone used to check GetReturnsLastSet: (.+)/(.+)
\* splitting at the first slash.
GetTimezoneFirstSlash(l) ==
  LET rest == SubSeq(l, Len(ZoneInfoPath) + 1, Len(l))
  IN  IF l \in {NoLink, RegularFile} THEN [dir |-> <<>>, zone |-> "", err |-> TRUE]
      ELSE IF Len(rest) < 2 THEN [dir |-> <<>>, zone |-> rest[1], err |-> FALSE]
      ELSE [dir |-> <<rest[1]>>, zone |-> rest[2], err |-> FALSE]

\* GetTimezone: Readlink fails on a missing link or a regular file; the
\* part after /usr/share/zoneinfo/ is split at its last slash by the
\* greedy (.+)/(.+), and is all zone when it has no slash.  Every target
\* is under zoneinfo, so the first expression always matches.
GetTimezone(l) ==
  LET rest == SubSeq(l, Len(ZoneInfoPath) + 1, Len(l))
  IN  IF l \in {NoLink, RegularFile} THEN [dir |-> <<>>, zone |-> "", err |-> TRUE]
      ELSE IF Len(rest) < 2 THEN [dir |-> <<>>, zone |-> rest[1], err |-> FALSE]
      ELSE [dir |-> Front(rest), zone |-> Last(rest), err |-> FALSE]

VARIABLES
  link,        \* /etc/localtime: NoLink, RegularFile or a symlink target
  pc,          \* per caller: "idle", "lstat", "remove", "symlink"
  arg,         \* per caller: the [dir, zone] of its call
  ret,         \* per caller: what its last call returned
  last,        \* the [dir, zone] of the last SetTimezone that created the link
  interfered   \* per caller (history, not in the code): another caller
               \* changed the link after its Lstat

vars == <<link, pc, arg, ret, last, interfered>>

Args == {[dir |-> Front(f), zone |-> Last(f)] : f \in ZoneFiles}

\* The results of SetTimezone: nil, the two errors the file system gives
\* when the Lstat result is stale, and any other error of Remove or Symlink.
Results == {"none", "ok", "ENOENT", "EEXIST", "fail"}

TypeOK ==
  /\ link \in {NoLink, RegularFile} \cup {ZoneInfoPath \o f : f \in ZoneFiles}
  /\ pc \in [Callers -> {"idle", "lstat", "remove", "symlink"}]
  /\ arg \in [Callers -> Args]
  /\ ret \in [Callers -> Results]
  /\ last \in Args
  /\ interfered \in [Callers -> BOOLEAN]

\* The system starts with a link to a zone, a regular file, or nothing.
Init ==
  /\ last \in Args
  /\ link \in {NoLink, RegularFile, Target(last.dir, last.zone)}
  /\ pc = [c \in Callers |-> "idle"]
  /\ arg = [c \in Callers |-> last]
  /\ ret = [c \in Callers |-> "none"]
  /\ interfered = [c \in Callers |-> FALSE]

\* History: c changed the link after another call's Lstat, so that call
\* acts on a stale result.
Disturb(c) ==
  interfered' = [d \in Callers |->
                   interfered[d] \/ (d # c /\ pc[d] \in {"remove", "symlink"})]

\* Caller c returns r.
Return(c, r) == /\ pc' = [pc EXCEPT ![c] = "idle"]
                /\ ret' = [ret EXCEPT ![c] = r]

\* A caller sets a zone it took from ReadTimezones(dir).
Call(c) ==
  /\ pc[c] = "idle"
  /\ \E dir \in Dirs : \E zone \in ReadTimezones(dir) :
       arg' = [arg EXCEPT ![c] = [dir |-> dir, zone |-> zone]]
  /\ pc' = [pc EXCEPT ![c] = "lstat"]
  /\ ret' = [ret EXCEPT ![c] = "none"]
  /\ interfered' = [interfered EXCEPT ![c] = FALSE]
  /\ UNCHANGED <<link, last>>

\* os.Lstat(zoneLink): remove only what exists.
Lstat(c) ==
  /\ pc[c] = "lstat"
  /\ pc' = [pc EXCEPT ![c] = IF Exists(link) THEN "remove" ELSE "symlink"]
  /\ UNCHANGED <<link, arg, ret, last, interfered>>

\* os.Remove(zoneLink): ENOENT if the file is gone by now; any error is
\* returned.
RemoveLink(c) ==
  /\ pc[c] = "remove"
  /\ \/ /\ link # NoLink
        /\ link' = NoLink
        /\ pc' = [pc EXCEPT ![c] = "symlink"]
        /\ Disturb(c)
        /\ UNCHANGED ret
     \/ /\ link = NoLink
        /\ Return(c, "ENOENT")
        /\ UNCHANGED <<link, interfered>>
     \/ /\ RemoveMayFail
        /\ link # NoLink
        /\ Return(c, "fail")
        /\ UNCHANGED <<link, interfered>>
  /\ UNCHANGED <<arg, last>>

\* os.Symlink(path.Join(zoneInfoPath, dir, zone), zoneLink): EEXIST if a
\* file is there by now; any error is returned.
Symlink(c) ==
  /\ pc[c] = "symlink"
  /\ \/ /\ link = NoLink
        /\ link' = Target(arg[c].dir, arg[c].zone)
        /\ last' = arg[c]
        /\ Return(c, "ok")
        /\ Disturb(c)
     \/ /\ link # NoLink
        /\ Return(c, "EEXIST")
        /\ UNCHANGED <<link, last, interfered>>
     \/ /\ SymlinkMayFail
        /\ link = NoLink
        /\ Return(c, "fail")
        /\ UNCHANGED <<link, last, interfered>>
  /\ UNCHANGED arg

\* The process stops in the middle of SetTimezone; the file system keeps
\* what the completed calls did.
Crash(c) ==
  /\ pc[c] # "idle"
  /\ pc' = [pc EXCEPT ![c] = "idle"]
  /\ UNCHANGED <<link, arg, ret, last, interfered>>

Next == \E c \in Callers :
          Call(c) \/ Lstat(c) \/ RemoveLink(c) \/ Symlink(c) \/ Crash(c)

Spec == Init /\ [][Next]_vars

-----------------------------------------------------------------------------
(* Properties.                                                             *)

\* When no call is in progress, GetTimezone returns either an error or
\* exactly the directory and zone of the last SetTimezone that created the
\* link.  About the two regular expressions of GetTimezone undoing the
\* path.Join of SetTimezone, for zone directories of any depth, and about
\* concurrent calls never leaving a link that no successful call made.
GetReturnsLastSet ==
  ((\A c \in Callers : pc[c] = "idle") /\ ~GetTimezone(link).err)
    => GetTimezone(link) = [dir |-> last.dir, zone |-> last.zone, err |-> FALSE]

\* SetTimezone returns ENOENT from Remove or EEXIST from Symlink only when
\* another call changed /etc/localtime after its Lstat: from any state a
\* crash or a failed call left behind (no link, a regular file, a link), a
\* call on its own gets past the Lstat, Remove and Symlink sequence.
StaleErrorOnlyUnderRace ==
  \A c \in Callers : ret[c] \in {"ENOENT", "EEXIST"} => interfered[c]
====
