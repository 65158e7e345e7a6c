----------------------------- MODULE NTPClient -----------------------------
(***************************************************************************)
(* The NTP client of src/client/ntp.go: the Run goroutine, Points called  *)
(* by the client manager, and Stop.                                        *)
(*                                                                         *)
(* Run calls UpdateConfig once, then selects on stopCh (closed by Stop)   *)
(* and on the unbuffered pointsCh (fed by Points).  UpdateConfig renders  *)
(* the configuration, compares it with the content of the timesyncd      *)
(* drop-in file, and only when they differ overwrites the file from      *)
(* offset 0, truncates it to the new length and restarts                  *)
(* systemd-timesyncd, which then runs what the file holds.                *)
(*                                                                         *)
(* The file is a sequence of tokens: a header token for the fixed lines  *)
(* and one token per server.  FallbackServers is rendered the same way as *)
(* Servers and is left out.  Stop is called once (a second call panics   *)
(* on the closed channel).                                                *)
(***************************************************************************)
EXTENDS Naturals, Sequences, SequencesExt

CONSTANTS
  Servers,          \* NTP server names
  MaxServers,       \* longest server list a configuration holds
  MaxPoints,        \* bound on the Points calls of the client manager
  OpenMayFail,      \* TRUE: OpenFile or ReadAll may fail
  WriteMayFail,     \* TRUE: WriteAt may fail after writing a prefix
  TruncateMayFail,  \* TRUE: Truncate may fail
  RestartMayFail,   \* TRUE: systemctl restart may fail
  MergeMayFail      \* TRUE: data.MergePoints may fail

ASSUME MaxServers \in Nat /\ MaxPoints \in Nat

\* The configurations: server lists (config.Servers).
Configs == BoundedSeq(Servers, MaxServers)

\* The header lines of the file ("# This file is ..." and "NTP=").
Header == "hdr"

\* The contents the file can have.
Files == BoundedSeq(Servers \cup {Header}, MaxServers + 1)

VARIABLES
  pc,          \* Run: "start" (before the first UpdateConfig), "loop", "done"
  config,      \* c.config
  file,        \* the content of NTPConfigPath
  running,     \* the content timesyncd read when it last (re)started
  updErr,      \* the last UpdateConfig returned an error
  stopClosed,  \* Stop has closed stopCh
  caller,      \* the client manager: "idle" or "blocked" in Points
  pending,     \* the configuration the blocked Points call carries
  calls        \* Points calls so far

vars == <<pc, config, file, running, updErr, stopClosed, caller, pending, calls>>

TypeOK ==
  /\ pc \in {"start", "loop", "done"}
  /\ config \in Configs
  /\ file \in Files
  /\ running \in Files
  /\ updErr \in BOOLEAN
  /\ stopClosed \in BOOLEAN
  /\ caller \in {"idle", "blocked"}
  /\ pending \in Configs
  /\ calls \in 0..MaxPoints

\* Variant of Render used to check TypeOK: the FallbackNTP line rendered
\* from Servers as well (a copy of the NTP= line).
RenderServersTwice(cfg) == <<Header>> \o cfg \o cfg

\* The bytes UpdateConfig writes for a configuration.
Render(cfg) == <<Header>> \o cfg

\* f.WriteAt(d, 0): d over the start of the old content.
WriteAt(old, d) == d \o SubSeq(old, Len(d) + 1, Len(old))

\* WriteAt failing after the first k tokens.
PartialWrite(old, d, k) == SubSeq(d, 1, k) \o SubSeq(old, k + 1, Len(old))

\* Variant of Truncate used to check ConfigApplied: the call is dropped.
TruncateNoop(f, n) == f

\* f.Truncate(n).
Truncate(f, n) == SubSeq(f, 1, n)

\* The outcomes of UpdateConfig for configuration cfg on file f with
\* timesyncd running rn: [file, running, err], one per error path.
UpdateResults(cfg, f, rn) ==
  LET d       == Render(cfg)
      full    == Truncate(WriteAt(f, d), Len(d))
      outcome(nf, nr, e) == [file |-> nf, running |-> nr, err |-> e]
  IN  (IF OpenMayFail THEN {outcome(f, rn, TRUE)} ELSE {})
      \cup
      IF f = d THEN {outcome(f, rn, FALSE)}
      ELSE {outcome(full, full, FALSE)}
           \cup (IF WriteMayFail
                 THEN {outcome(PartialWrite(f, d, k), rn, TRUE) : k \in 0..(Len(d) - 1)}
                 ELSE {})
           \cup (IF TruncateMayFail THEN {outcome(WriteAt(f, d), rn, TRUE)} ELSE {})
           \cup (IF RestartMayFail THEN {outcome(full, rn, TRUE)} ELSE {})

UpdateConfig(cfg) ==
  \E o \in UpdateResults(cfg, file, running) :
    /\ file' = o.file
    /\ running' = o.running
    /\ updErr' = o.err

\* timesyncd runs the file it read at boot; the client is created with the
\* configuration the client manager read for its node.
Init ==
  /\ pc = "start"
  /\ config \in Configs
  /\ file \in {<<>>} \cup {Render(c) : c \in Configs}
  /\ running = file
  /\ updErr = FALSE
  /\ stopClosed = FALSE
  /\ caller = "idle"
  /\ pending = <<>>
  /\ calls = 0

\* Run: the first UpdateConfig; an error is only logged.
Start ==
  /\ pc = "start"
  /\ UpdateConfig(config)
  /\ pc' = "loop"
  /\ UNCHANGED <<config, stopClosed, caller, pending, calls>>

\* Points: the client manager sends on pointsCh and blocks until Run
\* receives.
PointsCall ==
  /\ caller = "idle"
  /\ calls < MaxPoints
  /\ \E cfg \in Configs :
       /\ caller' = "blocked"
       /\ pending' = cfg
  /\ calls' = calls + 1
  /\ UNCHANGED <<pc, config, file, running, updErr, stopClosed>>

\* Run receives the points: MergePoints into c.config, then UpdateConfig.
\* A merge error returns from Run; an UpdateConfig error is only logged.
RecvPoints ==
  /\ pc = "loop"
  /\ caller = "blocked"
  /\ caller' = "idle"
  /\ \/ /\ MergeMayFail
        /\ pc' = "done"
        /\ UNCHANGED <<config, file, running, updErr>>
     \/ /\ config' = pending
        /\ UpdateConfig(pending)
        /\ UNCHANGED pc
  /\ UNCHANGED <<stopClosed, pending, calls>>

\* Stop closes stopCh.
Stop ==
  /\ ~stopClosed
  /\ stopClosed' = TRUE
  /\ UNCHANGED <<pc, config, file, running, updErr, caller, pending, calls>>

\* Run takes the closed stopCh and returns.
RunStop ==
  /\ pc = "loop"
  /\ stopClosed
  /\ pc' = "done"
  /\ UNCHANGED <<config, file, running, updErr, stopClosed, caller, pending, calls>>

\* The steps of the Run goroutine.
RunStep == Start \/ RecvPoints \/ RunStop

Next == RunStep \/ PointsCall \/ Stop

\* The Go scheduler keeps running a goroutine that can proceed.
Spec == Init /\ [][Next]_vars /\ WF_vars(RunStep)

-----------------------------------------------------------------------------
(* Properties.                                                             *)

\* Once Run has called UpdateConfig and the last call returned nil,
\* timesyncd runs the configured servers.  About UpdateConfig returning
\* nil when the file already holds the configuration, whether or not an
\* earlier restart, truncate or write failed after the file was changed.
ConfigApplied ==
  (pc # "start" /\ ~updErr) => running = Render(config)

\* Every Points call returns.  About the unbuffered pointsCh, which only
\* the Run loop reads.
PointsReturns == caller = "blocked" ~> caller = "idle"
=============================================================================
