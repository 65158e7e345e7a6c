# TLA+ models of SimpleIoT

This directory holds TLA+ models of the SimpleIoT sources in `src/`, with the TLC
configurations that check them. It covers the rule engine together with the point store
and the NATS feedback loop it runs on, the chunked file transfer between server and
device, the NTP client that keeps the timesyncd configuration, the conversions between
NetworkManager connections and their D-Bus settings, and the system time zone link. The other clients and helpers are
inventoried below, and the plan says which of them come next.

## 1. Inventory

### Components and their state

| Component | Source | State it keeps | Operations |
|---|---|---|---|
| PointStore | spec 4.1; store code not in `src/`; behaviour pinned by `src/store/sqlite_test.go` | per owner (node or edge), per point `(Type,Key)`: the latest `(Time, Value, Text)` | `nodePoints`/`edgePoints` (merge a batch: strictly newer time wins), `getNodes`, `up`, reopen |
| GraphIndex | spec 4.2; `src/store/sqlite_test.go` (`getNodes`, `up`) | edges `(Up,Down)` with their own points (tombstone, role) | `getNodes(parent,id,type,includeDeleted)` with `all`/`root`, `up` |
| ChangeBus | spec 4.3, 5 | NATS subjects: FIFO per publishing connection, at-most-once | publish / subscribe / request-reply with timeout |
| RuleEngine | `src/db/rules.go` | per condition and per rule an `Active` point, stored in the store like any other point | `ruleProcessPoints`, `ruleRunActions` |
| FileTransfer | `src/client/file-transfer.go` | device: the download `dl = {name, data, seq}`; server: `seq`, `retry`, reader position | `SendFile`, the `ListenForFile` callback |
| NTPClient | `src/client/ntp.go` | `config` (servers), `stopCh`, unbuffered `pointsCh`, the timesyncd config file | `Run` loop, `Points`, `Stop`, `UpdateConfig` |
| NetworkManagerConn | `src/client/network-manager-conn.go` | none (value conversions) | `Resolve*` (D-Bus to struct), `DBus` (struct to D-Bus), `Equal`, IPv4 address and netmask conversions |
| Timezone | `src/system/timezone.go` | the `/etc/localtime` symlink | `ReadTimezones`, `GetTimezone`, `SetTimezone` |
| Decode | `src/data/decode.go` | none (maps points onto tagged struct fields) | `Decode` |
| Startup | `src/start.go` | the NATS connection, retried 10 times | `Start` |
| Ethernet | `src/network/ethernet.go` | `enabled` | `Enable`, `GetStatus` (reads sysfs) |
| Asset file update | `src/assets/files/files.go` | none | `UpdateFiles` (its list of files is empty) |

### How the components interact

Producers (device agents, the API, the clients above) publish point batches addressed to
a node on NATS. The store's node-point handler takes them one at a time: it merges the
batch into the store, then runs every rule over the points that were applied. A rule's
condition and rule `Active` points, and the points of its `SetValue` actions, are sent
with `SendNodePoint(..., ack=false)`. They are published on the same subject and merged
only when the handler reaches them. So the engine reads its own latches from the store,
and its writes to those latches are asynchronous. `Notify` actions publish on
`node.<rule>.not`. The file transfer is a request/reply exchange on `device.<id>.file`,
with a one-minute timeout and three attempts per chunk.

### What is hard

* **Rule engine.** The latches the engine reads can be stale: a latch write may still be
  on the bus when the next reading is evaluated. `ruleProcessPoints` returns at the first
  point whose touched conditions all hold, so the rest of the batch is skipped. Actions
  run whenever that function returns true. When one action fails, the remaining actions
  of the rule do not run. Conditions with empty filters match the engine's own `Active`
  points, which opens the door to write storms.
* **File transfer.** A request can time out and still be handled. Replies can be lost or
  come late. The device sends two replies for one chunk. A retry repeats a chunk the
  device has already appended. The read and write paths handle errors only partly.
* **NTP client.** The points channel is unbuffered, so it blocks once `Run` has stopped.
  `UpdateConfig` can fail partway: after the write, after the truncate, or at the
  restart.
* **Timezone.** `SetTimezone` removes the link and then creates a new one, and the two
  steps are not atomic. It takes no lock, and `/etc/localtime` is shared: another
  goroutine or process can change it between the `Lstat` and the `Remove` or `Symlink`
  that acts on its result.
* **NetworkManager.** `Equal` claims to agree with `DBus` but skips fields that `DBus`
  uses.

### Properties that make each component correct

* PointStore: messages are merged in publish order, and a stored point is replaced
  only by a strictly newer one. Ties and stale points are no-ops. The store code is not
  under `src/`, so the merge is modelled from spec 4.1 and no property checks it. An
  abstract store written from the same section would only check the spec against
  itself.
* RuleEngine: once the feedback has been handled, every condition latch equals the
  condition evaluated on the latest stored value of its point. Actions run only on a
  rising edge. No write goes to the empty node ID. A failing action does not abort its
  siblings. The engine's own writes die out: the subject drains (spec 9, no unbounded
  amplification).
* FileTransfer: every written file equals the file sent. `SendFile` returns nil only if
  the device wrote that file. The callback runs only for a written file. A retry after a
  timeout can succeed. `SendFile` always returns.
* NTPClient: `Points` never blocks forever. After `UpdateConfig` returns nil, timesyncd
  runs the configured servers.
* Timezone: `GetTimezone` returns what was last set. `SetTimezone` fails with a stale
  `Lstat` result (ENOENT, EEXIST) only when another call got in between. (A crash can
  leave the system without `/etc/localtime`; see the hazards.)
* NetworkManagerConn: `Equal(a,b)` holds iff `DBus(a) = DBus(b)`. Netmask and prefix
  convert to each other and back.

## 2. Modules and runs

| Module | Models | Source |
|---|---|---|
| `PointStore` | last-write-wins merge of a batch (`UpsertPoints`, `Newer`) | spec 4.1 and `src/store/sqlite_test.go` (spec-modelled) |
| `RuleEval` | `ruleProcessPoints` (`ConditionMatches`, `ConditionActive`, `PointResult`, `ProcessFrom`) and `ruleRunActions` (`RunFrom`) as operators | `src/db/rules.go` |
| `RuleEngine` | composes the two: `store`, the NATS `bus`, producers (`Submit`) and the node-point handler (`HandleMsg`) | handler spec-modelled (spec 2, 4.4, 5) |
| `MCRuleEngine` | the nodes, conditions, actions and inputs for TLC | |
| `FileTransfer` | `SendFile` (`ReadChunk`, `RecvReply`, `Timeout`, `DropStaleReply`), the `ListenForFile` callback (`Receive`), and lossy FIFO channels | `src/client/file-transfer.go` |
| `MCFileTransfer` | a file of three blocks | |
| `NTPClient` | `Run` (`Start`, `RecvPoints`, `RunStop`), `Points` (`PointsCall`), `Stop`, and `UpdateConfig` with its error paths (`UpdateResults`, `WriteAt`, `Truncate`) | `src/client/ntp.go` |
| `MCNTPClient` | two servers, configurations of up to two | |
| `NetworkManagerConn` | IPv4 address and netmask conversions (`IPv4AddressUint32`, `Uint32`, `IPv4NetmaskPrefix`, `Prefix`, `NetmaskValid`), `IPv4Config`/`IPv6Config` `Method`, `DBus`, `Resolve`, `Equal`, and the connection's `DBus`, `ResolveNetworkManagerConn`, `Equal`; the state is a connection and its read-back (`ReadBack`) | `src/client/network-manager-conn.go` |
| `MCNetworkManagerConn` | two-octet IPv4 words; 55 IPv4 and 10 IPv6 configurations | |
| `Timezone` | `ReadTimezones`, `SetTimezone` as `Call`, `Lstat`, `RemoveLink`, `Symlink` with failures and `Crash`, and `GetTimezone` | `src/system/timezone.go` |
| `MCTimezone` | two callers, four zone files at depths 1 to 3 | |

### How the state maps to the code

* `RuleEngine.store[owner][type]` is the database row of the point: `time`, `value`. Text
  is left out because no modelled condition reads it; a text condition is always false in
  the code. A condition's latch `c.Active` is `store[c.id]["active"]`, and `r.Active` is
  `store[r.id]["active"]`. Both are read when the handler takes the batch, which is the
  snapshot the rule struct holds.
* `bus` is the NATS node-point subject, a FIFO. Every `SendNodePoint` appends one message
  stamped `clock + i`, so each `time.Now()` is distinct and increasing.
* `HandleMsg` is one run of the handler: the merge, every rule, every action. It is one
  step because the subscription callback runs to completion before the next message.
  `Handled` computes its result (the merged store and the writes in send order). With
  `PublishMayFail` any of those writes may be lost (`LostChoices`); a lost write still
  took its `time.Now()` (`Published`). Which rules fired and how many notifications
  went out are not kept: no property reads them.
* `FileTransfer.dl` is the closure variable `dl` (name abstracted). `chunk`, `seq`,
  `retry` and `pos` are the locals of `SendFile`. `req` and `rep` are the request and
  reply messages. A reply carries the attempt it answers, `att = <<seq, retry>>`, which
  stands for the per-request reply inbox. The `callback` calls and the file name are
  left out.
* `NTPClient.file` is the timesyncd drop-in file as a sequence of tokens: a header for
  the fixed lines, then one per server. `WriteAt` overwrites from offset 0 and `Truncate`
  cuts, so a shorter configuration leaves old tokens behind until the truncate.
  `running` is what timesyncd read at its last (re)start. `caller` is the client
  manager's goroutine inside `Points`. The unbuffered channel hands over only when `Run`
  is in its select (`RecvPoints`).
* `NetworkManagerConn.conn` is a `NetworkManagerConn` value and `read` is what
  `ResolveNetworkManagerConn` returns for the settings `conn.DBus()` wrote. A D-Bus
  settings map is a record holding only the keys the code sets. An IPv4 text is the
  sequence of its octets, or `NoAddr` ("") or `BadAddr` (unparsable). An IPv6 byte
  slice is the address text it encodes, or `NilBytes`.
* `Timezone.link` is `/etc/localtime`: missing, a regular file, or a symlink target as
  its path segments. `pc[c]`, `arg[c]` and `ret[c]` are the step, the argument and the
  result of caller `c`. `Remove` of a missing file gives ENOENT and `Symlink` over an
  existing one gives EEXIST, as the system calls do; `RemoveMayFail` and
  `SymlinkMayFail` add any other error. `last` is the argument of the last call that
  created the link. `interfered[c]` is a history variable, not in the code: it records
  that another caller changed the link after `c`'s `Lstat`. The file system survives
  `Crash`; the call in progress does not.

### Runs

| Run | Expect | What it shows |
|---|---|---|
| `rules_paced` (MCRuleEngine.cfg) | pass | With producers that wait for the engine's feedback to be handled (single-point batches, late-stamped points allowed), the latches settle on the latest values. A second rule `r2` watches the `Active` point of every node, its own condition's and its own included; `BusDrains` shows that the engine's writes still die out, because a latch is written only when it differs from the snapshot. |
| `rules_stale_latch` | violation | A reading that arrives while the engine's own latch write is still on the bus is evaluated against the old latch. The condition stays latched true after the temperature has dropped. |
| `transfer` (MCFileTransfer.cfg) | pass | Without message loss, and with timeouts racing late replies, a file the device writes while `SendFile` succeeds always equals the file sent. |
| `transfer_lossy_order` | pass | With requests and replies dropped and device writes failing, a written file still holds every block of the source in order. The only corruption loss can cause is a repeated block. The per-attempt reply inbox and the FIFO order of requests rule out a skipped or reordered block. `SendFileReturns`: `SendFile` always returns, through the three-attempt bound and the `done` flag. |
| `transfer_lossy` | violation | If the device's "seq error" reply to a retried chunk is lost and its "OK" arrives, the chunk is appended twice and the corrupt file is written. |
| `transfer_late_reply` | violation | A single timeout whose request did reach the device dooms the transfer. Every retry is answered "seq error" first, so the retries never recover. |
| `ntp` | pass | With open/read and merge errors, and `Stop` racing `Points`, timesyncd runs the configured servers whenever the last `UpdateConfig` returned nil. This includes a shorter configuration replacing a longer one, where the truncate matters. |
| `ntp_restart_lost` | violation | A restart (or truncate) failure after the file was written is never repaired. The next `UpdateConfig` sees the file unchanged, returns nil, and timesyncd keeps the old servers. |
| `ntp_points_block` | violation | Under weak fairness of `Run`, a `Points` call made after `Stop`, once `Run` has taken `stopCh`, never returns. |
| `netconfig` (MCNetworkManagerConn.cfg) | pass | Over every 16-bit word, a netmask is valid exactly when it is `IPv4NetmaskPrefix` of a prefix, and `Prefix` inverts it, at 0 and the full width included. A static IPv4 configuration stays static once read back. IPv4 settings that were read back are written unchanged: the DNS byte order and the shift of `DNSServer2` into `DNSServer1` round-trip. |
| `netconfig_equal` | violation | `Equal` is not "the same D-Bus settings". An IPv6 configuration with an empty `DNSServer1` and a valid `DNSServer2` is not `Equal` to its own read-back, though both produce the same settings. |
| `timezone` (MCTimezone.cfg) | pass | Two callers interleave, `Remove` and `Symlink` fail, and crashes happen between the calls. `GetTimezone` still returns an error or exactly the directory and zone of the last `SetTimezone` that created the link, and the greedy `(.+)/(.+)` splits `posix/America/Chicago` at the last slash. `StaleErrorOnlyUnderRace`: a call returns ENOENT or EEXIST only when the other caller changed the link after its `Lstat`. So from any state a crash or failure left behind (no link, a regular file), a call on its own succeeds. Without the `Lstat` check, a call after a crash would fail with ENOENT. |

Three violation runs of earlier versions were retired to make room for the new
components within twelve runs. Each showed a fact visible in one line, and each is kept
as a hazard:
* actions are level-triggered (`rules.go:101`);
* a failing `Notify` skips the remaining actions (`rules.go:131`);
* `SendFile` returns nil after a read error (`file-transfer.go:161`). With reads
  succeeding this case cannot happen, so `SentMeansWritten` is not checked either.

The IPv6 counterpart of `IPv4ReadBackStable` fails in two steps, because `DBus` sends an
invalid non-empty `DNSServer2` as a nil slice (`network-manager-conn.go:428`). It is also
listed as a hazard.

Two more code facts found while modelling get no run, because they are visible in a single
line. `ruleRunActions` sends a `SetValue` point to node `""` after logging the error
(`rules.go:114-123`). The `ListenForFile` callback calls `callback(filePath)` after a
failed write (`file-transfer.go:69-78`). Both are listed as hazards.

### Bounds and why they are enough

* Rule engine: one rule with two conditions on two sensors, and the rule `r2` on every
  node's `Active` point. Temperatures 20 and 35 straddle the threshold 30, and the switch
  is 0 or 1. There are up to 3 producer batches, which is enough for a rise, a fall and a
  repeat or a late point; each rise sets off a cascade of about ten writes through `r2`.
  `MaxClock = 30` stops the handler at that time; no behaviour of the code reaches it
  with messages waiting (28 already gives the same states), so it only cuts off a write
  storm, which `BusDrains` then reports. Every handler
  step stamps its writes with fresh times. A late producer may reuse any earlier time,
  which covers ties and stale points.
* File transfer: three blocks give a first chunk (seq 0, which resets), two middle chunks
  (the only ones a repeat corrupts) and the DONE chunk. `MaxTries = 3` as in the code.
  Channels are unbounded, but the retries bound them. `ReadChunk` is guarded by
  `seq < MaxSeq` (`Len(Blocks) + 1`): the code never reads past the DONE chunk, and a
  loop that did would stop there, which `SendFileReturns` reports.
* NTP: two servers and lists of length 0 to 2 give 7 configurations, and files of
  different lengths, so both shortening and lengthening happen. Three `Points` calls are
  enough for a failed update followed by an unchanged one.
* NetworkManager: the 32-bit word is scaled to two octets (16 bits). That keeps both
  byte orders distinct and lets `NetmaskPrefixExact` range over all 65,536 words (the
  table is constant and evaluated once). The DNS values `8.4` and `1.2` differ between
  byte orders. The netmasks are one valid mask, `255.1` (not contiguous) and empty.
  The DNS servers are empty, valid or invalid in both positions.
* Timezone: zone files at depths 1, 2 and 3, two of them in one directory, and two
  callers, the fewest that can race. Every order of calls, failures and crashes is
  explored, and the state space is finite without a bound. The callers are a symmetry
  set (`MCSymmetry`), which is sound because the run checks only invariants.

### Fairness

`NTPClient` assumes `WF_vars(RunStep)`: the `Run` goroutine is scheduled whenever one
of its select cases is ready. `Points`, `Stop` and the producers get no fairness,
because nothing obliges the client manager to call them.

`RuleEngine` assumes `WF_vars(HandleMsg)`: the node-point subscription keeps taking
messages while any wait. Producers get none.

`FileTransfer` assumes weak fairness of `SendFile`'s steps (`ReadChunk`, `RecvReply`,
`Timeout`), of the device callback (`Receive`) and of the NATS client discarding
replies to closed inboxes (`DropStaleReply`). `Timeout` is fair because `nc.Request`
always returns within its one-minute timeout. Losing a message gets no fairness.
`CHECK_DEADLOCK FALSE`
is set where the system really stops. In the rule engine, the producers stop after
`MaxSubmits` batches and the handler waits for input. In the file transfer, `SendFile`
returns and the device waits for the next chunk. In the NTP client, `Run` returns and
the client manager stops calling. The `netconfig` and `timezone` runs check deadlock:
a read-back can always be repeated, and a caller can always set the zone again.

### Abstractions

* Points are identified by type alone: the code's `PointID` and `PointIndex` filters are
  unset ("" and -1) in every modelled condition.
* Text values and notification contents are left out. A text condition is always false,
  as in the code.
* The handler evaluates every rule over the *applied* points of a batch (spec 4.1: only
  applied points are reported). The handler code is not in `src/`.
* NATS publish errors of the rules' `SendNodePoint` (logged, the point lost) are the
  `PublishMayFail` fault. No run turns it on: with it, `LatchesSettled` fails after one
  lost condition write (checked by hand, 23 states), and the state space with losses is
  too large for the liveness check. Failing `Notify` actions (`NotifyMayFail`) are
  likewise modelled and off in both runs.
* NetworkManager: the model assumes NetworkManager returns the values it was given. The
  Go dynamic types the D-Bus library decodes (`[]any` for `address-data`, `uint32` for
  an IPv6 prefix written as `uint8`) are outside it. ID, Description, AutoConnect, the
  priority, the interface name and the SSID pass through `DBus`, `Resolve` and `Equal`
  unchanged and are left out. Only canonical IPv6 texts are valid inputs.
* Timezone: `SetTimezone` is exported and nothing in `src/` calls it. The model's second
  caller stands for any other writer of `/etc/localtime` running the same steps. A zone
  comes from `ReadTimezones(dir)`, so it has no slash.

## 3. Plan

Ordered by importance. Items 1, 2, 5, 6 and 7 are done, item 3 in part, and item 4 is dropped.

1. **RuleEngine + PointStore + bus** (done): the latches, actions and merge.
2. **FileTransfer** (done): the chunk protocol under timeouts, loss and failing I/O,
   and the liveness of `SendFile`.
3. **RuleEngine, more runs**. Done: the bus drains under wildcard conditions
   (`BusDrains`), and lost `SendNodePoint` writes are modelled. Left: multi-point
   batches, and two rules that cascade through a `SetValue` target. In a multi-point
   batch, the return at line 102 leaves the later points unevaluated. For example, a
   batch `temp 35, hum 20` on one node leaves a humidity latch set. This is a
   `LatchesSettled` violation, and it needs a violation run of its own.
4. **Abstract store**: dropped. The store and its abstract specification would both
   come from spec 4.1, so a refinement between them says nothing about this code.
5. **NTPClient** (done). Left: a crash of the process between the write and the
   restart, which makes the same lost restart happen without any I/O error.
6. **NetworkManagerConn** (done). Left: a run for the IPv6 DNS asymmetry.
7. **Timezone** (done, with two interleaving callers). Left: a run showing that a
   crash between `Remove` and `Symlink` loses the link.
8. **FileTransfer with two senders** (the single `dl` shared by concurrent transfers)
   and an undecodable chunk.

## 4. Not modelled

* **GraphIndex**: the store's graph code (edges, tombstones, `getNodes`, `up`) is not in
  `src/`; only its tests are. A module would be written from the spec and checked against
  that same spec.
* **Startup** (`start.go`): it wires together the store, the NATS server, the handler and
  the API server, none of which is in `src/`. Its hazards are listed in `PROJECT.json`: a
  `dbInst.Close` deferred past the handler's lifetime, a key-generation error that is
  only logged, and the 10-try connect loop.
* **Decode** (`decode.go`): a reflection-based mapping with no caller in `src/`. Its one
  hazard, a panic when a text point meets a non-string field, is in one line.
* **Ethernet** (`ethernet.go`): an enabled flag and separate sysfs reads. Its hazard, a
  status built from non-atomic reads (Connected without Detected), is listed.
* **Asset file update**: its file list is empty. **COBS wrapper**: only its test is in
  `src/`.
