---------------------------- MODULE RuleEngine ----------------------------
(***************************************************************************)
(* The point store, its NATS node-point subject and the rule engine that  *)
(* consumes it.                                                           *)
(*                                                                         *)
(* Producers publish point batches addressed to a node on the bus (the    *)
(* NATS subject, FIFO for one publisher connection).  One handler takes   *)
(* the batches in order: it merges the batch into the store, then runs    *)
(* every rule over the applied points (ruleProcessPoints) and, for a rule *)
(* that returns true, its actions (ruleRunActions).  Every point the      *)
(* rules send (condition and rule Active points, SetValue points) goes    *)
(* out with SendNodePoint(..., ack=false): it is published on the same    *)
(* bus and merged only when the handler reaches it.  The rule snapshot    *)
(* (the Active latches) is read from the store when the batch is handled. *)
(*                                                                         *)
(* The handler and the ingress (store/ and nats/ packages) are not in     *)
(* this source tree; they follow spec sections 2, 4.1, 4.4 and 5.  The    *)
(* rule code itself is src/db/rules.go, in module RuleEval.               *)
(***************************************************************************)
EXTENDS Integers, Sequences, FiniteSets, PointStore, RuleEval

CONSTANTS
  Rules,          \* the rules, a sequence, evaluated in this order
  Owners,         \* node IDs: sensors, conditions, rules, targets, Empty
  PointTypes,     \* point types, including "active"
  Inputs,         \* batches producers may send: [node, points: Seq([type, value])]
  MaxSubmits,     \* bound on the number of batches producers send
  MaxClock,       \* bound on time.Now: the handler stops at it
  Paced,          \* TRUE: a producer sends only once the bus is drained
  LatePoints,     \* TRUE: a producer may stamp a batch with an older time
  NotifyMayFail,  \* TRUE: a Notify action may fail
  PublishMayFail  \* TRUE: a SendNodePoint of the rules may fail

RuleIDs == {Rules[k].id : k \in DOMAIN Rules}
Conditions == UNION {{Rules[k].conditions[i] : i \in DOMAIN Rules[k].conditions} :
                      k \in DOMAIN Rules}

ASSUME /\ Empty \in Owners
       /\ "active" \in PointTypes
       /\ RuleIDs \cup {c.id : c \in Conditions} \subseteq Owners
       /\ MaxSubmits \in Nat
       /\ MaxClock \in Nat

VARIABLES
  store,     \* owner -> point type -> [time, value]: the database
  bus,       \* pending point messages [node, points], in publish order
  clock,     \* the latest time handed out (time.Now)
  submits    \* batches sent by producers so far

vars == <<store, bus, clock, submits>>

Point == [type : PointTypes, time : Nat, value : Int]
Message == [node : Owners, points : Seq(Point)]

TypeOK ==
  /\ store \in [Owners -> [PointTypes -> [time : Nat, value : Int]]]
  /\ bus \in Seq(Message)
  /\ clock \in Nat
  /\ submits \in 0..MaxSubmits

\* The Active latch the code reads from the rule struct, for every owner.
Latches(st) == [id \in Owners |-> st[id]["active"].value # 0]

\* SendNodePoint for each write, in order, each with its own time.Now.
Stamp(ws) == [i \in DOMAIN ws |->
                [node   |-> ws[i].node,
                 points |-> <<[type |-> ws[i].type, time |-> clock + i,
                               value |-> ws[i].value]>>]]

\* The choices of failing Notify actions, per rule index.
FailureChoices ==
  IF NotifyMayFail
  THEN {f \in [DOMAIN Rules -> SUBSET UNION {NotifyIndices(Rules[k]) : k \in DOMAIN Rules}] :
          \A k \in DOMAIN Rules : f[k] \subseteq NotifyIndices(Rules[k])}
  ELSE {[k \in DOMAIN Rules |-> {}]}

\* Every rule, in order, over the applied points of one batch: the writes
\* of ruleProcessPoints, then those of ruleRunActions when it returned true.
RECURSIVE EvalFrom(_, _, _, _, _, _)
EvalFrom(k, active, nodeID, pts, failing, writes) ==
  IF k > Len(Rules) THEN writes
  ELSE LET rp == RuleProcessPoints(Rules[k], active, nodeID, pts)
           ra == IF rp.fire THEN RuleRunActions(Rules[k], failing[k]).writes
                 ELSE <<>>
       IN  EvalFrom(k + 1, active, nodeID, pts, failing, writes \o rp.writes \o ra)

EvalRules(active, nodeID, pts, failing) ==
  EvalFrom(1, active, nodeID, pts, failing, <<>>)

\* The writes whose SendNodePoint may fail: the error is only logged.
LostChoices(ws) == IF PublishMayFail THEN SUBSET DOMAIN ws ELSE {{}}

\* The stamped messages that reach the subject: each took its time.Now
\* whether or not its publish failed.
Published(ms, lost) == SelectSeq(ms, LAMBDA msg : msg.points[1].time - clock \notin lost)

Init ==
  /\ store = [n \in Owners |-> [t \in PointTypes |-> NoPoint]]
  /\ bus = <<>>
  /\ clock = 0
  /\ submits = 0

\* Variant of Submit used to check TypeOK: the bound is off by one.
SubmitPastBound(in, t) ==
  /\ submits <= MaxSubmits
  /\ Paced => bus = <<>>
  /\ bus' = Append(bus, [node   |-> in.node,
                         points |-> [i \in DOMAIN in.points |->
                                       [type  |-> in.points[i].type,
                                        time  |-> t + i - 1,
                                        value |-> in.points[i].value]]])
  /\ clock' = IF t + Len(in.points) - 1 > clock THEN t + Len(in.points) - 1 ELSE clock
  /\ submits' = submits + 1
  /\ UNCHANGED store

\* A producer (device agent, API handler) publishes a batch for a node.
\* Its points carry consecutive times from t on; t is the producer's clock,
\* which may lag behind (LatePoints).
Submit(in, t) ==
  /\ submits < MaxSubmits
  /\ Paced => bus = <<>>
  /\ bus' = Append(bus, [node   |-> in.node,
                         points |-> [i \in DOMAIN in.points |->
                                       [type  |-> in.points[i].type,
                                        time  |-> t + i - 1,
                                        value |-> in.points[i].value]]])
  /\ clock' = IF t + Len(in.points) - 1 > clock THEN t + Len(in.points) - 1 ELSE clock
  /\ submits' = submits + 1
  /\ UNCHANGED store

SubmitTimes == IF LatePoints THEN 1..(clock + 1) ELSE {clock + 1}

\* The node-point handler for the message at the head of the bus: merge,
\* evaluate the rules over the applied points, publish what they send.
\* The result of handling message m with the Notify failures failing.
Handled(m, failing) ==
  LET res == UpsertPoints(store[m.node], m.points)
      st  == [store EXCEPT ![m.node] = res.points]
      ev  == EvalRules(Latches(st), m.node, res.applied, failing)
  IN  [store |-> st, writes |-> ev]

HandleMsg ==
  /\ bus # <<>>
  /\ clock < MaxClock
  /\ \E h \in {Handled(Head(bus), failing) : failing \in FailureChoices} :
     \E lost \in LostChoices(h.writes) :
       /\ store' = h.store
       /\ bus' = Tail(bus) \o Published(Stamp(h.writes), lost)
       /\ clock' = clock + Len(h.writes)
  /\ UNCHANGED submits

Next ==
  \/ \E in \in Inputs, t \in SubmitTimes : Submit(in, t)
  \/ HandleMsg

\* The node-point subscription handler keeps taking messages while any
\* wait; producers may stop at any time.
Spec == Init /\ [][Next]_vars /\ WF_vars(HandleMsg)

-----------------------------------------------------------------------------
(* Properties.                                                             *)

\* A condition whose node and point type are both set watches one stored
\* point.
Watched(c) == c.nodeID # Empty /\ c.pointType # Empty

\* Once every published point has been handled, the Active latch stored
\* for each condition agrees with the condition evaluated on the latest
\* stored value of the point it watches.  About ruleProcessPoints writing
\* Active only when the value differs from the latch it read, while its
\* own earlier write may still be on the bus.
LatchesSettled ==
  bus = <<>> =>
    \A c \in Conditions :
      (Watched(c) /\ store[c.nodeID][c.pointType].time > 0) =>
        (store[c.id]["active"].value # 0) =
          ConditionActive(c, store[c.nodeID][c.pointType])

\* Every message published is eventually handled and the rule engine's own
\* Active writes, which re-enter the subject it reads, die out: the bus
\* drains (spec 9, no unbounded amplification).  About ruleProcessPoints
\* writing a latch only when it differs from the snapshot, for a condition
\* with an empty NodeID that matches the engine's own Active points.
BusDrains == bus # <<>> ~> bus = <<>>
=============================================================================
