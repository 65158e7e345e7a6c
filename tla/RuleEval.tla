----------------------------- MODULE RuleEval -----------------------------
(***************************************************************************)
(* The rule evaluation of src/db/rules.go as operators.                    *)
(*                                                                         *)
(* A condition is a record                                                 *)
(*   [id, nodeID, pointType, valueType, operator, value]                   *)
(* where nodeID and pointType may be Empty ("" in the code: match any).   *)
(* The code's PointID and PointIndex filters are taken as unset ("" and   *)
(* -1): points are identified by type alone.  An action is a record        *)
(*   [id, action, nodeID, pointType, value].                               *)
(* A rule is [id, conditions: Seq(condition), actions: Seq(action)].       *)
(* active is the snapshot of the stored Active points the code reads from *)
(* the rule struct: a function from condition and rule IDs to BOOLEAN.     *)
(* A point write is [node, type, value]; its time is given by the caller. *)
(***************************************************************************)
EXTENDS Naturals, Sequences

CONSTANT Empty   \* the empty string: an unset NodeID or PointType

BoolToFloat(b) == IF b THEN 1 ELSE 0

\* The scope filters of ruleProcessPoints: an unset field matches anything.
ConditionMatches(c, nodeID, p) ==
  /\ c.nodeID \in {Empty, nodeID}
  /\ c.pointType \in {Empty, p.type}

\* The numeric operators; an unknown operator leaves active false.
Compare(op, x, y) ==
  CASE op = ">"  -> x > y
    [] op = "<"  -> x < y
    [] op = "="  -> x = y
    [] op = "!=" -> x # y
    [] OTHER     -> FALSE

\* The value test.  The text branches of the code never assign active, so a
\* text condition (and one of an unknown value type) is always false.
ConditionActive(c, p) ==
  CASE c.valueType = "number" -> Compare(c.operator, p.value, c.value)
    [] c.valueType = "onOff"  -> (c.value # 0) = (p.value # 0)
    [] OTHER                  -> FALSE

ActiveWrite(id, b) == [node |-> id, type |-> "active", value |-> BoolToFloat(b)]

\* Variant of PointResult used to check LatchesSettled: a condition latch
\* is written when it turns true but never reset.
PointResultNoReset(r, active, nodeID, p) ==
  LET touched   == SelectSeq(r.conditions, LAMBDA c : ConditionMatches(c, nodeID, p))
      flipped   == SelectSeq(touched, LAMBDA c : ConditionActive(c, p) /\ ~active[c.id])
      processed == touched # <<>>
      allActive == \A i \in DOMAIN touched : ConditionActive(touched[i], p)
      condW     == [i \in DOMAIN flipped |-> ActiveWrite(flipped[i].id, TRUE)]
      ruleW     == IF processed /\ allActive # active[r.id]
                   THEN <<ActiveWrite(r.id, allActive)>> ELSE <<>>
  IN  [fire |-> processed /\ allActive, writes |-> condW \o ruleW]

\* Variant of PointResult used to check BusDrains: every touched condition
\* is written, whether or not it differs from its latch.
PointResultAlwaysWrite(r, active, nodeID, p) ==
  LET touched   == SelectSeq(r.conditions, LAMBDA c : ConditionMatches(c, nodeID, p))
      processed == touched # <<>>
      allActive == \A i \in DOMAIN touched : ConditionActive(touched[i], p)
      condW     == [i \in DOMAIN touched |->
                      ActiveWrite(touched[i].id, ConditionActive(touched[i], p))]
      ruleW     == IF processed /\ allActive # active[r.id]
                   THEN <<ActiveWrite(r.id, allActive)>> ELSE <<>>
  IN  [fire |-> processed /\ allActive, writes |-> condW \o ruleW]

\* One iteration of the outer loop of ruleProcessPoints: the conditions the
\* point touches, the Active writes of those whose value differs from the
\* snapshot latch, and the rule's Active write when the conjunction of the
\* touched conditions differs from the snapshot of the rule.
PointResult(r, active, nodeID, p) ==
  LET touched   == SelectSeq(r.conditions, LAMBDA c : ConditionMatches(c, nodeID, p))
      flipped   == SelectSeq(touched, LAMBDA c : ConditionActive(c, p) # active[c.id])
      processed == touched # <<>>
      allActive == \A i \in DOMAIN touched : ConditionActive(touched[i], p)
      condW     == [i \in DOMAIN flipped |->
                      ActiveWrite(flipped[i].id, ConditionActive(flipped[i], p))]
      ruleW     == IF processed /\ allActive # active[r.id]
                   THEN <<ActiveWrite(r.id, allActive)>> ELSE <<>>
  IN  [fire |-> processed /\ allActive, writes |-> condW \o ruleW]

\* ruleProcessPoints: points in order until the first one that is processed
\* with every touched condition active.  The snapshot is never refreshed
\* inside the loop.  Returns whether that happened and the writes sent.
RECURSIVE ProcessFrom(_, _, _, _, _)
ProcessFrom(r, active, nodeID, pts, writes) ==
  IF pts = <<>> THEN [fire |-> FALSE, writes |-> writes]
  ELSE LET res == PointResult(r, active, nodeID, Head(pts))
       IN  IF res.fire THEN [fire |-> TRUE, writes |-> writes \o res.writes]
           ELSE ProcessFrom(r, active, nodeID, Tail(pts), writes \o res.writes)

RuleProcessPoints(r, active, nodeID, pts) == ProcessFrom(r, active, nodeID, pts, <<>>)

\* ruleRunActions: actions in list order.  SetValue sends its point to the
\* action's node even when that node is unset (the code logs and goes on).
\* Notify publishes a notification for the rule unless it fails (trigger
\* node lookup, encoding or publish error), in which case the function
\* returns at once and the remaining actions are not run.  failing is the
\* set of action indices whose Notify fails.
RECURSIVE RunFrom(_, _, _, _)
RunFrom(r, i, failing, out) ==
  IF i > Len(r.actions) THEN out
  ELSE LET a == r.actions[i]
       IN  CASE a.action = "setValue" ->
                  RunFrom(r, i + 1, failing,
                     [out EXCEPT !.writes = Append(@, [node |-> a.nodeID,
                                           type |-> a.pointType, value |-> a.value])])
             [] a.action = "notify" /\ i \in failing -> [out EXCEPT !.err = TRUE]
             [] a.action = "notify" ->
                  RunFrom(r, i + 1, failing, [out EXCEPT !.notified = @ + 1])
             [] OTHER -> RunFrom(r, i + 1, failing, out)

RuleRunActions(r, failing) ==
  RunFrom(r, 1, failing, [writes |-> <<>>, notified |-> 0, err |-> FALSE])

\* The action indices of a rule whose Notify may fail.
NotifyIndices(r) == {i \in DOMAIN r.actions : r.actions[i].action = "notify"}
=============================================================================
