--------------------------- MODULE MCRuleEngine ---------------------------
(***************************************************************************)
(* Instances of RuleEngine for TLC.                                        *)
(* Nodes: a temperature sensor s1, a switch s2, an alarm target t1, the   *)
(* condition nodes c1 and c2 and the rule node r1; "" is the empty node  *)
(* ID.  Temperatures 20 and 35 lie either side of the threshold 30.       *)
(***************************************************************************)
EXTENDS RuleEngine

MCEmpty == ""

MCOwners == {"s1", "s2", "t1", "c1", "c2", "c3", "r1", "r2", ""}
MCPointTypes == {"temp", "sw", "active", "alarm"}

\* temp > 30 on s1
HighTemp == [id |-> "c1", nodeID |-> "s1", pointType |-> "temp",
             valueType |-> "number", operator |-> ">", value |-> 30]
\* switch s2 on
SwitchOn == [id |-> "c2", nodeID |-> "s2", pointType |-> "sw",
             valueType |-> "onOff", operator |-> "", value |-> 1]

SetAlarm   == [id |-> "a1", action |-> "setValue", nodeID |-> "t1",
               pointType |-> "alarm", value |-> 1]
NotifyUser == [id |-> "a2", action |-> "notify", nodeID |-> "t1",
               pointType |-> "", value |-> 0]
\* The alarm rule: both conditions, alarm then notification.
AlarmRules == <<[id |-> "r1", conditions |-> <<HighTemp, SwitchOn>>,
                 actions |-> <<SetAlarm, NotifyUser>>]>>
\* The same rule with the notification first.
NotifyFirstRules == <<[id |-> "r1", conditions |-> <<HighTemp>>,
                       actions |-> <<NotifyUser, SetAlarm>>]>>
\* A rule on the temperature alone that sets the alarm.
TempRules == <<[id |-> "r1", conditions |-> <<HighTemp>>,
                actions |-> <<SetAlarm>>]>>

\* any node's Active point on (a condition or rule turned active)
AnyActive == [id |-> "c3", nodeID |-> "", pointType |-> "active",
              valueType |-> "onOff", operator |-> "", value |-> 1]
NotifyAny == [id |-> "a3", action |-> "notify", nodeID |-> "", pointType |-> "",
              value |-> 0]
\* The alarm rule and a rule that watches the Active points of every node,
\* its own condition's and its own included.
AlarmWatchRules == Append(AlarmRules, [id |-> "r2", conditions |-> <<AnyActive>>,
                                       actions |-> <<NotifyAny>>])

\* Single-point batches: a temperature reading or a switch position.
SinglePoints ==
  {[node |-> "s1", points |-> <<[type |-> "temp", value |-> v]>>] : v \in {20, 35}}
  \cup {[node |-> "s2", points |-> <<[type |-> "sw", value |-> v]>>] : v \in {0, 1}}
\* Temperature readings only.
TempPoints ==
  {[node |-> "s1", points |-> <<[type |-> "temp", value |-> v]>>] : v \in {20, 35}}
=============================================================================
