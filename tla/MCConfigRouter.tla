--------------------------- MODULE MCConfigRouter ---------------------------
(* Instances of ConfigRouter for TLC. *)
EXTENDS ConfigRouter

CONSTANTS c1, c2, r1, n1, n2, boot

TwoTabs == {c1, c2}
OneRequest == {r1}
NoRequest == {}

EmptyTable == [rule |-> NoRule, nodes |-> {}]
FirstTable == [rule |-> n1, nodes |-> {n1}]
SecondTable == [rule |-> n2, nodes |-> {n2}]
BadTable == [rule |-> n1, nodes |-> {n2}]   \* the node of the rule is missing

GoodOrBad == {EmptyTable, FirstTable, BadTable}
ThreeTables == {EmptyTable, FirstTable, SecondTable}
=============================================================================
