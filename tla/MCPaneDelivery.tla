--------------------------- MODULE MCPaneDelivery ---------------------------
EXTENDS PaneDelivery, TLC

CONSTANTS a, b

One == {a}
Two == {a, b}
NoLong == {}
OneTail == a :> 1
Distinct == a :> 1 @@ b :> 2

=============================================================================
