------------------------------- MODULE MCForms --------------------------------
\* An instance of Forms for TLC: root contains group and y, group contains x.
EXTENDS Forms, TLC

CONSTANTS root, group, x, y

MCLeaf == {x, y}
MCGroup == {root, group}
MCBottomUp == <<x, y, group, root>>
MCChildren == (root :> {group, y}) @@ (group :> {x})
MCMovable == {y}
MCSync == {x}
MCAsync == {x, root}
MCValue == {0, 1}
===============================================================================
