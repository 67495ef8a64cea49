--------------------------- MODULE MCQueryRouting ---------------------------
(* Small meshes for TLC: a triangle, where everything has a side path, and *)
(* a line, where everything has to be relayed.                             *)
EXTENDS QueryRouting

CONSTANTS o, a, b, c, q1

MCNode == {o, a, b}
MCQuery == {q1}
MCAsker == [q \in MCQuery |-> o]
Triangle == [n \in MCNode |-> MCNode \ {n}]
FarHolds == [q \in MCQuery |-> {b}]

MCLineNode == {o, a, b, c}
Links == {{o, a}, {a, b}, {b, c}}
Line == [n \in MCLineNode |-> {p \in MCLineNode : {n, p} \in Links}]
EndHolds == [q \in MCQuery |-> {c}]
=============================================================================
