----------------------------- MODULE MCMarking -----------------------------
(* Two ephemerons whose keys and values are each other, a weak object and a   *)
(* plain one, with a class that only its instance refers to.                *)
EXTENDS Marking

CONSTANTS meta, class, e1, e2, w, k

MCSlot == {1, 2}

MCClassOf == [o \in Object |-> IF o = k THEN class ELSE meta]

MCFormatOf == [o \in Object |-> CASE o \in {e1, e2} -> "ephemeron"
                                 [] o = w -> "weak" [] OTHER -> "plain"]

Pairs(S, T) == {<<x, y>> : x \in S, y \in T}

MCGraphs ==
    {[o \in Object |-> CASE o = e1 -> f1 [] o = e2 -> f2 [] o = w -> fw
                         [] o = k -> fk [] OTHER -> <<Nil, Nil>>] :
        f1 \in Pairs({w, k}, {e2, k}), f2 \in Pairs({e1, k}, {w, k}),
        fw \in Pairs({Nil, e1}, {k}), fk \in Pairs({w, e2}, {Nil})}
=============================================================================
