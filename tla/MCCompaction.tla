---------------------------- MODULE MCCompaction ----------------------------
(* A method with one literal and one word of bytecodes, an array, an empty   *)
(* array, a byte array whose bytes look like an address, and a large object. *)
EXTENDS Compaction, SequencesExt

CONSTANTS m, p, z, b, big, f, r

MCSlotCount == [o \in Object |-> CASE o = m -> 3 [] o = p -> 2 [] o = z -> 0
                                   [] o \in {b, big} -> 1]

MCKindOf == [o \in Object |-> CASE o = m -> "method" [] o = b -> "bytes"
                                [] OTHER -> "pointers"]

MCOrders == {<<b, p, m, big>>, <<p, big, b, m>>, <<z, m, b, p, big>>, <<big, z, p, m, b>>}

\* The objects that lie before one in an order.
BelowIn(order, o) ==
    {order[j] : j \in {i \in DOMAIN order : \E k \in DOMAIN order : i < k /\ order[k] = o}}

MCLayouts ==
    {[start |-> [o \in Range(order) |->
                    OldSpaceStart + MapThenSumSet(TotalSize, BelowIn(order, o))],
      free  |-> OldSpaceStart + MapThenSumSet(TotalSize, Range(order))] : order \in MCOrders}

\* The method's header says one literal; its bytecodes and the bytes of the
\* byte array are the addresses of something.
MCGraphs ==
    {[o \in Object |-> CASE o = m -> <<-1, lit, 3>> [] o = p -> <<first, m>> [] o = z -> <<0>>
                         [] o = b -> <<raw>> [] o = big -> <<p>>] :
        lit \in {b, p}, first \in {m, big, p}, raw \in {1, 6}}

MCHoldings == {[x \in Root |-> IF x = f THEN m ELSE y] : y \in {0, p, big}}
=============================================================================
