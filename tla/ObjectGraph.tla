---------------------------- MODULE ObjectGraph ----------------------------
(***************************************************************************)
(* What the image may rely on: a heap of objects that refer to each other  *)
(* by identity.  A collection removes objects nobody that stays refers to, *)
(* and changes nothing else.                                               *)
(***************************************************************************)
EXTENDS Integers, Sequences

CONSTANTS Object, Root,
          Blank(_)     \* the words of a new object

VARIABLES objects,     \* the objects that exist
          contents,    \* the words of each: objects, or data
          held         \* what the interpreter's roots hold

vars == <<objects, contents, held>>

RefersTo(o) == {contents[o][i] : i \in DOMAIN contents[o]} \intersect Object

Allocate(o, r) ==
    /\ o \notin objects
    /\ objects' = objects \union {o}
    /\ contents' = [x \in objects' |-> IF x = o THEN Blank(o) ELSE contents[x]]
    /\ held' = [held EXCEPT ![r] = o]

Store(o, i, r) ==
    /\ o \in objects /\ i \in DOMAIN contents[o]
    /\ contents' = [contents EXCEPT ![o][i] = held[r]]
    /\ UNCHANGED <<objects, held>>

Drop(r) ==
    /\ held' = [held EXCEPT ![r] = 0]
    /\ UNCHANGED <<objects, contents>>

Collect(S) ==
    /\ S \subseteq objects
    /\ {held[r] : r \in Root} \intersect Object \subseteq S
    /\ \A o \in S : RefersTo(o) \subseteq S
    /\ objects' = S
    /\ contents' = [o \in S |-> contents[o]]
    /\ UNCHANGED held

Next ==
    \/ \E o \in Object, r \in Root : Allocate(o, r)
    \/ \E o \in objects, r \in Root : \E i \in DOMAIN contents[o] : Store(o, i, r)
    \/ \E r \in Root : Drop(r)
    \/ \E S \in SUBSET objects : Collect(S)

Spec == [][Next]_vars
=============================================================================
