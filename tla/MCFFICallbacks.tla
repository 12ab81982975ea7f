--------------------------- MODULE MCFFICallbacks ---------------------------
(* An idle process, four handlers, and three callers: one below them, one as *)
(* high as they are, and one above.  The handlers are alike.                 *)
EXTENDS FFICallbacks, TLC

CONSTANTS idle, a, b, c, h1, h2, h3, h4, s1

MCPriority == [p \in Proc |-> CASE p = idle -> 1 [] p = b -> 2
                                [] p = c -> 4 [] OTHER -> 3]

HandlerSymmetry == Permutations(Handler)
=============================================================================
