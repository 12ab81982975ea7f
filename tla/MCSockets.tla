------------------------------- MODULE MCSockets ------------------------------
(* Two descriptors are enough for sockets to share and to be handed back.    *)
EXTENDS Sockets

MCFd == {3, 4}
=============================================================================
