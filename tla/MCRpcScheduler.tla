--------------------------- MODULE MCRpcScheduler ---------------------------
(* Small instances of RpcScheduler: the sources of one class, and of two. *)
EXTENDS RpcScheduler

CONSTANTS interactive, background, mcp, export, fullSync

\* Two sources of one class, the second deferrable; mcp may hold one slot only.
OneClass == {interactive}
TwoSources == {mcp, export}
OneSource == {export}
AllInteractive == [s \in Sources |-> interactive]
CapacityTwo == [c \in OneClass |-> 2]
LimitOneTwo == [s \in Sources |-> IF s = mcp THEN 1 ELSE 2]
CycleOne == <<interactive>>
RotateOne == [c \in OneClass |-> <<export>>]
RotateTwo == [c \in OneClass |-> <<mcp, export>>]

=============================================================================
