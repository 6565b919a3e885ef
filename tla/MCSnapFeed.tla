------------------------------- MODULE MCSnapFeed -------------------------------
(* A small instance of SnapFeed for TLC. *)
EXTENDS SnapFeed

CONSTANTS p1, p2

\* Two places apart, near enough only for the broadcast.
Apart == [r \in Radii |-> IF r = "broadcast" THEN {p1, p2} \X {p1, p2}
                          ELSE {<<p1, p1>>, <<p2, p2>>}]

ListsOrSockets == {{"view", "near", "seen", "delete"}, {"create", "socket"}}
================================================================================
