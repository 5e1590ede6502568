----------------------------- MODULE MCInvites -----------------------------
(* Invites with an organizer who listed one player, a parent with an        *)
(* account whose link names a player of no roster (p1), and one with a link *)
(* for that player (p2).  Each budget is about one interplay: both parents; *)
(* one parent who fails and tries again; a parent and the organizer adding  *)
(* kids at the same time; the organizer adding two at once.                 *)
EXTENDS Invites

CONSTANTS p1, p2, coach

Links == [p \in {p1, p2} |-> IF p = p1 THEN 9 ELSE 1]

Calls(ofP1, ofP2, ofCoach) ==
    [q \in {p1, p2, coach} |-> IF q = p1 THEN ofP1 ELSE IF q = p2 THEN ofP2 ELSE ofCoach]

FourInterplays == {Calls(2, 2, 0), Calls(0, 5, 0), Calls(0, 3, 3), Calls(0, 0, 5)}
OneParent == {Calls(3, 0, 0)}
=============================================================================
