----------------------------- MODULE GameEvents -----------------------------
(***************************************************************************)
(* The events of a game's log: who may append which type                   *)
(* (backend/gameboard/authority.go), and what makes an append acceptable   *)
(* (service.go, Append).  An event is a record of the fields the code      *)
(* looks at; what a score or a substitution says is not one of them.       *)
(***************************************************************************)

CONSTANTS
    Events,     \* the events that requests can carry
    NoID,       \* EventID == ""
    NoType      \* Type == ""

ASSUME EventAssumption ==
    \A e \in Events : {"id", "type", "source"} \subseteq DOMAIN e

PlayTypes == {"score", "team-foul", "substitution"}
TableTypes == {"clock", "period", "possession", "timeout", "status"}
JudgeTypes == {"judge-ruling", "correction"}

\* The authority matrix: consensus stands in for the table crew, not the judge.
Authorized(source) ==
    CASE source = "scorekeeper" -> PlayTypes
      [] source = "timekeeper"  -> TableTypes
      [] source = "judge"       -> JudgeTypes
      [] source = "consensus"   -> PlayTypes \cup TableTypes
      [] OTHER                  -> {}

IsAuthorized(e) == e.type \in Authorized(e.source)

\* Neither the event id nor the type is empty.
IsWellFormed(e) == e.id # NoID /\ e.type # NoType
=============================================================================
