--------------------------- MODULE CommandProgress ----------------------------
(***************************************************************************)
(* What an operator may see of commands: the stage that                    *)
(* GET /api/commands/:id answers.  A command goes forward only, and the    *)
(* answer of its executor, once known, stands.                             *)
(***************************************************************************)
CONSTANT Commands
VARIABLE stage

Stages == {"none", "queued", "sent", "applied", "rejected", "expired"}

Follows(s) ==
  CASE s = "none" -> {"queued"}
    [] s = "queued" -> {"sent", "applied", "rejected", "expired"}
    [] s = "sent" -> {"applied", "expired"}
    [] s \in {"applied", "rejected", "expired"} -> {}

Init == stage = [c \in Commands |-> "none"]

Next ==
  /\ stage' \in [Commands -> Stages]
  /\ \A c \in Commands : stage'[c] = stage[c] \/ stage'[c] \in Follows(stage[c])

Spec == Init /\ [][Next]_stage
===============================================================================
