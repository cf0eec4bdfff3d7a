-------------------------------- MODULE Job --------------------------------
(***************************************************************************)
(* What the program promises of one generated text (a CEO report, a CEO    *)
(* answer, a project briefing), whatever its workers, messages and clocks  *)
(* do: once asked for it is pending until it is completed with one answer  *)
(* or given up, and that outcome stands; only a completed answer is used.  *)
(***************************************************************************)
CONSTANTS Answers,   \* the answers a generation may give
          NoAnswer

VARIABLES phase, answer, used

vars == <<phase, answer, used>>

Init ==
  /\ phase = "absent"
  /\ answer = NoAnswer
  /\ used = FALSE

Ask ==
  /\ phase = "absent"
  /\ phase' = "pending"
  /\ UNCHANGED <<answer, used>>

Finish ==
  /\ phase = "pending"
  /\ phase' = "completed"
  /\ answer' \in Answers
  /\ UNCHANGED used

GiveUp ==
  /\ phase = "pending"
  /\ phase' = "failed"
  /\ UNCHANGED <<answer, used>>

Use ==
  /\ phase = "completed"
  /\ ~used
  /\ used' = TRUE
  /\ UNCHANGED <<phase, answer>>

Next == Ask \/ Finish \/ GiveUp \/ Use

Spec == Init /\ [][Next]_vars
=============================================================================
