--------------------------- MODULE InterviewStates ---------------------------
(***************************************************************************)
(* The pure part of the interview domain (app/domain/states.py): statuses, *)
(* the table of allowed transitions, and the action a status and an intent *)
(* call for.                                                               *)
(***************************************************************************)

InterviewStatus == {"NOT_STARTED", "IN_PROGRESS", "INTERRUPTED", "COMPLETED",
                    "RESCHEDULED", "CANCELLED", "EXPIRED"}
Intent == {"START_INTERVIEW", "CONTINUE_INTERVIEW", "RESCHEDULE", "TALK_TO_HUMAN",
           "GENERAL_HELP", "UNKNOWN"}

AllowedTransitions ==
  [status \in InterviewStatus |->
     CASE status = "NOT_STARTED" -> {"IN_PROGRESS", "RESCHEDULED", "CANCELLED", "EXPIRED"}
       [] status = "IN_PROGRESS" -> {"COMPLETED", "INTERRUPTED", "RESCHEDULED", "CANCELLED"}
       [] status = "INTERRUPTED" -> {"IN_PROGRESS", "RESCHEDULED", "CANCELLED", "EXPIRED"}
       [] status = "RESCHEDULED" -> {"IN_PROGRESS", "NOT_STARTED", "CANCELLED", "EXPIRED"}
       [] OTHER -> {}]

CanTransition(current, target) == target \in AllowedTransitions[current]

ResolveAction(status, intent) ==
  CASE intent \in {"START_INTERVIEW", "CONTINUE_INTERVIEW"} ->
         (CASE status \in {"NOT_STARTED", "RESCHEDULED"} -> "START"
            [] status \in {"INTERRUPTED", "IN_PROGRESS"} -> "RESUME"
            [] OTHER -> "REJECT")
    [] intent = "RESCHEDULE" ->
         IF status \in {"NOT_STARTED", "INTERRUPTED", "RESCHEDULED"} THEN "RESCHEDULE" ELSE "REJECT"
    [] OTHER -> "ESCALATE"

=============================================================================
