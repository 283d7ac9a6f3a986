--------------------------- MODULE MCSchemaStartup ---------------------------
(***************************************************************************)
(* Two tables, one of them with a column that came later, an index on that *)
(* column, and the index and constraints that came last.                   *)
(***************************************************************************)
EXTENDS SchemaStartup

MCObject == {"vector", "interview", "call", "interview.invitation_code",
             "ix_interview_invitation_code", "ix_call_one_active_per_interview",
             "ck_call_status_enum", "ck_interview_status_enum"}
MCObjects == <<{"vector"}, {"interview", "call"}, {"interview.invitation_code"}, {},
               {"ix_interview_invitation_code"}, {"ix_call_one_active_per_interview"},
               {"ck_call_status_enum", "ck_interview_status_enum"}>>
MCInline ==
  [o \in MCObject |-> IF o = "interview" THEN {"interview.invitation_code"} ELSE {}]
MCNeeds ==
  [o \in MCObject |->
     CASE o \in {"interview", "call"} -> {"vector"}
       [] o \in {"interview.invitation_code", "ck_interview_status_enum"} -> {"interview"}
       [] o = "ix_interview_invitation_code" -> {"interview.invitation_code"}
       [] o \in {"ix_call_one_active_per_interview", "ck_call_status_enum"} -> {"call"}
       [] OTHER -> {}]

=============================================================================
