------------------------ MODULE MCInterviewLifecycle ------------------------
(***************************************************************************)
(* InterviewLifecycle for TLC: requests are interchangeable, calls are not *)
(* (a browser session and a Twilio call differ).                           *)
(***************************************************************************)
EXTENDS InterviewLifecycle, TLC

Symmetry == Permutations(Request)

=============================================================================
