--------------------------- MODULE MCRegistration ---------------------------
(***************************************************************************)
(* The mails followed are those of the codes there are.                    *)
(***************************************************************************)
EXTENDS Registration

MCJobs == Codes
=============================================================================
