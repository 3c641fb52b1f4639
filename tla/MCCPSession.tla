----------------------------- MODULE MCCPSession -----------------------------
(***************************************************************************)
(* The two halves of the CP session, explored side by side in one run: the *)
(* keep-alive of CPSession and the trigger of AutoLogin share no state but *)
(* the status, which AutoLogin takes from its caller.  "half" says which   *)
(* one a behaviour is about; the other one stays in its initial state.     *)
(***************************************************************************)
EXTENDS CPSession, AutoLogin

VARIABLE half

MCbackoff == <<2, 3, 5>>

MCInit ==
    /\ half \in {"session", "login"}
    /\ SessionInit /\ LoginInit
    /\ half = "login" => gateway = "down"

MCNext ==
    \/ half = "session" /\ SessionNext /\ UNCHANGED <<half, loginVars>>
    \/ half = "login" /\ LoginNext /\ UNCHANGED <<half, sessionVars>>

MCSpec == /\ MCInit /\ [][MCNext]_<<half, sessionVars, loginVars>>
          /\ SessionFairness

\* The types of both halves.
TypesOK == SessionTypeOK /\ LoginTypeOK
=============================================================================
