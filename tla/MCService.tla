----------------------------- MODULE MCService -----------------------------
(***************************************************************************)
(* The instance of Service that TLC checks: the parts are torn down in the *)
(* order in which they were set up, or in the reverse order.               *)
(***************************************************************************)
EXTENDS Service

MCTeardowns == {<<"queue", "pool", "api">>, <<"api", "pool", "queue">>}
MCRequested == [h \in Handlers |-> CHOOSE r \in RunIDs : TRUE]
=============================================================================
