------------------------- MODULE MCResourceControl --------------------------
(***************************************************************************)
(* Two callers.  The first runs an execution or makes links; the second    *)
(* runs the same execution or another, replaces the payload or makes a     *)
(* lifecycle change.  The third token is for a payload between two         *)
(* executions of one request.                                              *)
(***************************************************************************)
EXTENDS ResourceControl

CONSTANTS c1, c2, b1, b2

MCJobs ==
    [c \in Callers |->
        IF c = c1 THEN {<<"execution", b1>>, <<"links", None>>}
        ELSE {<<"execution", b1>>, <<"execution", b2>>, <<"payload", None>>, <<"lifecycle", None>>}]

=============================================================================
