----------------------------- MODULE MCGraphJobs -----------------------------
(***************************************************************************)
(* Every asynchronous admin route beside a second one that wipes;          *)
(* and POST /reload only.                                                  *)
(***************************************************************************)
EXTENDS GraphJobs

CONSTANT MCFirst   \* the request that may call every route

MCRoutes ==
    [r \in Requests |-> IF r = MCFirst THEN AsyncRoutes ELSE {"reset"}]

MCReloadsOnly == [r \in Requests |-> {"reload"}]

=============================================================================
