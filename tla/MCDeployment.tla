---- MODULE MCDeployment ----
(* An instance of Deployment whose two companies employ a namesake. *)
EXTENDS Deployment

MCEmployees == [c \in Companies |-> IF c = "acme" THEN {"kim"} ELSE {"kim", "lee"}]
====
