---- MODULE MCOpcUaClient ----
(* Two channels, two handles and two variables, one of the first namespace    *)
(* and one of the second whose values cannot be encoded; one read.            *)
EXTENDS OpcUaClient

MCNamespaceOf == [v \in Variables |-> IF v = "second" THEN 2 ELSE 1]
MCRequests == {[kind |-> "read", channel |-> 1]}
====
