------------------------------ MODULE Listener ------------------------------
(***************************************************************************)
(* What a server of this program promises to whoever starts it and shuts   *)
(* it down, whatever it does with a connection: how many clients it        *)
(* serves, when it listens, and when it calls back after shutdown.  The    *)
(* WebSocket server and the HTTP server both implement it.                 *)
(***************************************************************************)
EXTENDS Integers, FiniteSets

CONSTANTS
  Clients,   \* the clients that can ever connect, each of them once; finite
  Limit      \* how many are served at a time, a number; 0: no limit

VARIABLES
  serving,    \* the clients that are being served
  served,     \* those that have been served
  listening,  \* a further client may connect
  draining,   \* shutdown was called
  callbacks   \* how often its callback has been called

vars == <<serving, served, listening, draining, callbacks>>

Init ==
  /\ serving = {} /\ served = {}
  /\ listening = FALSE /\ draining = FALSE /\ callbacks = 0

Full(clients) == Limit # 0 /\ Cardinality(clients) >= Limit

\* The callback is called by the step after which nothing is left to wait for.
Finish == callbacks' = IF serving' = {} /\ ~listening' THEN 1 ELSE 0

Listen ==
  /\ ~listening /\ ~draining /\ ~Full(serving)
  /\ listening' = TRUE
  /\ UNCHANGED <<serving, served, draining, callbacks>>

Connect(c) ==
  /\ listening /\ ~draining /\ c \notin serving \cup served
  /\ serving' = serving \cup {c}
  /\ listening' = ~Full(serving')
  /\ UNCHANGED <<served, draining, callbacks>>

\* The listener fails, or it ends because of the shutdown.
StopListening ==
  /\ listening
  /\ listening' = FALSE
  /\ UNCHANGED <<serving, served, draining>>
  /\ IF draining THEN Finish ELSE UNCHANGED callbacks

\* A client leaves, and a server with a limit listens again.
Leave(c) ==
  /\ c \in serving
  /\ serving' = serving \ {c} /\ served' = served \cup {c}
  /\ listening' = (listening \/ (~draining /\ Limit # 0))
  /\ UNCHANGED draining
  /\ IF draining THEN Finish ELSE UNCHANGED callbacks

Drain ==
  /\ ~draining
  /\ draining' = TRUE
  /\ UNCHANGED <<serving, served, listening>>
  /\ Finish

Next ==
  \/ Listen \/ StopListening \/ Drain
  \/ \E c \in Clients : Connect(c) \/ Leave(c)

Spec == Init /\ [][Next]_vars
=============================================================================
