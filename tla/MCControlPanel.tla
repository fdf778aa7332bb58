--------------------------- MODULE MCControlPanel ---------------------------
(* Model values and the default tools for the runs of ControlPanel.        *)
EXTENDS ControlPanel

CONSTANTS v1, v2

\* As in settings.json: one variable is shown at first, in a table and a card.
TableAndCard == (v1 :> <<"TABLE", "CARD">>)
=============================================================================
