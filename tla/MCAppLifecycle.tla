--------------------------- MODULE MCAppLifecycle ---------------------------
(* Instance of AppLifecycle for TLC: two turns that write the same file, *)
(* or two processes that open a database of any age.                     *)
EXTENDS AppLifecycle

MCTurns == {1, 2}
MCOldModes == {"0644"}
MCServers == {"s1"}
MCOthers == {"other"}
MCProcs == {"self", "other"}

=============================================================================
