-------------------------- MODULE MCConfigWatcher --------------------------
(* Two valid contents and one that LoadConfig rejects.                     *)
EXTENDS ConfigWatcher

CONSTANTS c1, c2, bad
=============================================================================
