-------------------------------- MODULE Overlap --------------------------------
(* When handlers overlap: a function of the step of each session.             *)
(* The checked instances remember whether it ever happened, so that they can  *)
(* say what holds as long as the server serves one request at a time.         *)
EXTENDS Naturals, FiniteSets

Busy(sessions) == {w \in DOMAIN sessions : sessions[w].step # "idle"}

Overlap(sessions) == Cardinality(Busy(sessions)) > 1

================================================================================
