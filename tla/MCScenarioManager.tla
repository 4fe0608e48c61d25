-------------------------- MODULE MCScenarioManager --------------------------
(* A scenario with a test on the time and one on a page. *)
EXTENDS ScenarioManager

CONSTANTS timenow, page

=============================================================================
