-------------------------- MODULE MCGithubAutomation --------------------------
(* An instance of GithubAutomation for TLC.                                *)
EXTENDS GithubAutomation

CONSTANTS c1, c2

TwoCallers == {c1, c2}
=============================================================================
