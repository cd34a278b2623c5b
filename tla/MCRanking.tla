----------------------------- MODULE MCRanking ------------------------------
(***************************************************************************)
(* Ranking on the sample pull requests.                                    *)
(***************************************************************************)
EXTENDS Ranking, SamplePrs

MCPeople == {"", "me", "you"}
=============================================================================
