------------------------------ MODULE MCBrowser ------------------------------
(***************************************************************************)
(* Browser while GitHub gives a list.                                      *)
(***************************************************************************)
EXTENDS Browser

GoodOnly == {[sent |-> TRUE, status |-> 200, body |-> "json", errors |-> "none",
              retry |-> FALSE]}
=============================================================================
