----------------------------- MODULE MCLoginFlow -----------------------------
(***************************************************************************)
(* Small instances of LoginFlow: two people at one browser, whose requests *)
(* overlap with other pages and with what staff change.                    *)
(***************************************************************************)
EXTENDS LoginFlow

CONSTANTS q1, b1

OneBrowser == [q \in {q1} |-> b1]

=============================================================================
