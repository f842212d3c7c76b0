------------------------------ MODULE MCKeyPath -------------------------------
(***************************************************************************)
(* The key path with a few keys: typed one at a time, or with rollover.    *)
(***************************************************************************)
EXTENDS KeyPath

OneByOne == [keys |-> {"D", "E", "R"}, overlap |-> FALSE]
Together == [keys |-> {"E", "R", "arrow"}, overlap |-> TRUE]

AllTypists == {OneByOne, Together}
Careful == {OneByOne}
=============================================================================
