------------------------------ MODULE MCIngest ------------------------------
(***************************************************************************)
(* Instance of Ingest: a plain file of one chunk, a longer one that only a    *)
(* plugin can parse, one page, and an export of two vectors, one of the wrong *)
(* size.                                                                     *)
(***************************************************************************)
EXTENDS Ingest

MCBatches == {[files |-> <<"special">>, size |-> 1],
              [files |-> <<"plain", "special">>, size |-> 2]}

MCType == [plain |-> "text", special |-> "plugin", page |-> "text"]

MCLength == [plain |-> 2, special |-> 4, page |-> 2]

MCVectors == [export |-> {[id |-> 1, fits |-> TRUE], [id |-> 2, fits |-> FALSE]}]
=============================================================================
