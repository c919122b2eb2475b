--------------------------- MODULE MCVectorMemory ---------------------------
(* Four embedders.  Two servers behind the OpenAI-compatible configuration cannot *)
(* be told apart; "ada" has vectors of their size and another name, "dumb" has     *)
(* their name and another size.                                                    *)
EXTENDS VectorMemory

Sizes == [e \in {"dumb", "ada", "url1", "url2"} |-> IF e = "dumb" THEN 2 ELSE 1]

Models == [e \in {"dumb", "ada", "url1", "url2"} |-> IF e = "ada" THEN "ada" ELSE "default_embedder"]

Classes == [e \in {"dumb", "ada", "url1", "url2"} |-> IF e \in {"url1", "url2"} THEN "custom" ELSE e]
=============================================================================
