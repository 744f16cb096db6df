--------------------------- MODULE MCDistribution ---------------------------
(* Two work packages that share their first chunk, two published artifacts,  *)
(* one of them empty, and one that is not published.                       *)
EXTENDS Distribution

MCNodes == {"local", "remote"}
MCPackages == {[id |-> "w", body |-> <<"a", "b">>], [id |-> "v", body |-> <<"a">>]}
MCPublished == [x \in {"x", "y"} |-> IF x = "x" THEN <<"e">> ELSE << >>]
MCWanted == {"x", "y", "z"}
=============================================================================
