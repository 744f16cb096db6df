----------------------------- MODULE MCTransfer -----------------------------
(* A payload of two chunks; a source that agrees with the manifest, one that *)
(* is corrupt in its first chunk and one that  is a chunk too long.          *)
EXTENDS Transfer

MCNodes == {"sender", "receiver"}
MCData == {"a", "b", "x"}
MCManifest == <<"a", "b">>
MCSources == {<<"a", "b">>, <<"x", "b">>, <<"a", "b", "x">>}
MCOneSource == {<<"a", "b">>}
=============================================================================
