---------------------------- MODULE MCMultiPart ----------------------------
(* TLC instances of MultiPart. *)
EXTENDS MultiPart

\* Nothing at all, less than a chunk, a chunk and more, two yields.
MCContents == {<<>>, <<<<"a">>>>, <<<<"a", "b", "c">>>>, <<<<"a", "b">>, <<"c", "d">>>>}
=============================================================================
