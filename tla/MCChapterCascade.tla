-------------------------- MODULE MCChapterCascade --------------------------
(***************************************************************************)
(* ChapterCascade on small instances.  Snippet ids are interchangeable.    *)
(***************************************************************************)
EXTENDS ChapterCascade, TLC

SnippetSymmetry == Permutations(Snippets)
=============================================================================
