-------------------------- MODULE MCKnowledgeBase --------------------------
(***************************************************************************)
(* Two bodies a file may have: one of two chunks, the first of them near   *)
(* the question, which its front matter shows to candidates or hides, and  *)
(* an internal one of one chunk that is not near.                          *)
(***************************************************************************)
EXTENDS KnowledgeBase, TLC

MCBody == {"handbook", "rubric"}
MCChunks == [handbook |-> <<"near", "far">>, rubric |-> <<"far">>]
MCDeclared == [handbook |-> {"candidate", "internal"}, rubric |-> {"internal"}]

\* files are alike
Symmetric == Permutations(Uri)

=============================================================================
