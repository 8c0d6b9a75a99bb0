-------------------------- MODULE MCKnowledgeSync --------------------------
(***************************************************************************)
(* Instances of KnowledgeSync for TLC: a space of three nodes and two      *)
(* documents, "a" and "b".  Node 1 is a folder, node 2 lies in it, node 3  *)
(* is a second place of document "a".                                      *)
(***************************************************************************)
EXTENDS KnowledgeSync, TLC

TreeNodes == 1..3
TreeDocs == {"a", "b"}
TreePages == [n \in TreeNodes |-> 1]
TreePlace == <<0, 1, 0>>
TreeTarget == <<"a", "b", "a">>
TreeForeign == [n \in TreeNodes |-> FALSE]

\* One document at one node, for the interleavings of two workers.
OneNode == 1..1
OneDoc == {"a"}
OnePages == <<1>>
OnePlace == <<0>>
OneTarget == <<"a">>
OneForeign == <<FALSE>>

\* The two workers run the same program.
Alike == Permutations(Workers)

\* Two pages at the root; node 3 may come in from another space, as a node too
\* many; document "b" is not a docx.
TwoPages == <<1, 1, 2>>
GuestPlace == <<0, 1, Elsewhere>>
TextDocs == {"a"}

\* Node 3 is a shortcut to another space.
ShortcutTarget == <<"a", "a", "b">>
ShortcutForeign == <<FALSE, FALSE, TRUE>>
=============================================================================
