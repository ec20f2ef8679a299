------------------------------ MODULE FilesData ------------------------------
(* Small inputs for the tools on files: trees to search, files to page        *)
(* through, and diffs. TLC evaluates what a cfg gives a constant at every use, *)
(* but what that definition names only once: hence the All... of this module.  *)
EXTENDS Naturals, Sequences, FiniteSets, SequencesExt, TLC

(* Search.                                                                    *)

Node(in, is, fits, lines) == [in |-> in, is |-> is, fits |-> fits, lines |-> lines]

AllTrees ==
  {<<Node(<<>>, "dir", FALSE, {}), Node(<<1>>, "text", TRUE, {1}), Node(<<1>>, "text", TRUE, {2})>>,
   <<Node(<<>>, "dir", FALSE, {}), Node(<<1>>, "text", TRUE, {1, 2, 3}),
     Node(<<1>>, "dir", FALSE, {}), Node(<<1, 3>>, "text", TRUE, {1}),
     Node(<<>>, "text", TRUE, {2, 4}), Node(<<>>, "link", TRUE, {})>>,
   <<Node(<<>>, "excluded", FALSE, {}), Node(<<1>>, "text", TRUE, {1}),
     Node(<<>>, "locked", FALSE, {}), Node(<<3>>, "text", TRUE, {1}),
     Node(<<>>, "binary", TRUE, {1}), Node(<<>>, "text", FALSE, {1}),
     Node(<<>>, "runtime", FALSE, {}), Node(<<7>>, "text", TRUE, {1})>>,
   <<Node(<<>>, "large", TRUE, {5}), Node(<<>>, "special", TRUE, {}),
     Node(<<>>, "dir", FALSE, {}), Node(<<3>>, "locked", FALSE, {}),
     Node(<<3, 4>>, "text", TRUE, {1}), Node(<<3>>, "text", TRUE, {1, 2}),
     Node(<<3>>, "unreadable", TRUE, {1}), Node(<<>>, "text", TRUE, {})>>}

SomeTrees == AllTrees

AllCaps ==
  [hits : {1, 2, 4}, perFile : {1, 2}, files : {1, 2, 9}, entries : {1, 2, 9}, depth : 0 .. 2]

SomeCaps == AllCaps

(* Paging.                                                                    *)

AllTexts == SeqOf({"x", "r", "n"}, 5)
Characters == AllTexts
SomeWindows == {[first |-> 1, last |-> 1], [first |-> 1, last |-> 3], [first |-> 2, last |-> 3]}

(* Patch: files with one line end, with two, and without a last one; diffs of  *)
(* one and two hunks, misplaced and overlapping ones among them.              *)

L(text, end) == [text |-> text, end |-> end]

AllFiles ==
  {<<L("a", x), L("b", x), L("a", y)>> : x \in {"lf", "crlf"}, y \in {"lf", "crlf", "none"}}
  \cup {<<L("a", "lf"), L("b", "none")>>, <<>>}

SomeFiles == AllFiles

Lf(texts) == [i \in DOMAIN texts |-> L(texts[i], "lf")]
Hunk(start, old, new) == [start |-> start, old |-> Lf(old), new |-> Lf(new)]

SomeHunks ==
  {Hunk(s, old, new) : s \in 0 .. 3, old \in {<<>>, <<"a">>, <<"b">>, <<"a", "b">>},
                       new \in {<<"x">>, <<"a", "y">>}}
  \cup {Hunk(s, <<"a">>, <<>>) : s \in 1 .. 3}

\* The same hunk at the end of a diff that does not end with a line end.
CutOff(h) == [h EXCEPT !.new[Len(h.new)].end = "none"]

AllDiffs ==
  {<<>>} \cup {<<h>> : h \in SomeHunks} \cup {<<h, k>> : h, k \in SomeHunks}
  \cup {<<CutOff(h)>> : h \in {h \in SomeHunks : h.new # <<>>}}

SomeDiffs == AllDiffs

==============================================================================
