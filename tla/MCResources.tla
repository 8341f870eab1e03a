----------------------------- MODULE MCResources -----------------------------
EXTENDS Resources, TLC

\* One word, and two others.
TwoContents == {<<1>>, <<2, 3>>}

\* Texts of one and of two characters.
TwoTexts == {<<1>>, <<2, 3>>}

\* Texts that are addresses, and texts that are short, long, too large, end in a dot (-1) or
\* hold something else (-2); 256 and 130 stand for a number that is 0 in a word of four
\* bytes, and for one that is negative.
NineTexts ==
  {<<0, -1, 1, -1, 2, -1, 3>>, <<3, -1, 3, -1, 3, -1, 3>>, <<1, -1, 2, -1, 0, -1, 4>>,
   <<1, -1, 2, -1, 3, -1>>,
   <<1, -1, 2, -1, 3, -1, 0, -1, 1>>, <<1, -1, 2, -1, 3, -1, 0, -2>>,
   <<2, -1, 7>>,
   <<256, -1, 1, -1, 2, -1, 3>>, <<1, -1, 2, -1, 3, -1, 130>>}

\* What is sent on a connection: more on Windows, where the last cleanup ends it.
WordsOf ==
  [p \in {"linux_appl", "linux_drv", "vxworks", "ecos", "win32", "nucleus", "rtems", "generic"} |->
    IF p = "win32" THEN 2 ELSE 1]

Symmetry == Permutations(Pair)
=============================================================================
