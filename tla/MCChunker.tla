----------------------------- MODULE MCChunker -----------------------------
EXTENDS Chunker, SequencesExt

\* Every short text over the bytes that decide where a window is cut, and longer
\* ones of narrow and wide characters.
CONSTANTS Longest, LongestWide

Words(alphabet, n) == UNION {[1 .. k -> alphabet] : k \in 0 .. n}

MCTexts == Words({"letter", "stop", "space", "newline"}, Longest)
           \cup {FlattenSeq(w) : w \in Words({<<"letter">>, <<"space">>, <<"lead", "tail">>}, LongestWide)}

MCSizes == {0, 3, 6}
MCOverlaps == {-1, 0, 2, 5}
=============================================================================
