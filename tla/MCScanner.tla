------------------------------ MODULE MCScanner ------------------------------
(***************************************************************************)
(* The instance of Scanner for TLC: families of sources.                   *)
(***************************************************************************)
EXTENDS Scanner

CONSTANT null

Strings(bytes, length) == UNION {[1..n -> bytes] : n \in 0..length}

\* Blanks, the end of a line, tokens of one byte, operators, and characters of
\* two bytes that may (U+00C0) and that may not (U+00D7, U+0080) be in a name.
Mixed == {\h20, \h0a, \h28, \h2b, \h3d, \h3e, \h30, \h61, \hc3, \h97, \h80}
MixedLong == Mixed \ {\h0a, \h28, \h3e, \h30}

\* The first and last bytes of each length of UTF-8, and what may follow them.
Utf8Bytes == {\h61, \hc1, \hc2, \he0, \he1, \hed, \hf0, \hf4, \hf5,
              \h80, \h8f, \h90, \h9f, \ha0, \hbf}

\* A letter and four bytes of those: a name, and what follows it.
AfterLetter == {<<\h61>> \o bytes : bytes \in [1..4 -> Utf8Bytes \ {\h61}]}

\* A keyword and what is nearly one.
KeywordBytes == {\h6c, \h65, \h74, \h20}

\* Names of one letter with blanks between them; of a, e and i the hash is the
\* same, of c the window wraps.
Names == {\h61, \h62, \h63, \h65, \h69}
NameLists == UNION {{[i \in 1..2 * n |-> IF i % 2 = 0 THEN \h20 ELSE names[(i + 1) \div 2]] :
                      names \in [1..n -> Names]} : n \in 1..5}

MCSources ==
    Strings(Mixed, 4) \cup Strings(MixedLong, 5) \cup Strings(Utf8Bytes, 4)
      \cup AfterLetter \cup Strings(KeywordBytes, 5) \cup NameLists

\* A hash under which many names meet: the sum of the bytes.
MCHash(text) == FoldFunction(+, 0, text)
=============================================================================
