-------------------------------- MODULE Utf8 --------------------------------
(***************************************************************************)
(* The UTF-8 automaton of ebi_compiler.c and the characters it lets an     *)
(* identifier have.                                                        *)
(***************************************************************************)
EXTENDS Integers, Sequences

Accept == 0     \* EBI_UTF8_ACCEPT
Reject == 1     \* EBI_UTF8_REJECT

\* The first half of ebi_utf8d: bytes that move the automaton alike.  The
\* number of a type from 2 to 6 and of 10 and 11 is also how many of the
\* highest bits of a first byte do not belong to the character.
ByteType(byte) ==
    CASE byte < \h80                                    -> 0
      [] byte \in \h80..\h8f                            -> 1
      [] byte \in \h90..\h9f                            -> 9
      [] byte \in \ha0..\hbf                            -> 7
      [] byte \in \hc2..\hdf                            -> 2
      [] byte = \he0                                    -> 10
      [] byte \in (\he1..\hef) \ {\hed}                 -> 3
      [] byte = \hed                                    -> 4
      [] byte = \hf0                                    -> 11
      [] byte \in \hf1..\hf3                            -> 6
      [] byte = \hf4                                    -> 5
      [] OTHER                                          -> 8

\* The second half: row s0 in full, of the others the types that do not
\* reject and the one state they lead to.
StartRow == <<0, 1, 2, 3, 5, 8, 7, 1, 1, 1, 4, 6>>

Row(state) ==
    CASE state = 2 -> [types |-> {1, 7, 9}, to |-> 0]
      [] state = 3 -> [types |-> {1, 7, 9}, to |-> 2]
      [] state = 4 -> [types |-> {7},       to |-> 2]
      [] state = 5 -> [types |-> {1, 9},    to |-> 2]
      [] state = 6 -> [types |-> {7, 9},    to |-> 3]
      [] state = 7 -> [types |-> {1, 7, 9}, to |-> 3]
      [] state = 8 -> [types |-> {1},       to |-> 3]
      [] OTHER     -> [types |-> {},        to |-> Reject]

\* How many values the bits have that 0xff >> type leaves, by type.
Span == <<256, 128, 64, 32, 16, 8, 4, 2>>

\* The state of the automaton and the bits of the character so far.
Decoders == [state : 0..8, codep : Nat]

\* Mutant: the rows of ED and F4 are those of any byte of their length, so
\* surrogates and what is above U+10FFFF are accepted.
ebi_utf8_decode_lax(u8, byte) ==
    LET type == ByteType(byte)
        lax  == CASE type = 4 -> 3 [] type = 5 -> 6 [] OTHER -> type
    IN  [state |-> IF u8.state = Accept THEN StartRow[lax + 1]
                   ELSE IF type \in Row(u8.state).types THEN Row(u8.state).to
                   ELSE Reject,
         codep |-> IF u8.state # Accept THEN (byte % 64) + 64 * u8.codep
                   ELSE IF type < 8 THEN byte % Span[type + 1] ELSE 0]

\* One byte more; a character begins in state Accept.
ebi_utf8_decode(u8, byte) ==
    LET type == ByteType(byte)
    IN  [state |-> IF u8.state = Accept THEN StartRow[type + 1]
                   ELSE IF type \in Row(u8.state).types THEN Row(u8.state).to
                   ELSE Reject,
         codep |-> IF u8.state # Accept THEN (byte % 64) + 64 * u8.codep
                   ELSE IF type < 8 THEN byte % Span[type + 1] ELSE 0]

-----------------------------------------------------------------------------
\* ebi_ident_char_dense_bits as the set of the bits that are 1.
DenseChars ==
    (\h30..\h39) \cup (\h41..\h5a) \cup (\h61..\h7a) \cup
    {\ha8, \haa, \had, \haf} \cup (\hb2..\hb5) \cup (\hb7..\hba) \cup
    (\hbc..\hbe) \cup ((\hc0..\hff) \ {\hd7, \hf7})

ebi_ident_binary_stops == <<
    \h0100, \h1680, \h1681, \h180e, \h180f, \h2000, \h200b, \h200e,
    \h202a, \h202f, \h203f, \h2041, \h2054, \h2055, \h2060, \h2070,
    \h2070, \h2190, \h2460, \h2500, \h2776, \h2794, \h2c00, \h2e00,
    \h2e80, \h3000, \h3004, \h3008, \h3021, \h3030, \h3031, \hd800,
    \hf900, \hfd3e, \hfd40, \hfdd0, \hfdf0, \hfe45, \hfe47, \hfffe >>

\* Mutant: the upper end comes too close.
SearchStopsShort(codep) ==
    LET search[lo \in 0..Len(ebi_ident_binary_stops)] ==
          [hi \in 0..Len(ebi_ident_binary_stops) |->
             LET mid == (lo + hi) \div 2
             IN  IF lo >= hi THEN lo
                 ELSE IF ebi_ident_binary_stops[mid + 1] < codep THEN search[mid + 1][hi]
                 ELSE search[lo][IF mid > lo THEN mid - 1 ELSE lo] ]
    IN  search[0][Len(ebi_ident_binary_stops)]

\* The binary search: what lo is in the end.
SearchStops(codep) ==
    LET search[lo \in 0..Len(ebi_ident_binary_stops)] ==
          [hi \in 0..Len(ebi_ident_binary_stops) |->
             LET mid == (lo + hi) \div 2
             IN  IF lo >= hi THEN lo
                 ELSE IF ebi_ident_binary_stops[mid + 1] < codep THEN search[mid + 1][hi]
                 ELSE search[lo][mid] ]
    IN  search[0][Len(ebi_ident_binary_stops)]

\* An even number of stops below the character makes it one of an identifier:
\* not the parity that the comment before the table describes.
ebi_is_identifier(codep) ==
    \/ codep < \h100 /\ codep \in DenseChars
    \/ codep >= \h100 /\ codep < \h10000 /\ SearchStops(codep) % 2 = 0
    \/ codep >= \h10000 /\ codep < \hf0000 /\ codep % \h10000 <= \hfffd
=============================================================================
