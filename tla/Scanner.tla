------------------------------ MODULE Scanner ------------------------------
(***************************************************************************)
(* ebi_scan of ebi_compiler.c: which token begins at src_ptr, where its    *)
(* text lies, which symbol it has and where src_ptr is afterwards, called  *)
(* until the source ends or a token cannot be read.                        *)
(*                                                                         *)
(* A source is a sequence of bytes.  String literals, whose loop in the    *)
(* code is not finished (an escape is never passed), are left out.  The    *)
(* bytes of a name go to ebi_utf8_decode as char, which the compiler has   *)
(* signed or unsigned: a build is one of the two.                          *)
(***************************************************************************)
EXTENDS Utf8, IdentCache

CONSTANTS
    Sources,    \* the sources that are scanned
    Builds,     \* whether char is signed, in the builds there are
    Null        \* the symbol of a token that has none

\* There are no string literals in them.
ASSUME SourcesAssumption == \A s \in Sources : s \in Seq((0..255) \ {\h22})

ASSUME BuildsAssumption == Builds \subseteq BOOLEAN

VARIABLES
    signed_char,    \* the build: its char is signed
    src,            \* the bytes of the source
    src_ptr,        \* ep->src_ptr, the first byte being 1
    token,          \* ep->token and the place of its text
    prev_token      \* ep->prev_token, which the parser takes names from

vars == <<signed_char, src, src_ptr, token, prev_token, cacheVars>>

Blanks == {\h09, \h0b, \h0c, \h0d, \h20}

Errors == {"ERROR_BAD_TOKEN", "ERROR_BAD_UTF8"}

\* Not a type of the code: what the scanner did is not defined.
Undefined == "UNDEFINED"

\* A byte of the source, or what is read at its end.
Byte(i) == IF i \in DOMAIN src THEN src[i] ELSE 0

\* The first byte from i on that is no blank.
SkipBlanks(i) == Min({j \in i..i + Len(src) : Byte(j) \notin Blanks})

-----------------------------------------------------------------------------
\* Identifiers.

\* Mutant: a char is converted to its byte.
OutsideTableNever(byte) == FALSE

\* A signed char below 0 becomes a uint32_t of 0xffffff80 or more, and that is
\* the index with which ebi_utf8_decode reads its table of 400 bytes.
OutsideTable(byte) == signed_char /\ byte >= \h80

\* Not a state of the automaton: one read from outside the table.
NoState == 9

Decode(u8, byte) ==
    IF OutsideTable(byte) THEN [state |-> NoState, codep |-> 0] ELSE ebi_utf8_decode(u8, byte)

\* The loop over the bytes of an identifier: it stops at a byte that is not
\* UTF-8, or at the last byte of a character that no identifier has.  Behind a
\* read outside the table nothing is followed.
IdentLoop[i \in Nat] == [before \in Decoders |->
    LET u8 == Decode(before, Byte(i))
    IN  IF \/ u8.state \in {Reject, NoState}
           \/ u8.state = Accept /\ ~ebi_is_identifier(u8.codep)
          THEN [stop |-> i, state |-> u8.state]
          ELSE IdentLoop[i + 1][u8] ]

IdentEnd(from) == IdentLoop[from][[state |-> Accept, codep |-> 0]]

\* ebi_kw_map, found by the hash of the text.
KwClass  == <<99, 108, 97, 115, 115>>
KwDef    == <<100, 101, 102>>
KwReturn == <<114, 101, 116, 117, 114, 110>>
KwLet    == <<108, 101, 116>>
KwStruct == <<115, 116, 114, 117, 99, 116>>

ebi_kw_map ==
    [text \in {KwClass, KwDef, KwReturn, KwLet, KwStruct} |->
       CASE text = KwClass  -> "KW_CLASS"
         [] text = KwDef    -> "KW_DEF"
         [] text = KwReturn -> "KW_RETURN"
         [] text = KwLet    -> "KW_LET"
         [] OTHER           -> "KW_STRUCT"]

\* Mutant: src_ptr goes back to the last byte of the text.
ScanIdentBack(from) ==
    LET stop == IdentEnd(from).stop
    IN  [from |-> from, to |-> IF stop = from THEN stop ELSE stop - 1,
         type |-> IF stop = from THEN "ERROR_BAD_TOKEN" ELSE "IDENT"]

\* The default case of the switch: everything before that byte is the text.
ScanIdent(from) ==
    LET end  == IdentEnd(from)
        text == SubSeq(src, from, end.stop - 1)
    IN  [from |-> from, to |-> end.stop,
         type |-> IF end.state = NoState THEN Undefined
                  ELSE IF end.state = Reject THEN "ERROR_BAD_UTF8"
                  ELSE IF end.stop = from THEN "ERROR_BAD_TOKEN"
                  ELSE IF text \in DOMAIN ebi_kw_map THEN ebi_kw_map[text]
                  ELSE "IDENT"]

-----------------------------------------------------------------------------
Digits == \h30..\h39

\* Tokens of one byte.
SingleTypes ==
    [c \in {0, \h0a, \h3b, \h2e, \h3a, \h2c, \h28, \h29, \h7b, \h7d, \h5b, \h5d} \cup Digits |->
       CASE c = 0             -> "FILE_END"
         [] c \in {\h0a, \h3b} -> "LINE_END"
         [] c = \h2e          -> "DOT"
         [] c = \h3a          -> "COLON"
         [] c = \h2c          -> "COMMA"
         [] c = \h28          -> "LPAREN"
         [] c = \h29          -> "RPAREN"
         [] c = \h7b          -> "LCURLY"
         [] c = \h7d          -> "RCURLY"
         [] c = \h5b          -> "LSQUARE"
         [] c = \h5d          -> "RSQUARE"
         [] OTHER             -> "NUMBER"]

\* The types of the operators, without and with an "=" behind.
OperatorTypes ==
    [c \in {\h2b, \h2d, \h2a, \h2f, \h25, \h3c, \h3e, \h21, \h3d} |->
       CASE c = \h2b -> <<"ADD", "ADD_ASSIGN">>
         [] c = \h2d -> <<"SUB", "SUB_ASSIGN">>
         [] c = \h2a -> <<"MUL", "MUL_ASSIGN">>
         [] c = \h2f -> <<"DIV", "DIV_ASSIGN">>
         [] c = \h25 -> <<"MOD", "MOD_ASSIGN">>
         [] c = \h3c -> <<"LT", "LT_EQ">>
         [] c = \h3e -> <<"GT", "GT_EQ">>
         [] c = \h21 -> <<"NOT", "NOT_EQ">>
         [] OTHER    -> <<"ASSIGN", "EQUAL">>]

\* Mutant: the bytes after the operator are not looked at.
ScanTokenShort(from, nc, nc_eq) ==
    LET c == Byte(from)
        Token(type, n) == [from |-> from, to |-> from + n, type |-> type]
    IN  IF c \in DOMAIN SingleTypes THEN Token(SingleTypes[c], 1)
        ELSE IF c \in DOMAIN OperatorTypes THEN Token(OperatorTypes[c][1], 1)
        ELSE ScanIdent(from)

\* The switch over the first byte; nc is the byte after it.  A number is one
\* digit.
ScanToken(from, nc, nc_eq) ==
    LET c == Byte(from)
        Token(type, n) == [from |-> from, to |-> from + n, type |-> type]
    IN  IF c \in DOMAIN SingleTypes THEN Token(SingleTypes[c], 1)
        ELSE IF c = \h3d /\ nc = \h3e THEN Token("RD_ARROW", 2)
        ELSE IF c \in DOMAIN OperatorTypes
          THEN IF nc_eq THEN Token(OperatorTypes[c][2], 2) ELSE Token(OperatorTypes[c][1], 1)
        ELSE ScanIdent(from)

\* Mutant: nc is not read again while blanks are skipped.
ScannedStale ==
    LET from == SkipBlanks(src_ptr)
    IN  ScanToken(from, Byte(src_ptr + 1), Byte(src_ptr + 1) = \h3d)

\* nc_eq is computed before the blanks are skipped, from the byte after the
\* first one.
Scanned ==
    LET from == SkipBlanks(src_ptr)
    IN  ScanToken(from, Byte(from + 1), Byte(src_ptr + 1) = \h3d)

Text(tok) == SubSeq(src, tok.from, tok.to - 1)

\* An identifier gets its symbol from the cache, other tokens have none.
ebi_scan ==
    /\ token.type \notin Errors \cup {"FILE_END", Undefined}
    /\ LET tok == Scanned
       IN  /\ src_ptr' = tok.to
           /\ token' = [from |-> tok.from, to |-> tok.to, type |-> tok.type,
                         symbol |-> IF tok.type = "IDENT" THEN Symbol(Text(tok)) ELSE Null]
           /\ IF tok.type = "IDENT" THEN ebi_compiler_intern(Text(tok))
                                    ELSE UNCHANGED cacheVars
    /\ prev_token' = token
    /\ UNCHANGED <<signed_char, src>>

\* ebi_parse: nothing has been scanned.
NullToken == [from |-> 1, to |-> 1, type |-> "NULL", symbol |-> Null]

Init ==
    /\ signed_char \in Builds
    /\ src \in Sources
    /\ src_ptr = 1
    /\ token = NullToken
    /\ prev_token = NullToken
    /\ CacheInit

Spec == Init /\ [][ebi_scan]_vars

-----------------------------------------------------------------------------
(***************************************************************************)
(* Properties                                                              *)
(***************************************************************************)

\* Only an error (or what is not defined) leaves src_ptr where it was, so that
\* a parser that takes tokens reaches the end of the source or an error; and
\* the text of a token lies between the two positions, behind blanks only.
ScanAdvances ==
    [][ /\ token'.to > src_ptr \/ token'.type \in Errors \cup {Undefined}
        /\ token'.from \in src_ptr..token'.to
        /\ \A i \in src_ptr..token'.from - 1 : src[i] \in Blanks ]_vars

\* The value of a character of one to four bytes, and the bytes of a value.
Value(bytes) ==
    LET Low(i) == bytes[i] % 64
    IN  IF Len(bytes) = 1 THEN bytes[1] % 128
        ELSE IF Len(bytes) = 2 THEN 64 * (bytes[1] % 32) + Low(2)
        ELSE IF Len(bytes) = 3 THEN 4096 * (bytes[1] % 16) + 64 * Low(2) + Low(3)
        ELSE 262144 * (bytes[1] % 8) + 4096 * Low(2) + 64 * Low(3) + Low(4)

Encoding(c) ==
    IF c < \h80 THEN <<c>>
    ELSE IF c < \h800 THEN <<\hc0 + (c \div 64), \h80 + (c % 64)>>
    ELSE IF c < \h10000
      THEN <<\he0 + (c \div 4096), \h80 + ((c \div 64) % 64), \h80 + (c % 64)>>
    ELSE <<\hf0 + (c \div 262144), \h80 + ((c \div 4096) % 64),
           \h80 + ((c \div 64) % 64), \h80 + (c % 64)>>

\* The values of characters: no surrogate is one.
ScalarValues == {c \in Nat : c <= \h10ffff /\ (c < \hd800 \/ c > \hdfff)}

\* What Unicode calls well-formed: the encoding of such a value.
WellFormed(bytes) ==
    Value(bytes) \in ScalarValues /\ bytes = Encoding(Value(bytes))

\* The characters of which the stops tell whether a name may have them.
Searched == \h100..\hffff

StopsIn(S) == {i \in DOMAIN ebi_ident_binary_stops : ebi_ident_binary_stops[i] \in S}

\* What the comment before the stops defines as valid: at each one the range
\* switches between not included, as which it starts, and included.  One that
\* is there twice (U+2070) switches nothing.
InValidRange(c) == Cardinality(StopsIn(0..c)) % 2 = 1
IsSwitch(c)     == Cardinality(StopsIn({c})) % 2 = 1

\* The code has it the other way round, save at the stops themselves: a name
\* may have the characters between the ranges but not the first behind each,
\* and of a range only the first.
BelongsToIdentifier(bytes) ==
    LET c == Value(bytes)
    IN  WellFormed(bytes) /\ IF c \in Searched THEN InValidRange(c) <=> IsSwitch(c)
                                               ELSE ebi_is_identifier(c)

\* How many of the first bytes of a text can be a sequence of such characters.
IdentifierLengths(text) ==
    LET fits[i \in 0..Len(text)] ==
          i = 0 \/ \E n \in 1..4 : /\ n <= i
                                  /\ BelongsToIdentifier(SubSeq(text, i - n + 1, i))
                                  /\ fits[i - n]
    IN  {i \in 0..Len(text) : fits[i]}

\* The type of the token a text is, if it is one and no identifier.
TextType(text) ==
    LET c == text[1]
    IN  IF text \in DOMAIN ebi_kw_map THEN ebi_kw_map[text]
        ELSE IF text = <<\h3d, \h3e>> THEN "RD_ARROW"
        ELSE IF c \in DOMAIN SingleTypes /\ text = <<c>> THEN SingleTypes[c]
        ELSE IF c \in DOMAIN OperatorTypes /\ text = <<c>> THEN OperatorTypes[c][1]
        ELSE IF c \in DOMAIN OperatorTypes /\ text = <<c, \h3d>> THEN OperatorTypes[c][2]
        ELSE "IDENT"

\* How long the texts are that begin a rest of the source and are tokens.
TokenLengths(rest) ==
    {n \in 1..Len(rest) : TextType(SubSeq(rest, 1, n)) # "IDENT"} \cup
    {n \in IdentifierLengths(rest) : n > 0 /\ rest[1] \notin Digits}

\* The longest text that is a token at p.  A name also takes, of a character of
\* several bytes right behind it that no name has, all bytes but the last.
NameBegins(p) == src[p] \notin DOMAIN SingleTypes \cup DOMAIN OperatorTypes

LongestToken(p) ==
    LET rest   == SubSeq(src, p, Len(src))
        length == Max({0} \cup TokenLengths(rest))
        tail   == {n \in 1..3 : /\ NameBegins(p)
                                /\ length + n < Len(rest)
                                /\ WellFormed(SubSeq(rest, length + 1, length + n + 1))}
    IN  SubSeq(rest, 1, length + Max({0} \cup tail))

\* Behind blanks an operator is one byte long: what it could be joined with was
\* looked for behind the first of them.  An "=" behind one blank finds itself,
\* and is taken for "==" with whatever comes next.  Only "=>" is found there.
BehindBlanks(p) == p # src_ptr /\ src[p] \in DOMAIN OperatorTypes
                     /\ ~(src[p] = \h3d /\ Byte(p + 1) = \h3e)

\* The scanner takes the longest text that is a token, and gives it its type,
\* except for operators behind blanks; no text at all is a bad token.
TakesLongestToken ==
    [][ \A p \in DOMAIN src :
          LET text == LongestToken(p)
              Takes(n, type) == token'.to = p + n /\ token'.type = type
          IN  p = token'.from /\ token'.type \notin {"ERROR_BAD_UTF8", Undefined} =>
                IF BehindBlanks(p)
                  THEN IF src[p] = \h3d /\ p = src_ptr + 1
                         THEN Takes(2, "EQUAL")
                         ELSE Takes(1, OperatorTypes[src[p]][1])
                  ELSE Takes(Len(text), IF text = <<>> THEN "ERROR_BAD_TOKEN" ELSE TextType(text))
      ]_vars

\* Where char is unsigned, a source is refused as bad UTF-8 exactly where no
\* well-formed character follows those of an identifier: no overlong form, no
\* surrogate, nothing above U+10FFFF and no character cut off by the end passes,
\* and none that is well-formed is refused.  Where it is signed no source is
\* refused, and what the scanner does is undefined exactly where a byte that is
\* not ASCII follows the ASCII characters of an identifier.
RefusesOnlyBadUtf8 ==
    [][ \A p \in DOMAIN src :
          LET rest == SubSeq(src, p, Len(src))
              end == p + Max(IdentifierLengths(rest))
          IN  p = token'.from /\ NameBegins(p) =>
                /\ token'.type = "ERROR_BAD_UTF8" <=>
                     /\ ~signed_char
                     /\ end <= Len(src)
                     /\ \A n \in 1..4 : end + n - 1 <= Len(src) =>
                          ~WellFormed(SubSeq(src, end, end + n - 1))
                /\ token'.type = Undefined <=>
                     /\ signed_char
                     /\ \E n \in IdentifierLengths(rest) :
                          /\ Byte(p + n) >= \h80
                          /\ \A i \in p..p + n - 1 : src[i] < \h80 ]_vars

\* A name has the symbol of its own text, whatever other names share its hash
\* or its place in the cache, and keeps it while the next token is read; other
\* tokens have none.
SymbolIsOfItsText ==
    \A tok \in {token, prev_token} :
      tok.symbol = IF tok.type = "IDENT" THEN Text(tok) ELSE Null
=============================================================================
