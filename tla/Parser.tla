------------------------------- MODULE Parser -------------------------------
(***************************************************************************)
(* The recursive descent parser of ebi_compiler.c.  An activation of an    *)
(* ebi_parse_* function is a location on the stack "calls"; the nodes of   *)
(* all lists that are being parsed lie on one array, temp_asts, and each   *)
(* list is the part of it from the "begin" its function remembers.         *)
(*                                                                         *)
(* Tokens are reduced to their types, and of the types to one of each      *)
(* group the parser does not tell apart (ADD for ADD and SUB, MUL for MUL, *)
(* DIV and MOD, NUMBER for every type no rule mentions).  Nodes are        *)
(* reduced to their ebi_ast_type; what else they hold is not looked at.    *)
(* The source is chosen while it is scanned.                               *)
(*                                                                         *)
(* ebi_perror fails its assertion and stops the program, in every build    *)
(* (ebi_core.h defines ebi_assert without a condition on the build), so    *)
(* the "return false" after it are not reached.                            *)
(***************************************************************************)
EXTENDS Naturals, Sequences, SequencesExt, FiniteSets

CONSTANTS
    MaxTokens,      \* the longest source, in tokens
    MaxStuck,       \* bound on the nodes of a list whose loop does not end
    MinTemps        \* the first size of temp_asts; 16 in the code

ASSUME ParserAssumption ==
    MaxTokens \in Nat \ {0} /\ MaxStuck \in Nat /\ MinTemps \in Nat \ {0}

VARIABLES
    token,          \* ep->token.type
    scans,          \* tokens taken from the source so far
    brackets,       \* history: the brackets accepted and not closed yet
    calls,          \* the C stack, one location per activation
    result,         \* type of the node the last function to return has built
    temp_asts,      \* ep->temp_asts up to ep->num_temp_asts
    max_temp_asts,  \* ep->max_temp_asts
    begins,         \* the locals "begin" of the activations building a list
    nodes           \* the nodes the last ebi_end_ast_list has copied

inputVars == <<token, scans, brackets>>
astVars == <<temp_asts, max_temp_asts, begins, nodes>>
vars == <<inputVars, calls, result, astVars>>

Openers == {"LPAREN", "LSQUARE", "LCURLY"}
Closing == [LPAREN |-> "RPAREN", LSQUARE |-> "RSQUARE", LCURLY |-> "RCURLY"]
Closers == {Closing[b] : b \in Openers}
Tokens == Openers \cup Closers \cup
          {"IDENT", "NUMBER", "LINE_END", "FILE_END", "DOT", "COLON", "COMMA",
           "ADD", "MUL", "DEF", "STRUCT", "RETURN"}

\* A node that no function has written to holds what the stack held before.
Asts == {"BLOCK", "LIST", "STRUCT", "DEF", "PARAM", "NAME", "RETURN", "BINOP",
         "FIELD", "CALL", "uninit"}

Locations ==
    {"block", "block.next", "block.push", "statement", "return", "return.end",
     "struct", "struct.body", "struct.end", "fields", "fields.next",
     "fields.push", "def", "def.return", "def.body", "def.end", "generics",
     "generics.list", "generics.item", "generics.next", "params",
     "params.list", "params.first", "params.push", "params.next", "param",
     "param.colon", "param.push", "type", "type.close", "expression",
     "expression.next", "expression.binop", "term", "term.next", "term.binop",
     "suffix", "suffix.next", "suffix.field", "suffix.call", "atom",
     "atom.close", "args", "args.next", "args.push", "perror"}

-----------------------------------------------------------------------------
\* Calls and tokens.

At(l) == calls # <<>> /\ Last(calls) = l

\* The running activation goes on as the first of ls after those behind it
\* have been called and have returned; if there is none it returns.
Become(ls) == calls' = Front(calls) \o ls

Return == Become(<<>>)

\* A source of at most MaxTokens tokens; its end is scanned again and again.
Scan ==
    /\ token' \in IF token = "FILE_END" \/ scans = MaxTokens THEN {"FILE_END"} ELSE Tokens
    /\ scans' = IF token = "FILE_END" \/ scans = MaxTokens THEN scans ELSE scans + 1
    /\ brackets' =
         IF token \in Closers /\ brackets # <<>> /\ Closing[Last(brackets)] = token
           THEN Front(brackets)
           ELSE IF token \in Openers \cup Closers THEN Append(brackets, token) ELSE brackets

\* ebi_accept has found tt.
Accept(tt) == token = tt /\ Scan

Perror == calls' = Append(calls, "perror") /\ UNCHANGED <<inputVars, result, astVars>>

\* if (!ebi_accept(ep, tt)) ebi_perror(...); and on as ls.
Expect(tt, ls) ==
    \/ Accept(tt) /\ Become(ls) /\ UNCHANGED <<result, astVars>>
    \/ token # tt /\ Perror

\* if (ebi_accept(ep, tt)) on as ls else on as other.
Try(tt, ls, other) ==
    /\ \/ Accept(tt) /\ Become(ls)
       \/ token # tt /\ Become(other) /\ UNCHANGED inputVars
    /\ UNCHANGED <<result, astVars>>

\* The function is done with the node of type ast, and goes on as ls.
Built(ast, ls) == result' = ast /\ Become(ls) /\ UNCHANGED <<inputVars, astVars>>

-----------------------------------------------------------------------------
\* The list on temp_asts.

\* Mutant: a list begins at the newest node.
BeginAtLast ==
    /\ begins' = Append(begins, IF temp_asts = <<>> THEN 0 ELSE Len(temp_asts) - 1)
    /\ UNCHANGED <<temp_asts, max_temp_asts, nodes>>

ebi_begin_ast_list ==
    /\ begins' = Append(begins, Len(temp_asts))
    /\ UNCHANGED <<temp_asts, max_temp_asts, nodes>>

\* Mutant: num_temp_asts is left as it is.
EndKeepsNodes ==
    /\ nodes' = SubSeq(temp_asts, Last(begins) + 1, Len(temp_asts))
    /\ begins' = Front(begins)
    /\ UNCHANGED <<temp_asts, max_temp_asts>>

ebi_end_ast_list ==
    /\ nodes' = SubSeq(temp_asts, Last(begins) + 1, Len(temp_asts))
    /\ temp_asts' = SubSeq(temp_asts, 1, Last(begins))
    /\ begins' = Front(begins)
    /\ UNCHANGED max_temp_asts

\* Mutant: without the least size, 0 * 2 stays 0.
GrownTwice == 2 * max_temp_asts

Grown == IF 2 * max_temp_asts < MinTemps THEN MinTemps ELSE 2 * max_temp_asts

ebi_push_ast_list(ast) ==
    /\ temp_asts' = Append(temp_asts, ast)
    /\ max_temp_asts' = IF Len(temp_asts) = max_temp_asts THEN Grown ELSE max_temp_asts
    /\ UNCHANGED <<begins, nodes>>

Begin(l, next) ==
    At(l) /\ ebi_begin_ast_list /\ Become(<<next>>) /\ UNCHANGED <<inputVars, result>>

End(tt, ast) == Accept(tt) /\ ebi_end_ast_list /\ result' = ast /\ Return

Push(l, ast, ls) ==
    At(l) /\ ebi_push_ast_list(ast) /\ Become(ls) /\ UNCHANGED <<inputVars, result>>

-----------------------------------------------------------------------------
\* The outermost block is the source, every other one is in braces.
\* Mutant: the root block is asked to end at a brace.
BlockEndsInBrace == "RCURLY"

BlockEnd == IF Len(calls) = 1 THEN "FILE_END" ELSE "RCURLY"

\* The loops that do not end: no statement begins with the token and it does
\* not end the block, or no expression begins with it and it does not end the
\* arguments.  Each round pushes a node and takes nothing from the source.
Stuck ==
    \/ /\ At("block.next")
       /\ token \notin {BlockEnd, "LINE_END", "STRUCT", "DEF", "LCURLY", "RETURN"}
    \/ At("args.next") /\ token \notin {"RPAREN", "LPAREN", "IDENT", "DOT", "ADD", "MUL"}

\* Such a loop is followed until its list has MaxStuck nodes.
NotTooStuck == Stuck => Len(temp_asts) < Last(begins) + MaxStuck

-----------------------------------------------------------------------------
\* Declarations.

ebi_parse_type ==
    \/ At("type") /\ token = "LPAREN" /\ Expect("LPAREN", <<"type.close", "type">>)
    \/ At("type") /\ token # "LPAREN" /\ Expect("IDENT", <<>>)
    \/ At("type.close") /\ Expect("RPAREN", <<>>)

ebi_parse_param ==
    \/ At("param") /\ Expect("IDENT", <<"param.colon">>)
    \/ At("param.colon") /\ Expect("COLON", <<"param.push", "type">>)
    \/ Push("param.push", "PARAM", <<>>)

ebi_parse_generics ==
    \/ At("generics") /\ Try("LSQUARE", <<"generics.list">>, <<>>)
    \/ token # "RSQUARE" /\ Begin("generics.list", "generics.item")
    \/ At("generics.list") /\ token = "RSQUARE" /\ Perror
    \/ /\ At("generics.item") /\ Accept("IDENT")
       /\ ebi_push_ast_list("NAME") /\ Become(<<"generics.next">>) /\ UNCHANGED result
    \/ At("generics.item") /\ token # "IDENT" /\ Perror
    \/ At("generics.next") /\ token = "COMMA" /\ Expect("COMMA", <<"generics.item">>)
    \/ At("generics.next") /\ End("RSQUARE", "LIST")
    \/ At("generics.next") /\ token \notin {"COMMA", "RSQUARE"} /\ Perror

ebi_parse_fields ==
    \/ Begin("fields", "fields.next")
    \/ At("fields.next") /\ End("RCURLY", "LIST")
    \/ /\ At("fields.next") /\ token # "RCURLY"
       /\ Try("LINE_END", <<"fields.next">>, <<"fields.push", "param">>)
    \/ Push("fields.push", "PARAM", <<"fields.next">>)

ebi_parse_struct ==
    \/ At("struct") /\ Expect("IDENT", <<"struct.body", "generics">>)
    \/ At("struct.body") /\ Try("LCURLY", <<"struct.end", "fields">>, <<"struct.end">>)
    \/ At("struct.end") /\ Built("STRUCT", <<>>)

ebi_parse_params ==
    \/ At("params") /\ Expect("LPAREN", <<"params.list">>)
    \/ Begin("params.list", "params.first")
    \/ At("params.first") /\ End("RPAREN", "LIST")
    \/ At("params.first") /\ token # "RPAREN" /\ Built("uninit", <<"params.push", "param">>)
    \/ Push("params.push", "PARAM", <<"params.next">>)
    \/ At("params.next") /\ token = "COMMA" /\ Expect("COMMA", <<"params.push", "param">>)
    \/ At("params.next") /\ End("RPAREN", "LIST")
    \/ At("params.next") /\ token \notin {"COMMA", "RPAREN"} /\ Perror

ebi_parse_def ==
    \/ At("def") /\ Expect("IDENT", <<"def.return", "params", "generics">>)
    \/ At("def.return") /\ Try("COLON", <<"def.body", "type">>, <<"def.body">>)
    \/ At("def.body") /\ Try("LCURLY", <<"def.end", "block">>, <<"def.end">>)
    \/ At("def.end") /\ Built("DEF", <<>>)

-----------------------------------------------------------------------------
\* Expressions.

ebi_parse_atom ==
    \/ At("atom") /\ token = "LPAREN" /\ Expect("LPAREN", <<"atom.close", "expression">>)
    \/ At("atom.close") /\ Expect("RPAREN", <<>>)
    \/ At("atom") /\ Accept("IDENT") /\ result' = "NAME" /\ Return /\ UNCHANGED astVars
    \/ At("atom") /\ token \notin {"LPAREN", "IDENT"} /\ Built(result, <<>>)

ebi_parse_args ==
    \/ Begin("args", "args.next")
    \/ At("args.next") /\ End("RPAREN", "LIST")
    \/ /\ At("args.next") /\ token # "RPAREN" /\ NotTooStuck
       /\ Built("uninit", <<"args.push", "expression">>)
    \/ Push("args.push", result, <<"args.next">>)

ebi_parse_suffix ==
    \/ At("suffix") /\ Built(result, <<"suffix.next", "atom">>)
    \/ At("suffix.next") /\ token = "DOT" /\ Expect("DOT", <<"suffix.field">>)
    \/ /\ At("suffix.field") /\ Accept("IDENT")
       /\ result' = "FIELD" /\ Become(<<"suffix.next">>) /\ UNCHANGED astVars
    \/ At("suffix.field") /\ token # "IDENT" /\ Perror
    \/ At("suffix.next") /\ token # "DOT" /\ Try("LPAREN", <<"suffix.call", "args">>, <<>>)
    \/ At("suffix.call") /\ Built("CALL", <<"suffix.next">>)

\* Mutant: the operator is not scanned before the operand.
TermStaysAtOperator ==
    \/ At("term") /\ Built(result, <<"term.next", "suffix">>)
    \/ At("term.next") /\ token = "MUL" /\ Built(result, <<"term.binop", "suffix">>)
    \/ At("term.next") /\ token # "MUL" /\ Built(result, <<>>)
    \/ At("term.binop") /\ Built("BINOP", <<"term.next">>)

ebi_parse_term ==
    \/ At("term") /\ Built(result, <<"term.next", "suffix">>)
    \/ At("term.next") /\ Try("MUL", <<"term.binop", "suffix">>, <<>>)
    \/ At("term.binop") /\ Built("BINOP", <<"term.next">>)

ebi_parse_expression ==
    \/ At("expression") /\ Built(result, <<"expression.next", "term">>)
    \/ At("expression.next") /\ Try("ADD", <<"expression.binop", "term">>, <<>>)
    \/ At("expression.binop") /\ Built("BINOP", <<"expression.next">>)

-----------------------------------------------------------------------------
\* Statements and blocks.

\* Mutant: a token no statement begins with is dropped.
StatementSkips ==
    \/ At("statement") /\ token = "LCURLY" /\ Expect("LCURLY", <<"block">>)
    \/ At("statement") /\ token = "RETURN" /\ Expect("RETURN", <<"return">>)
    \/ At("statement") /\ token \notin {"LCURLY", "RETURN"} /\ Expect(token, <<>>)
    \/ At("return") /\ Try("LINE_END", <<"return.end">>, <<"return.end", "expression">>)
    \/ At("return.end") /\ Built("RETURN", <<>>)

\* A statement that is neither a block nor a return takes nothing from the
\* source and leaves its node as it was.
ebi_parse_statement ==
    \/ At("statement") /\ token = "LCURLY" /\ Expect("LCURLY", <<"block">>)
    \/ At("statement") /\ token # "LCURLY" /\ Try("RETURN", <<"return">>, <<>>)
    \/ At("return") /\ Try("LINE_END", <<"return.end">>, <<"return.end", "expression">>)
    \/ At("return.end") /\ Built("RETURN", <<>>)

BlockItem ==
    \/ token = "LINE_END" /\ Expect("LINE_END", <<"block.next">>)
    \/ token = "STRUCT" /\ Expect("STRUCT", <<"block.push", "struct">>)
    \/ token = "DEF" /\ Expect("DEF", <<"block.push", "def">>)
    \/ /\ token \notin {"LINE_END", "STRUCT", "DEF"} /\ NotTooStuck
       /\ Built("uninit", <<"block.push", "statement">>)

ebi_parse_block ==
    \/ Begin("block", "block.next")
    \/ At("block.next") /\ End(BlockEnd, "BLOCK")
    \/ At("block.next") /\ token # BlockEnd /\ BlockItem
    \/ Push("block.push", result, <<"block.next">>)

\* ebi_parse: the first token is scanned and the root block called.
Init ==
    /\ token \in Tokens /\ scans = 1 /\ brackets = <<>>
    /\ calls = <<"block">> /\ result = "uninit"
    /\ temp_asts = <<>> /\ max_temp_asts = 0 /\ begins = <<>> /\ nodes = <<>>

Next ==
    \/ ebi_parse_type \/ ebi_parse_param \/ ebi_parse_generics
    \/ ebi_parse_fields \/ ebi_parse_struct \/ ebi_parse_params \/ ebi_parse_def
    \/ ebi_parse_atom \/ ebi_parse_args \/ ebi_parse_suffix \/ ebi_parse_term
    \/ ebi_parse_expression \/ ebi_parse_statement \/ ebi_parse_block

\* One thread that runs until the function returns.
Spec == Init /\ [][Next]_vars /\ WF_vars(Next)
-----------------------------------------------------------------------------
(***************************************************************************)
(* Properties                                                              *)
(***************************************************************************)

\* The nodes are where the array has room for them.
TypeOK ==
    /\ token \in Tokens /\ scans \in 1..MaxTokens
    /\ brackets \in Seq(Openers \cup Closers)
    /\ calls \in Seq(Locations) /\ result \in Asts
    /\ temp_asts \in Seq(Asts) /\ nodes \in Seq(Asts)
    /\ max_temp_asts \in Nat /\ Len(temp_asts) <= max_temp_asts
    /\ begins \in Seq(0..Len(temp_asts))

\* The bracket an activation has accepted and is to see closed.
Inside ==
    [LCURLY  |-> {"block", "block.next", "block.push", "fields", "fields.next", "fields.push"},
     LSQUARE |-> {"generics.list", "generics.item", "generics.next"},
     LPAREN  |-> {"params.list", "params.first", "params.push", "params.next",
                  "type.close", "atom.close", "args", "args.next", "args.push"}]

Waiting == UNION {Inside[b] : b \in Openers}
Awaited(l) == CHOOSE b \in Openers : l \in Inside[b]

\* How many of the calls up to the i-th are at one of the locations, when the
\* first of them that counts is the one given.
Rank(i, first, locations) == Cardinality({j \in first..i : calls[j] \in locations})

\* The functions close the brackets of the source in the order it opened
\* them, each with one of its kind: ebi_accept of a closing bracket is always
\* that of the activation which accepted the innermost open one.  The root
\* block, the first activation, is in no bracket.
BracketsMatch ==
    /\ Len(brackets) = Rank(Len(calls), 2, Waiting)
    /\ \A i \in 2..Len(calls) :
         calls[i] \in Waiting => brackets[Rank(i, 2, Waiting)] = Awaited(calls[i])

\* What a function puts in its list.
Kinds(l) ==
    CASE l \in {"block.next", "block.push"} -> {"STRUCT", "DEF", "BLOCK", "RETURN", "uninit"}
      [] l \in {"fields.next", "fields.push", "params.first", "params.push", "params.next"} -> {"PARAM"}
      [] l \in {"generics.item", "generics.next"} -> {"NAME"}
      [] l \in {"args.next", "args.push"} -> {"NAME", "FIELD", "CALL", "BINOP", "uninit"}
      [] OTHER -> {}

Owning == {l \in Locations : Kinds(l) # {}}

\* The lists that are open, each up to the begin of the next one.
OpenLists ==
    [i \in DOMAIN begins |->
       SubSeq(temp_asts, begins[i] + 1, IF i < Len(begins) THEN begins[i + 1] ELSE Len(temp_asts))]

\* The lists that share temp_asts do not mix: there is one for every
\* activation between its begin and its end, in the order of the calls, and
\* between its begin and the next one lie only nodes its function makes.
ListsHoldTheirKind ==
    /\ Len(begins) = Rank(Len(calls), 1, Owning)
    /\ \A i \in DOMAIN calls :
         calls[i] \in Owning => ToSet(OpenLists[Rank(i, 1, Owning)]) \subseteq Kinds(calls[i])

\* A block that has been closed has no node in it that was never written to:
\* although ebi_parse_block pushes such nodes, it does so only when the token
\* will never let it reach its end.  (Arguments may have one: "f(())".)
FinishedBlocksAreInitialised ==
    [][nodes' # nodes /\ result' = "BLOCK" => "uninit" \notin ToSet(nodes')]_vars

\* temp_asts, used as a stack of lists, is one: each list gets back what was
\* pushed while it was the innermost, however the recursion goes.
Lists == INSTANCE AstLists
           WITH Nodes <- Asts, open <- OpenLists, closed <- nodes

ImplementsAstLists == Lists!Spec

\* Every source is parsed to its end or to a syntax error, except where a
\* block or arguments are Stuck: no other loop of the parser goes round without
\* a token, whatever the source and however it ends.
ParseEnds == <>(calls = <<>> \/ At("perror") \/ Stuck)
=============================================================================
