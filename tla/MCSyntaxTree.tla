---------------------------- MODULE MCSyntaxTree ----------------------------
(***************************************************************************)
(* SyntaxTree::new (SyntaxTree.rs:22-33) end to end: Parser::init lexes    *)
(* the submission one Lex call at a step (Lexer), then                     *)
(* ParseCompilationUnit parses the tokens in one step (Parser).  The       *)
(* parser never reads a token's text or position, so it is given the      *)
(* lexer's tokens without their position and with the text as an opaque  *)
(* string.                                                                 *)
(***************************************************************************)
EXTENDS Lexer

CONSTANT MaxChars   \* the longest text drawn from an alphabet

VARIABLES phase, tree
syntaxVars == << text, lexer, tokens, lexed, phase, tree >>

\* The tokens Lex returns before EndOfFileToken, as the parser sees them.
ParserTokens(ts) ==
    [i \in 1 .. Len(ts) - 1 |-> [kind |-> ts[i].kind, text |-> ToString(ts[i].text), value |-> ts[i].value]]

\* The parser and its properties (MCParser), on the lexed texts.
P == INSTANCE MCParser WITH tokens <- ParserTokens(lexed),
                            Inputs <- {},   \* only MCParser's own runs tabulate inputs
                            MaxTokens <- MaxChars

SyntaxInit ==
    /\ Init
    /\ phase = "lexing"
    /\ tree = P!NoTree

\* One iteration of Parser::init's loop; the last one hands over to the
\* parse.
LexStep ==
    /\ phase = "lexing"
    /\ LexNext
    /\ phase' = IF Lexed' THEN "lexed" ELSE "lexing"
    /\ UNCHANGED tree

\* SyntaxTree::new, after Parser::init: ParseCompilationUnit on the tokens.
Parse ==
    /\ phase = "lexed"
    /\ LET parsed == P!ParseCompilationUnit(ParserTokens(lexed))
       IN  /\ tree' = parsed
           /\ phase' = IF parsed.hang THEN "looping" ELSE "parsed"
    /\ UNCHANGED << text, lexer, tokens, lexed >>

SyntaxNext == LexStep \/ Parse

\* SyntaxTree::new runs on the one kernel thread, with no await inside it.
SyntaxSpec == SyntaxInit /\ [][SyntaxNext]_syntaxVars /\ WF_syntaxVars(SyntaxNext)

(***************************************************************************)
(* Texts: every text up to MaxChars characters over an alphabet that       *)
(* spells the expressions of the parser's grammar, and the texts that     *)
(* reach the rest of the lexer.                                           *)
(***************************************************************************)
ExpressionAlphabet == {"1", "a", "=", "+", "-", "*", "(", ")", " "}
LexerAlphabet == {"&", "=", "\"", "1", "a", "f", " ", "\n", "#"}
TextsOver(alphabet, n) == UNION {[1 .. k -> alphabet] : k \in 0 .. n}

Lookaheads == {<< c, d >> : c \in {"|", "!", "<", ">"}, d \in {"|", "=", "x"}}
Longer ==
    { << "2","1","4","7","4","8","3","6","4","7" >>,
      << "2","1","4","7","4","8","3","6","4","8" >>,
      << "0","0","2","1","4","7","4","8","3","6","4","7" >>,
      << "9","9","9","9","9","9","9","9","9","9","9" >>,
      << "\"","a","\"","\"","b","\"" >>,
      << "\"","a","\r","b" >>,
      << "x", "\t", "Z", "9" >> }
    \cup DOMAIN Keywords
    \cup {k \o << "s" >> : k \in DOMAIN Keywords}

\* Chains of two binary operators, which need one character more.
Chains == {<< x, o1, y, o2, z >> : x, y, z \in {"1", "a"}, o1, o2 \in {"+", "-", "*", "=", "&"}}

SyntaxTexts ==
    TextsOver(ExpressionAlphabet, MaxChars) \cup TextsOver(LexerAlphabet, 3)
    \cup {<< c >> : c \in DOMAIN SingleCharKind} \cup Lookaheads \cup Longer \cup Chains

(***************************************************************************)
(* Properties of the parser on what the lexer produced; the lexer's own    *)
(* (LexTypeOK, RelexSameKind, StringRoundTrip, NumberRoundTrip,          *)
(* LexAdvances) come with EXTENDS Lexer.                                  *)
(***************************************************************************)
\* A lexed text the parser accepts without diagnostics is parsed into a
\* tree whose tokens are exactly the tokens Parser::init kept, in order.
ParseYieldsInput == P!ParseYieldsInput

\* In the tree of a lexed text, binary operators group by SyntaxFacts'
\* precedence, left-associatively (ParseBinaryExpression's loop).
BinaryOperatorsGroupByPrecedence == P!BinaryOperatorsGroupByPrecedence
====
