------------------------------ MODULE MCParser ------------------------------
(***************************************************************************)
(* Parser over every token sequence up to MaxTokens long from a small      *)
(* alphabet of lexed tokens.  Each sequence is parsed once, as             *)
(* compile_run parses one submission.                                       *)
(***************************************************************************)
EXTENDS Parser

CONSTANT MaxTokens   \* the longest submission, in tokens

Num(n) == Token("NumberToken", n, Int32(n))
Ident  == Token("IdentifierToken", "a", NullV)
Punct(kind) == Token(kind, kind, NullV)

\* Expressions: numbers, a name, assignment, + - *, ==, parentheses.
ExpressionAlphabet ==
    {Num(1), Num(2), Ident} \cup
    {Punct(k) : k \in {"EqualsToken", "PlusToken", "MinusToken", "StarToken",
                       "OpenParenthesisToken", "CloseParenthesisToken"}}

\* Blocks and calls, where the parser's two loops run.
LoopAlphabet ==
    {Num(1), Ident} \cup
    {Punct(k) : k \in {"OpenBraceToken", "CloseBraceToken", "OpenParenthesisToken",
                       "CloseParenthesisToken", "CommaToken", "WhitespaceToken"}}

SequencesOver(alphabet) == UNION {[1 .. n -> alphabet] : n \in 1 .. MaxTokens}
ExpressionInputs == SequencesOver(ExpressionAlphabet)
LoopInputs == SequencesOver(LoopAlphabet)

(***************************************************************************)
(* The tokens a syntax tree stands for, in order: its yield.               *)
(***************************************************************************)
RECURSIVE Yield(_), YieldSeq(_)
YieldSeq(items) ==
    IF items = << >> THEN << >>
    ELSE (IF "tag" \in DOMAIN Head(items)
          THEN (IF Head(items).tag = "sep" THEN << Head(items).token >> ELSE Yield(Head(items).node))
          ELSE Yield(Head(items)))
         \o YieldSeq(Tail(items))
Yield(n) ==
    CASE n.kind \in {"LiteralExpressionSyntax", "NameExpressionSyntax"} -> << n.token >>
      [] n.kind = "AssignmentExpressionSyntax"    -> << n.token, n.eq >> \o Yield(n.expr)
      [] n.kind = "UnaryExpressionSyntax"         -> << n.op >> \o Yield(n.operand)
      [] n.kind = "BinaryExpressionSyntax"        -> Yield(n.left) \o << n.op >> \o Yield(n.right)
      [] n.kind = "ParenthesizedExpressionSyntax" -> << n.open >> \o Yield(n.expr) \o << n.close >>
      [] n.kind = "CallExpressionSyntax"          -> << n.token, n.open >> \o YieldSeq(n.args) \o << n.close >>
      [] n.kind = "BlockStatementSyntax"          -> << n.open >> \o YieldSeq(n.stmts) \o << n.close >>
      [] n.kind = "ExpressionStatementSyntax"     -> Yield(n.expr)
      [] OTHER                                    -> << >>

\* The expression nodes of a tree.
RECURSIVE Subexpressions(_)
Subexpressions(n) ==
    {n} \cup
    CASE n.kind = "AssignmentExpressionSyntax"    -> Subexpressions(n.expr)
      [] n.kind = "UnaryExpressionSyntax"         -> Subexpressions(n.operand)
      [] n.kind = "BinaryExpressionSyntax"        -> Subexpressions(n.left) \cup Subexpressions(n.right)
      [] n.kind = "ParenthesizedExpressionSyntax" -> Subexpressions(n.expr)
      [] n.kind = "ExpressionStatementSyntax"     -> Subexpressions(n.expr)
      [] OTHER                                    -> {}

Binaries(n)  == {m \in Subexpressions(n) : m.kind = "BinaryExpressionSyntax"}
Precedence(m) == GetBinaryOperatorPrecedence(m.op.kind)

(***************************************************************************)
(* Properties of ParseCompilationUnit's result.                            *)
(***************************************************************************)

\* A submission the parser accepts without diagnostics is parsed into a tree
\* whose tokens are exactly the submission's tokens, in order (Parser.rs
\* NextToken/MatchToken consume each token once, into the node built).
ParseYieldsInput ==
    phase = "parsed" /\ tree.diags = << >>
        => Yield(tree.root) \o << EOFToken >> = ParserInit(tokens).tokens

\* Binary operators group by SyntaxFacts' precedence, left-associatively:
\* a binary operand of a binary node binds at least as tightly on the left
\* and strictly more tightly on the right (ParseBinaryExpression's loop).
BinaryOperatorsGroupByPrecedence ==
    phase = "parsed" =>
        \A m \in Binaries(tree.root) :
            /\ m.left.kind = "BinaryExpressionSyntax" => Precedence(m.left) >= Precedence(m)
            /\ m.right.kind = "BinaryExpressionSyntax" => Precedence(m.right) > Precedence(m)

\* spec §4.2: unary operators have precedence 6, above every binary
\* operator, so a unary operator applies to one primary, never to a binary
\* expression (ParseBinaryExpression, Parser.rs:233).
UnaryBindsTightest ==
    phase = "parsed" =>
        \A m \in Subexpressions(tree.root) :
            m.kind = "UnaryExpressionSyntax" => m.operand.kind # "BinaryExpressionSyntax"

\* ParsedInputs computed as a set of pairs, which TLC builds eagerly when it
\* loads the model; the liveness run evaluates the fairness condition
\* (ENABLED) through this table rather than through the recursive parse.
ParseTable == {<< t, ParseCompilationUnit(t) >> : t \in Inputs}
TabulatedParse == [t \in Inputs |-> (CHOOSE p \in ParseTable : p[1] = t)[2]]

\* Parsing a submission returns: SyntaxTree::new ends for every input.
ParseReturns == <>(phase = "parsed")
====
