------------------------------- MODULE Syntax -------------------------------
(***************************************************************************)
(* The untyped syntax tree (src/src/compiler/Syntax): tokens, the syntax   *)
(* nodes the Parser builds and the Binder consumes, and the operator       *)
(* precedences of SyntaxFacts.  Like the bound tree, every node is a       *)
(* record whose field "kind" names the Rust variant.                       *)
(***************************************************************************)
EXTENDS Integers, Sequences, BoundTree

(***************************************************************************)
(* SyntaxToken { Kind, Position, Text: Option<String>, Value }.  The      *)
(* position is the token's index in the filtered token list; the text of  *)
(* an identifier is its name, a literal carries its ValueType.             *)
(***************************************************************************)
Token(kind, text, value) == [kind |-> kind, text |-> text, value |-> value]

\* SyntaxToken::IsMissing tests Text == None, but SyntaxToken::new always
\* stores Some(text), MatchToken's substitute included (its text is "").
IsMissing(tok) == FALSE

UnaryOperatorKinds == {"PlusToken", "MinusToken", "BangToken", "TildeToken"}

\* SyntaxFacts::GetUnaryOperatorPrecedence
GetUnaryOperatorPrecedence(kind) == IF kind \in UnaryOperatorKinds THEN 6 ELSE 0

\* SyntaxFacts::GetBinaryOperatorPrecedence
GetBinaryOperatorPrecedence(kind) ==
    CASE kind \in {"StarToken", "SlashToken"}                   -> 5
      [] kind \in {"PlusToken", "MinusToken"}                   -> 4
      [] kind \in {"EqualsEqualsToken", "BangEqualsToken", "LessToken",
                   "LessOrEqualsToken", "GreaterToken",
                   "GreaterOrEqualsToken"}                      -> 3
      [] kind \in {"AmpersandToken", "AmpersandAmpersandToken"} -> 2
      [] kind \in {"PipeToken", "PipePipeToken", "HatToken"}    -> 1
      [] OTHER                                                  -> 0

(***************************************************************************)
(* SyntaxNode: the expressions.  A call keeps SeparatedSyntaxList's        *)
(* nodesAndSeparators, each entry tagged "node" or "sep".                  *)
(***************************************************************************)
LiteralSyntax(tok, v)         == [kind |-> "LiteralExpressionSyntax", token |-> tok, value |-> v]
NameSyntax(tok)               == [kind |-> "NameExpressionSyntax", token |-> tok]
AssignmentSyntax(id, eq, e)   == [kind |-> "AssignmentExpressionSyntax", token |-> id, eq |-> eq, expr |-> e]
UnarySyntax(op, e)            == [kind |-> "UnaryExpressionSyntax", op |-> op, operand |-> e]
BinarySyntax(l, op, r)        == [kind |-> "BinaryExpressionSyntax", left |-> l, op |-> op, right |-> r]
ParenthesizedSyntax(o, e, c)  == [kind |-> "ParenthesizedExpressionSyntax", open |-> o, expr |-> e, close |-> c]
CallSyntax(id, o, args, c)    == [kind |-> "CallExpressionSyntax", token |-> id, open |-> o, args |-> args, close |-> c]
ArgNode(e)                    == [tag |-> "node", node |-> e]
ArgSeparator(tok)             == [tag |-> "sep", token |-> tok]

\* SeparatedSyntaxList::Count: (len + 1) / 2
ArgCount(args) == (Len(args) + 1) \div 2
ArgNodes(args) == [i \in 1 .. ArgCount(args) |-> args[2 * i - 1].node]

(***************************************************************************)
(* StatementSyntax, with the keyword and punctuation tokens the Rust nodes *)
(* keep.  An if without else carries NoElseClause (None).                  *)
(***************************************************************************)
BlockSyntax(o, stmts, c)      == [kind |-> "BlockStatementSyntax", open |-> o, stmts |-> stmts, close |-> c]
VarDeclSyntax(kw, id, eq, e)  == [kind |-> "VariableDeclarationSyntax", keyword |-> kw, token |-> id, eq |-> eq, init |-> e]
NoElseClause                  == [kind |-> "None"]
ElseSyntax(kw, s)             == [kind |-> "ElseClauseSyntax", keyword |-> kw, stmt |-> s]
IfSyntax(kw, c, t, e)         == [kind |-> "IfStatementSyntax", keyword |-> kw, cond |-> c, then |-> t, else |-> e]
WhileSyntax(kw, c, b)         == [kind |-> "WhileStatementSyntax", keyword |-> kw, cond |-> c, body |-> b]
ForSyntax(kw, id, eq, lo, to, hi, b) ==
    [kind |-> "ForStatementSyntax", keyword |-> kw, token |-> id, eq |-> eq,
     lower |-> lo, to |-> to, upper |-> hi, body |-> b]
ExprStmtSyntax(e)             == [kind |-> "ExpressionStatementSyntax", expr |-> e]

\* DiagnosticBag::ReportUnexpectedToken, without the span
UnexpectedToken(actual, expected) ==
    [kind |-> "UnexpectedToken", actual |-> actual, expected |-> expected]
====
