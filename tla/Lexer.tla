------------------------------- MODULE Lexer --------------------------------
(***************************************************************************)
(* The lexer (src/src/compiler/Syntax/Lexer.rs) and the loop of           *)
(* Parser::init that drives it (Parser.rs:49-66).  A source text is a      *)
(* sequence of one-character strings: SourceText::index reads bytes, and   *)
(* every character the keyboard produces is one ASCII byte.  A token is    *)
(* SyntaxToken::new(kind, position, text, value) with the 0-based start    *)
(* position; its text is SyntaxFacts::GetText of the kind where there is   *)
(* one, else the slice of the source it was read from.                    *)
(***************************************************************************)
EXTENDS Integers, Sequences, TLC, BoundTree

CONSTANT Texts   \* the submissions to lex

VARIABLES text, lexer, tokens, lexed
vars == << text, lexer, tokens, lexed >>

NUL == "NUL"   \* the '\0' that Peek returns past the end

\* api.rs isLetter, isDigit, isWhiteSpace
Letters == {"a","b","c","d","e","f","g","h","i","j","k","l","m",
            "n","o","p","q","r","s","t","u","v","w","x","y","z",
            "A","B","C","D","E","F","G","H","I","J","K","L","M",
            "N","O","P","Q","R","S","T","U","V","W","X","Y","Z"}
DigitValue == ("0" :> 0) @@ ("1" :> 1) @@ ("2" :> 2) @@ ("3" :> 3) @@ ("4" :> 4) @@
              ("5" :> 5) @@ ("6" :> 6) @@ ("7" :> 7) @@ ("8" :> 8) @@ ("9" :> 9)
Digits == DOMAIN DigitValue
WhiteSpace == {" ", "\t", "\n", "\r"}

\* Lexer::Peek, Current, Lookahead
Peek(s, position, offset) ==
    IF position + offset >= Len(s) THEN NUL ELSE s[position + offset + 1]

\* The arms of Lex that consume one character.
SingleCharKind ==
    ("+" :> "PlusToken") @@ ("-" :> "MinusToken") @@ ("*" :> "StarToken") @@
    ("/" :> "SlashToken") @@ ("(" :> "OpenParenthesisToken") @@
    (")" :> "CloseParenthesisToken") @@ ("{" :> "OpenBraceToken") @@
    ("}" :> "CloseBraceToken") @@ ("," :> "CommaToken") @@ ("~" :> "TildeToken") @@
    ("^" :> "HatToken")

\* The arms that look one character ahead: the kind without and with it.
Compound ==
    ("&" :> [second |-> "&", one |-> "AmpersandToken", two |-> "AmpersandAmpersandToken"]) @@
    ("|" :> [second |-> "|", one |-> "PipeToken",      two |-> "PipePipeToken"]) @@
    ("=" :> [second |-> "=", one |-> "EqualsToken",    two |-> "EqualsEqualsToken"]) @@
    ("!" :> [second |-> "=", one |-> "BangToken",      two |-> "BangEqualsToken"]) @@
    ("<" :> [second |-> "=", one |-> "LessToken",      two |-> "LessOrEqualsToken"]) @@
    (">" :> [second |-> "=", one |-> "GreaterToken",   two |-> "GreaterOrEqualsToken"])

\* SyntaxFacts::GetKeywordKind
Keywords ==
    (<<"e","l","s","e">> :> "ElseKeyword") @@ (<<"f","a","l","s","e">> :> "FalseKeyword") @@
    (<<"f","o","r">> :> "ForKeyword") @@ (<<"i","f">> :> "IfKeyword") @@
    (<<"l","e","t">> :> "LetKeyword") @@ (<<"t","o">> :> "ToKeyword") @@
    (<<"t","r","u","e">> :> "TrueKeyword") @@ (<<"v","a","r">> :> "VarKeyword") @@
    (<<"w","h","i","l","e">> :> "WhileKeyword")
GetKeywordKind(word) == IF word \in DOMAIN Keywords THEN Keywords[word] ELSE "IdentifierToken"

\* SyntaxFacts::GetText: Ok for operators, punctuation and keywords.
FixedText ==
    [k \in {SingleCharKind[c] : c \in DOMAIN SingleCharKind} |->
        << CHOOSE c \in DOMAIN SingleCharKind : SingleCharKind[c] = k >>]
    @@ [k \in {Compound[c].one : c \in DOMAIN Compound} |->
        << CHOOSE c \in DOMAIN Compound : Compound[c].one = k >>]
    @@ [k \in {Compound[c].two : c \in DOMAIN Compound} |->
        LET c == CHOOSE c \in DOMAIN Compound : Compound[c].two = k IN << c, Compound[c].second >>]
    @@ [k \in {Keywords[w] : w \in DOMAIN Keywords} |->
        CHOOSE w \in DOMAIN Keywords : Keywords[w] = k]

Diag(kind, args) == [kind |-> kind, args |-> args]

\* The end of the run of characters of class cs from position on: the
\* while loops of ReadWhiteSpace, ReadNumberToken, ReadIdentifierOrKeyword.
RECURSIVE RunEnd(_, _, _)
RunEnd(s, position, cs) ==
    IF Peek(s, position, 0) \in cs THEN RunEnd(s, position + 1, cs) ELSE position

\* str::parse::<i32> of a run of digits: Err exactly when it exceeds
\* 2147483647, decided on the digits without forming the larger number.
I32MaxDigits == << "2","1","4","7","4","8","3","6","4","7" >>
RECURSIVE DropLeadingZeros(_)
DropLeadingZeros(ds) ==
    IF ds # << >> /\ Head(ds) = "0" THEN DropLeadingZeros(Tail(ds)) ELSE ds
RECURSIVE DigitsLeq(_, _)
DigitsLeq(ds, bound) ==
    \/ ds = << >>
    \/ DigitValue[Head(ds)] < DigitValue[Head(bound)]
    \/ Head(ds) = Head(bound) /\ DigitsLeq(Tail(ds), Tail(bound))
\* (Mutant: the length compared before leading zeros are dropped.)
FitsI32KeepingZeros(ds) ==
    Len(ds) < Len(I32MaxDigits) \/ (Len(ds) = Len(I32MaxDigits) /\ DigitsLeq(ds, I32MaxDigits))
FitsI32(ds) ==
    LET s == DropLeadingZeros(ds)
    IN  Len(s) < Len(I32MaxDigits) \/ (Len(s) = Len(I32MaxDigits) /\ DigitsLeq(s, I32MaxDigits))
RECURSIVE DecimalValue(_)
DecimalValue(ds) ==
    IF ds = << >> THEN 0
    ELSE 10 * DecimalValue(SubSeq(ds, 1, Len(ds) - 1)) + DigitValue[ds[Len(ds)]]

(***************************************************************************)
(* A scan result: the kind, the position after the token, the value and   *)
(* the diagnostics.  start is the token's first position.                 *)
(***************************************************************************)
Scanned(kind, end, value, diags) == [kind |-> kind, end |-> end, value |-> value, diags |-> diags]

\* (Mutant: an escaped quote consumed as one character.)
RECURSIVE StringScanEscapeByOne(_, _, _)
StringScanEscapeByOne(s, position, sb) ==
    LET c == Peek(s, position, 0) IN
    CASE c \in {NUL, "\r", "\n"} -> [end |-> position, sb |-> sb, unterminated |-> TRUE]
      [] c = "\"" /\ Peek(s, position, 1) = "\"" -> StringScanEscapeByOne(s, position + 1, Append(sb, c))
      [] c = "\"" -> [end |-> position + 1, sb |-> sb, unterminated |-> FALSE]
      [] OTHER -> StringScanEscapeByOne(s, position + 1, Append(sb, c))

\* Lexer::ReadString's loop: a "" inside the string is one quote; a
\* '\0', '\r' or '\n' ends it unterminated, without consuming anything.
RECURSIVE StringScan(_, _, _)
StringScan(s, position, sb) ==
    LET c == Peek(s, position, 0) IN
    CASE c \in {NUL, "\r", "\n"} -> [end |-> position, sb |-> sb, unterminated |-> TRUE]
      [] c = "\"" /\ Peek(s, position, 1) = "\"" -> StringScan(s, position + 2, Append(sb, c))
      [] c = "\"" -> [end |-> position + 1, sb |-> sb, unterminated |-> FALSE]
      [] OTHER -> StringScan(s, position + 1, Append(sb, c))

ReadString(s, start, diags) ==
    LET r == StringScan(s, start + 1, << >>)
    IN  Scanned("StringToken", r.end, Str(r.sb),
                IF r.unterminated THEN Append(diags, Diag("UnterminatedString", << start >>))
                ELSE diags)

ReadNumberToken(s, start, diags) ==
    LET end == RunEnd(s, start, Digits)
        ds  == SubSeq(s, start + 1, end)
    IN  IF FitsI32(ds) THEN Scanned("NumberToken", end, Int32(DecimalValue(ds)), diags)
        ELSE Scanned("NumberToken", end, NullV, Append(diags, Diag("InvalidNumber", << start, ds >>)))

ReadWhiteSpace(s, start, diags) ==
    Scanned("WhitespaceToken", RunEnd(s, start, WhiteSpace), NullV, diags)

ReadIdentifierOrKeyword(s, start, diags) ==
    LET end == RunEnd(s, start, Letters)
    IN  Scanned(GetKeywordKind(SubSeq(s, start + 1, end)), end, NullV, diags)

\* (Mutants: the lookahead tested before the position is advanced, so it
\* reads the first character again; a bad character not consumed.)
LexScanLookaheadBeforeAdvance(s, start, diags) ==
    LET c == Peek(s, start, 0) IN
    CASE c = NUL -> Scanned("EndOfFileToken", start, NullV, diags)
      [] c \in DOMAIN SingleCharKind -> Scanned(SingleCharKind[c], start + 1, NullV, diags)
      [] c \in DOMAIN Compound ->
            IF Peek(s, start, 0) # Compound[c].second
            THEN Scanned(Compound[c].one, start + 1, NullV, diags)
            ELSE Scanned(Compound[c].two, start + 2, NullV, diags)
      [] c = "\"" -> ReadString(s, start, diags)
      [] c \in Digits -> ReadNumberToken(s, start, diags)
      [] c \in WhiteSpace -> ReadWhiteSpace(s, start, diags)
      [] c \in Letters -> ReadIdentifierOrKeyword(s, start, diags)
      [] OTHER -> Scanned("BadToken", start + 1, NullV,
                          Append(diags, Diag("BadCharacter", << start, c >>)))
LexScanBadNotConsumed(s, start, diags) ==
    LET c == Peek(s, start, 0) IN
    CASE c = NUL -> Scanned("EndOfFileToken", start, NullV, diags)
      [] c \in DOMAIN SingleCharKind -> Scanned(SingleCharKind[c], start + 1, NullV, diags)
      [] c \in DOMAIN Compound ->
            IF Peek(s, start, 1) # Compound[c].second
            THEN Scanned(Compound[c].one, start + 1, NullV, diags)
            ELSE Scanned(Compound[c].two, start + 2, NullV, diags)
      [] c = "\"" -> ReadString(s, start, diags)
      [] c \in Digits -> ReadNumberToken(s, start, diags)
      [] c \in WhiteSpace -> ReadWhiteSpace(s, start, diags)
      [] c \in Letters -> ReadIdentifierOrKeyword(s, start, diags)
      [] OTHER -> Scanned("BadToken", start, NullV,
                          Append(diags, Diag("BadCharacter", << start, c >>)))

\* The match of Lexer::Lex on the current character.  (Its default arm also
\* tests isWhiteSpace, which no character reaching it satisfies.)
LexScan(s, start, diags) ==
    LET c == Peek(s, start, 0) IN
    CASE c = NUL -> Scanned("EndOfFileToken", start, NullV, diags)
      [] c \in DOMAIN SingleCharKind -> Scanned(SingleCharKind[c], start + 1, NullV, diags)
      [] c \in DOMAIN Compound ->
            IF Peek(s, start, 1) # Compound[c].second
            THEN Scanned(Compound[c].one, start + 1, NullV, diags)
            ELSE Scanned(Compound[c].two, start + 2, NullV, diags)
      [] c = "\"" -> ReadString(s, start, diags)
      [] c \in Digits -> ReadNumberToken(s, start, diags)
      [] c \in WhiteSpace -> ReadWhiteSpace(s, start, diags)
      [] c \in Letters -> ReadIdentifierOrKeyword(s, start, diags)
      [] OTHER -> Scanned("BadToken", start + 1, NullV,
                          Append(diags, Diag("BadCharacter", << start, c >>)))

SyntaxTokenAt(kind, position, txt, value) ==
    [kind |-> kind, position |-> position, text |-> txt, value |-> value]

\* Lexer::Lex: scan, then build the token with GetText's text, or the
\* slice start .. position when GetText has none.
Lex(s, l) ==
    LET r == LexScan(s, l.position, l.diagnostics)
    IN  [lexer |-> [position |-> r.end, diagnostics |-> r.diags],
         token |-> SyntaxTokenAt(r.kind, l.position,
                                 IF r.kind \in DOMAIN FixedText THEN FixedText[r.kind]
                                 ELSE SubSeq(s, l.position + 1, r.end),
                                 r.value)]

(***************************************************************************)
(* Parser::init's loop: Lex until EndOfFileToken, keeping every token but  *)
(* whitespace and bad tokens, then the EndOfFileToken.  lexed records     *)
(* every token Lex returned, for the properties.                          *)
(***************************************************************************)
Lexed == lexed # << >> /\ lexed[Len(lexed)].kind = "EndOfFileToken"

Init ==
    /\ text \in Texts
    /\ lexer = [position |-> 0, diagnostics |-> << >>]
    /\ tokens = << >>
    /\ lexed = << >>

\* (Mutant: only whitespace filtered out, bad tokens kept.)
LexNextKeepingBad ==
    /\ ~Lexed
    /\ LET r == Lex(text, lexer)
       IN  /\ lexer' = r.lexer
           /\ tokens' = IF r.token.kind = "WhitespaceToken" THEN tokens ELSE Append(tokens, r.token)
           /\ lexed' = Append(lexed, r.token)
    /\ UNCHANGED text

LexNext ==
    /\ ~Lexed
    /\ LET r == Lex(text, lexer)
       IN  /\ lexer' = r.lexer
           /\ tokens' = IF r.token.kind \in {"WhitespaceToken", "BadToken"} THEN tokens
                        ELSE Append(tokens, r.token)
           /\ lexed' = Append(lexed, r.token)
    /\ UNCHANGED text

Next == LexNext
Spec == Init /\ [][Next]_vars

Kinds == {"EndOfFileToken", "WhitespaceToken", "BadToken", "NumberToken", "StringToken",
          "IdentifierToken"} \cup DOMAIN FixedText

\* The lexer's state has its types, and Parser::init's list is exactly the
\* tokens Lex returned minus whitespace and bad tokens.
LexTypeOK ==
    /\ text \in Texts
    /\ lexer.position \in 0 .. Len(text)
    /\ \A i \in DOMAIN lexed : lexed[i].kind \in Kinds /\ lexed[i].position \in 0 .. Len(text)
    /\ tokens = SelectSeq(lexed, LAMBDA t : t.kind \notin {"WhitespaceToken", "BadToken"})

(***************************************************************************)
(* Properties.                                                             *)
(***************************************************************************)

\* spec section 8: the source text at a token's span (Position, length of
\* its Text), lexed alone, yields a token of the same kind.  Lex takes the
\* span from GetText's text where the kind has one and from the consumed
\* characters otherwise, so the two must agree with the lookahead, and
\* the span must lie inside the text.
RelexSameKind ==
    \A i \in DOMAIN lexed :
        LET t == lexed[i]
        IN  /\ t.position + Len(t.text) <= Len(text)
            /\ Lex(SubSeq(text, t.position + 1, t.position + Len(t.text)),
                [position |-> 0, diagnostics |-> << >>]).token.kind = t.kind

\* A string's text is its value with every quote doubled, between an
\* opening quote and, unless UnterminatedString was reported at its
\* position, a closing one: ReadString's "" escape read back.
RECURSIVE Escape(_)
Escape(v) ==
    IF v = << >> THEN << >>
    ELSE (IF Head(v) = "\"" THEN << "\"", "\"" >> ELSE << Head(v) >>) \o Escape(Tail(v))

StringRoundTrip ==
    \A i \in DOMAIN lexed :
        LET t == lexed[i]
            unterminated == \E j \in DOMAIN lexer.diagnostics :
                                lexer.diagnostics[j] = Diag("UnterminatedString", << t.position >>)
        IN  t.kind = "StringToken" =>
                t.text = << "\"" >> \o Escape(t.value.v) \o (IF unterminated THEN << >> ELSE << "\"" >>)

\* A number's value written back in decimal is its text without leading
\* zeros; a number that ReadNumberToken could not parse as i32 has the
\* Null value, an InvalidNumber diagnostic at its position, and more than
\* 10 digits or 10 digits above 2147483647.
RECURSIVE Decimal(_)
Decimal(v) ==
    LET last == CHOOSE c \in Digits : DigitValue[c] = v % 10
    IN  IF v < 10 THEN << last >> ELSE Decimal(v \div 10) \o << last >>

NumberRoundTrip ==
    \A i \in DOMAIN lexed :
        LET t == lexed[i]
            digits == DropLeadingZeros(t.text)
            invalid == \E j \in DOMAIN lexer.diagnostics :
                           lexer.diagnostics[j] = Diag("InvalidNumber", << t.position, t.text >>)
        IN  t.kind = "NumberToken" =>
                IF t.value = NullV
                THEN /\ invalid
                     /\ \/ Len(digits) > Len(I32MaxDigits)
                        \/ Len(digits) = Len(I32MaxDigits) /\ ~DigitsLeq(digits, I32MaxDigits)
                ELSE /\ ~invalid
                     /\ Decimal(t.value.v) = IF digits = << >> THEN << "0" >> ELSE digits

\* Every call of Lex that does not return EndOfFileToken consumes input,
\* so the loop of Parser::init ends.
LexAdvances ==
    [][Lexed' \/ lexer'.position > lexer.position]_vars
====
