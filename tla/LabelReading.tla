----------------------------- MODULE LabelReading -----------------------------
(***************************************************************************)
(* A list of ingredients as it is printed, read into tokens (parseInci),   *)
(* each looked up in the dictionary (canonicalizeInci), and the benchmark  *)
(* that decides whether parser and dictionary are good enough to be used.  *)
(*                                                                         *)
(* A label is a sequence of lexemes: a name, a colour index number, the    *)
(* separators, two kinds of brackets, a full stop, "may contain", a        *)
(* character that OCR was unsure of, and a legal notice.  Names are taken  *)
(* up to case and spacing, which the lookup key leaves out.                *)
(***************************************************************************)
EXTENDS Naturals, Sequences, FiniteSets, FiniteSetsExt

Names == {"water", "aqua", "wax"}
Words == Names \cup {"ci", "mark", "heading", "legal"}
Lexemes == Words \cup {",", ".", "?", "(", ")", "[", "]"}
Closing == [o \in {"(", "["} |-> IF o = "(" THEN ")" ELSE "]"]

-----------------------------------------------------------------------------
(* matchedGrouping and tokenRanges                                         *)

\* What still waits to be closed after i lexemes, and the pairs so far.
Brackets(s) ==
  LET open[i \in 0 .. Len(s)] ==
        IF i = 0 THEN [stack |-> <<>>, pairs |-> {}]
        ELSE LET b == open[i - 1]  top == Len(b.stack) IN
             IF s[i] \in DOMAIN Closing THEN [b EXCEPT !.stack = Append(@, i)]
             ELSE IF top > 0 /\ s[i] = Closing[s[b.stack[top]]]
             THEN [stack |-> SubSeq(b.stack, 1, top - 1), pairs |-> b.pairs \cup {<<b.stack[top], i>>}]
             ELSE b
  IN open[Len(s)]

\* Without the brackets that match nothing; a closing one of the wrong kind is one of them.
HasUnbalancedGrouping(s) ==
  2 * Cardinality(Brackets(s).pairs) # Cardinality({i \in DOMAIN s : s[i] \in {"(", ")", "[", "]"}})

\* A conditional marker, with a square bracket around what it applies to or without.
MarkedAt(s, i) ==
  \/ i \in DOMAIN s /\ s[i] = "mark"
  \/ i + 1 \in DOMAIN s /\ s[i] = "[" /\ s[i + 1] = "mark"

\* The lexeme after the marker at i, which takes parentheses with it.
AfterMark(s, i) ==
  LET m == IF s[i] = "[" THEN i + 2 ELSE i + 1
      o == IF m \in DOMAIN s /\ s[m] = "(" THEN m + 1 ELSE m
  IN IF o \in DOMAIN s /\ s[o] = ")" THEN o + 1 ELSE o

Wrappers(s) == {p \in Brackets(s).pairs : s[p[1]] = "[" /\ MarkedAt(s, p[1])}
Groups(s) == Brackets(s).pairs \ Wrappers(s)

ContentStart(s) == IF s # <<>> /\ s[1] = "heading" THEN 2 ELSE 1

\* Where a range ends and the next begins: a separator outside of every group, a full stop
\* before a marker or before a name with its colour index number.
Ends(s, i) ==
  \/ s[i] = "," /\ ~\E p \in Groups(s) : ContentStart(s) <= p[1] /\ p[1] < i /\ i < p[2]
  \/ s[i] = "." /\ MarkedAt(s, i + 1)
  \/ /\ s[i] = "." /\ i < Len(s) /\ s[i + 1] \in Words
     /\ \E j \in i + 2 .. Len(s) - 1 : s[j] = "(" /\ s[j + 1] = "ci" /\ \A k \in i + 1 .. j : s[k] # "."

\* The ranges as <<first, after the last>>, in their order; some are empty.
TokenRanges(s) ==
  LET from == ContentStart(s)
      cuts == {i \in from .. Len(s) : Ends(s, i)}
      legal == {i \in from + 1 .. Len(s) : s[i] = "legal"}
      starts == {from} \cup legal \cup {i + 1 : i \in cuts}
      end(f) == Min({i \in cuts : i >= f} \cup {i \in legal : i > f} \cup {Len(s) + 1})
      place(f) == Cardinality({g \in starts : g <= f})
  IN [n \in 1 .. Cardinality(starts) |->
        LET f == CHOOSE f \in starts : place(f) = n IN <<f, end(f)>>]

-----------------------------------------------------------------------------
(* createToken                                                             *)

IsPigment(t) ==
  t \in {<<"ci">>} \cup {<<"ci", "(", n, ")">> : n \in Words \ {"ci"}}
       \cup {<<n, "(", "ci", ")">> : n \in Words \ {"ci"}}

\* OCR_NOISE, UNBALANCED_GROUPING, LOW_INFORMATION, NON_INCI_TEXT
IsUncertain(t) ==
  \/ \E i \in DOMAIN t : t[i] = "?"
  \/ HasUnbalancedGrouping(t)
  \/ ~\E i \in DOMAIN t : t[i] \in Words
  \/ t[1] = "legal"

TokenKind(t) == IF IsUncertain(t) THEN "UNRESOLVED" ELSE IF IsPigment(t) THEN "CI_PIGMENT" ELSE "INGREDIENT"

\* Without what is to be ignored at either end; <<1, 1>> when nothing is left.
TrimSpan(r, ignored) ==
  LET kept == (r[1] .. r[2] - 1) \ ignored
  IN IF kept = {} THEN <<1, 1>> ELSE <<Min(kept), Max(kept) + 1>>

\* The full stop after a colour index number is not part of it.
TrimPigmentTerminalPeriod(s, r) ==
  IF s[r[2] - 1] = "." /\ IsPigment(SubSeq(s, r[1], r[2] - 2)) THEN <<r[1], r[2] - 1>> ELSE r

\* ignoreConditionalClosing: the bracket that closes the wrapper at i, and full stops after it.
ConditionalClosing(s, i) ==
  UNION {{j \in p[2] .. Len(s) : \A k \in p[2] + 1 .. j : s[k] = "."} : p \in {w \in Wrappers(s) : w[1] = i}}

-----------------------------------------------------------------------------
(* parseInci                                                               *)

Begin == [tokens |-> <<>>, presence |-> "DECLARED", ignored |-> {}]
Token(s, r, presence) ==
  LET at == TrimPigmentTerminalPeriod(s, r)  text == SubSeq(s, at[1], at[2] - 1)
  IN [at |-> at, text |-> text, presence |-> presence, kind |-> TokenKind(text)]

\* Mutant: the condition ends with the bracket around it.
ReadRange_Resume(s, sofar, r) ==
  LET span == TrimSpan(r, sofar.ignored)
      marked == MarkedAt(s, span[1])
      rest == TrimSpan(<<AfterMark(s, span[1]), span[2]>>, ConditionalClosing(s, span[1]))
  IN IF span[1] = span[2] \/ (marked /\ rest[1] = rest[2]) THEN sofar
     ELSE [sofar EXCEPT !.tokens = Append(@, Token(s, IF marked THEN rest ELSE span,
                                                   IF marked THEN "MAY_CONTAIN" ELSE "DECLARED"))]

\* One range.  From a range that begins with a marker on, everything is conditional.
ReadRange(s, sofar, r) ==
  LET span == TrimSpan(r, sofar.ignored)
      marked == MarkedAt(s, span[1])
      ignored == IF marked THEN sofar.ignored \cup ConditionalClosing(s, span[1]) ELSE sofar.ignored
      presence == IF marked THEN "MAY_CONTAIN" ELSE sofar.presence
      rest == IF marked THEN TrimSpan(<<AfterMark(s, span[1]), span[2]>>, ignored) ELSE span
  IN IF span[1] = span[2] THEN sofar
     ELSE [presence |-> presence, ignored |-> ignored,
           tokens |-> IF rest[1] = rest[2] THEN sofar.tokens
                      ELSE Append(sofar.tokens, Token(s, rest, presence))]

parseInci(s) ==
  LET ranges == TokenRanges(s)
      read[n \in 0 .. Len(ranges)] == IF n = 0 THEN Begin ELSE ReadRange(s, read[n - 1], ranges[n])
  IN read[Len(ranges)].tokens

-----------------------------------------------------------------------------
(* canonicalizeInci                                                        *)

\* A dictionary is a set of ingredients: id, name, aliases, all of them texts.
Matches(text, dictionary) ==
  {[id |-> e.id, by |-> "CANONICAL_NAME"] : e \in {e \in dictionary : e.name = text}}
  \cup {[id |-> e.id, by |-> "ALIAS"] : e \in {e \in dictionary : text \in e.aliases}}

\* bestMatchByIngredient: one match for each ingredient, by its own name if there is one.
MatchCandidates(text, dictionary) ==
  {m \in Matches(text, dictionary) :
     m.by = "ALIAS" => [m EXCEPT !.by = "CANONICAL_NAME"] \notin Matches(text, dictionary)}

NoDecision == [kind |-> "UNRESOLVED", confidence |-> "NONE", id |-> 0]

MatchDecision(text, dictionary) ==
  LET c == MatchCandidates(text, dictionary) IN
  IF c = {} THEN NoDecision
  ELSE IF Cardinality(c) > 1 THEN [NoDecision EXCEPT !.kind = "AMBIGUOUS"]
  ELSE LET m == CHOOSE m \in c : TRUE IN
       [kind |-> "RESOLVED", confidence |-> IF m.by = "ALIAS" THEN "MEDIUM" ELSE "HIGH", id |-> m.id]

\* A colour index number is looked up without the words around it.
LookupText(token) == IF token.kind = "CI_PIGMENT" THEN <<"ci">> ELSE token.text
Decision(token, dictionary) ==
  IF token.kind = "UNRESOLVED" THEN NoDecision ELSE MatchDecision(LookupText(token), dictionary)

canonicalizeInci(tokens, dictionary) ==
  [n \in DOMAIN tokens |-> [lookup |-> LookupText(tokens[n]), kind |-> tokens[n].kind,
                            presence |-> tokens[n].presence, decision |-> Decision(tokens[n], dictionary)]]

-----------------------------------------------------------------------------
(* A label is printed, lexeme by lexeme                                    *)

CONSTANTS MaxLexemes, Printed    \* bound: lexemes of a label, and the lexemes used
VARIABLE label

LabelInit == label = <<>>
LabelNext == Len(label) < MaxLexemes /\ \E x \in Printed : label' = Append(label, x)
LabelSpec == LabelInit /\ [][LabelNext]_label

\* inci.ts:397, docs/specs: a label is read once.  Every word is in exactly one token, in the
\* order of the label, unless it is the heading or a marker; what a group holds together stays
\* together; and a token is conditional exactly if a marker that was understood comes before.
LabelIsRead ==
  \A tokens \in {parseInci(label)} :
  LET in(i) == {n \in DOMAIN tokens : tokens[n].at[1] <= i /\ i < tokens[n].at[2]}
      from == ContentStart(label)
      whole == {p \in Groups(label) : /\ p[1] >= from
                                      /\ p[1] > 1 => label[p[1] - 1] # "mark"
                                      /\ \A i \in p[1] .. p[2] : label[i] \notin {".", "legal"}}
  IN /\ \A i \in from .. Len(label) :
          /\ label[i] \in (Words \cup {"?"}) \ {"mark"} => Cardinality(in(i)) = 1
          /\ Cardinality(in(i)) <= 1
     /\ \A n \in DOMAIN tokens : n > 1 => tokens[n - 1].at[2] <= tokens[n].at[1]
     /\ \A p \in whole : \A i \in p[1] .. p[2] : in(i) = in(p[1])
     /\ \A n \in DOMAIN tokens : tokens[n].presence = "MAY_CONTAIN" <=>
          \E i \in 1 .. tokens[n].at[1] - 1 : label[i] = "mark" /\ in(i) = {}
=============================================================================
