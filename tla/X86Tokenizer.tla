----------------------------- MODULE X86Tokenizer -----------------------------
(***************************************************************************)
(* tokenizer::tokenize (lib/x86/tokenizer.cpp).  A character stands for    *)
(* its class: "0" and "7" are digits, "a" is a hexadecimal digit, "x" the  *)
(* letter of the prefix 0x, "g" any other letter or an underscore.         *)
(***************************************************************************)
EXTENDS Integers, SequencesExt, FiniteSetsExt

CONSTANTS Characters, MaxLength      \* bound: the length of a text

VARIABLES text, index, line, column, tokens, failed
vars == <<text, index, line, column, tokens, failed>>

Digits == {"0", "7"}
HexDigits == Digits \cup {"a"}
Letters == {"a", "x", "g"}
Singles == [comma |-> ",", plus |-> "+", minus |-> "-", left_bracket |-> "[", right_bracket |-> "]"]
SingleKind(c) == {k \in DOMAIN Singles : Singles[k] = c}

Position(at, l, c) == [byte_offset |-> at, line |-> l, column |-> c]
Token(kind, begin, end) == [kind |-> kind, begin |-> begin, end |-> end]
Here == Position(index, line, column)

(* The first place from which on a character is not of the class.          *)
After(class, from) ==
  Min({k \in from..Len(text) : k = Len(text) \/ text[k + 1] \notin class})
Prefixed(at) == at + 1 < Len(text) /\ text[at + 1] = "0" /\ text[at + 2] = "x"
(* Fault: the prefix 0x is not known.                                      *)
DecimalEnd(at) == After(Digits, at)
IntegerEnd(at) == IF Prefixed(at) THEN After(HexDigits, at + 2) ELSE After(Digits, at)

Init ==
  /\ text \in UNION {[1..n -> Characters] : n \in 0..MaxLength}
  /\ index = 0 /\ line = 0 /\ column = 0 /\ tokens = <<>> /\ failed = FALSE

More == ~failed /\ index < Len(text)
Character == text[index + 1]         \* the character looked at

(* Fault: the space is not passed.                                         *)
SpaceStays == More /\ Character = "space" /\ UNCHANGED vars
Space ==
  /\ More /\ Character = "space"
  /\ index' = index + 1 /\ column' = column + 1 /\ UNCHANGED <<text, line, tokens, failed>>
(* Fault: the column goes on after a newline.                              *)
NewlineKeepsColumn ==
  /\ More /\ Character = "newline"
  /\ index' = index + 1 /\ line' = line + 1 /\ column' = column + 1
  /\ tokens' = Append(tokens, Token("newline", Here, Position(index + 1, line + 1, column + 1)))
  /\ UNCHANGED <<text, failed>>
Newline ==
  /\ More /\ Character = "newline"
  /\ index' = index + 1 /\ line' = line + 1 /\ column' = 0
  /\ tokens' = Append(tokens, Token("newline", Here, Position(index + 1, line + 1, 0)))
  /\ UNCHANGED <<text, failed>>
Emit(kind, end) ==
  LET after == column + end - index
  IN /\ index' = end /\ column' = after
     /\ tokens' = Append(tokens, Token(kind, Here, Position(end, line, after)))
     /\ UNCHANGED <<text, line, failed>>
Single == More /\ \E kind \in SingleKind(Character) : Emit(kind, index + 1)
Integer == More /\ Character \in Digits /\ Emit("integer", IntegerEnd(index))
Identifier == More /\ Character \in Letters /\ Emit("identifier", After(Letters \cup Digits, index))
(* Fault: the character is passed over.                                    *)
PassedOver ==
  /\ More /\ Character \notin {"space", "newline"} \cup Digits \cup Letters
  /\ SingleKind(Character) = {}
  /\ index' = index + 1 /\ column' = column + 1 /\ UNCHANGED <<text, line, tokens, failed>>
Unsupported ==
  /\ More /\ Character \notin {"space", "newline"} \cup Digits \cup Letters /\ SingleKind(Character) = {}
  /\ failed' = TRUE /\ tokens' = <<>> /\ UNCHANGED <<text, index, line, column>>

Next == Space \/ Newline \/ Single \/ Integer \/ Identifier \/ Unsupported
Spec == Init /\ [][Next]_vars /\ WF_vars(Next)

-----------------------------------------------------------------------------
TextOf(from, to) == SubSeq(text, from + 1, to)
(* Words, by the characters they are made of.                              *)
IsInteger(word) ==
  /\ word # <<>> /\ word[1] \in Digits
  /\ \/ ToSet(word) \subseteq Digits
     \/ /\ Len(word) > 1 /\ word[1] = "0" /\ word[2] = "x"
        /\ \A k \in 3..Len(word) : word[k] \in HexDigits
IsIdentifier(word) == word # <<>> /\ word[1] \in Letters /\ ToSet(word) \subseteq Letters \cup Digits
IsWord(kind, word) ==
  CASE kind = "integer"    -> IsInteger(word)
    [] kind = "identifier" -> IsIdentifier(word)
    [] kind = "newline"    -> word = <<"newline">>
    [] OTHER -> kind \in DOMAIN Singles /\ word = <<Singles[kind]>>

Newlines(upTo) == {k \in 1..upTo : text[k] = "newline"}
PositionAt(offset) ==
  Position(offset, Cardinality(Newlines(offset)), offset - Max({0} \cup Newlines(offset)))

(* Every token is a word of its kind, as long as it can be, and what lies  *)
(* between the tokens read so far is spaces.                               *)
LongestWords ==
  /\ \A k \in DOMAIN tokens :
       LET t == tokens[k]  b == t.begin.byte_offset  e == t.end.byte_offset
       IN /\ IsWord(t.kind, TextOf(b, e))
          /\ e < Len(text) => ~IsWord(t.kind, TextOf(b, e + 1))
          /\ k > 1 => tokens[k - 1].end.byte_offset <= b
  /\ ~failed => \A c \in 1..index :
       (\E k \in DOMAIN tokens : c \in (tokens[k].begin.byte_offset + 1)..tokens[k].end.byte_offset)
         \/ text[c] = "space"

(* Lines and columns are those of the text (x86_tests.cpp, the source      *)
(* spans of tokens).                                                       *)
PositionsExact ==
  \A k \in DOMAIN tokens : \A p \in {tokens[k].begin, tokens[k].end} :
    p = PositionAt(p.byte_offset)

(* A text is refused for a character no token starts with, and only then.  *)
RefusedForACharacter ==
  LET known == {"space", "newline"} \cup Digits \cup Letters \cup {Singles[k] : k \in DOMAIN Singles}
      foreign == Characters \ known
  IN /\ failed => text[index + 1] \in foreign
     /\ ~failed /\ index = Len(text) => ToSet(text) \cap foreign = {}

(* Tokens are the longest words of the text, at their positions, and only  *)
(* a character without a token is refused.                                 *)
TokensExact == LongestWords /\ PositionsExact /\ RefusedForACharacter

(* Every text is read to its end, or to the character it is refused for:   *)
(* the loop passes at least one character each time.  That the thread runs *)
(* on is the fairness.                                                     *)
Reads == <>(failed \/ index = Len(text))
=============================================================================
