------------------------------ MODULE X86Parser ------------------------------
(***************************************************************************)
(* parser::parse (lib/x86/parser.cpp), token by token: where it is in the  *)
(* line, what it has of the instruction, and what it refuses.              *)
(***************************************************************************)
EXTENDS Sorting, SequencesExt, FiniteSetsExt

CONSTANTS Names,             \* texts of identifiers
          Values,            \* what integers are worth: past a maximum, too large
          MaxUnsigned,       \* the largest uint64_t
          MaxDisplacement,   \* the largest int64_t, a smaller one
          MaxTokens          \* bound: tokens read
ASSUME IntegersAssumption == MaxUnsigned \in Nat /\ MaxDisplacement \in 0..MaxUnsigned

VARIABLES mode,              \* the token expected next
          current, memory,   \* the instruction and the memory operand being read
          instructions,      \* those complete
          error,
          parsed             \* the tokens read and, last, their end
parseVars == <<mode, current, memory, instructions, error, parsed>>

Name(name) == [kind |-> "identifier", name |-> name]
IntegerToken(value) == [kind |-> "integer", value |-> value]
Symbol(kind) == [kind |-> kind]
Tokens ==
  {Name(n) : n \in Names} \cup {IntegerToken(v) : v \in Values}
    \cup {Symbol(k) : k \in {"comma", "plus", "minus", "left_bracket", "right_bracket", "newline"}}

NamedRegister(name) == [kind |-> "register", name |-> name]
Immediate(value) == [kind |-> "immediate", value |-> value]
MemoryAt(base, displacement) == [kind |-> "memory", base |-> base, displacement |-> displacement]

(* An instruction and the tokens it spans, first and last.                 *)
Instruction(mnemonic, operands, begin, end) ==
  [mnemonic |-> mnemonic, operands |-> operands, begin |-> begin, end |-> end]
This == Len(parsed) + 1

(* parse_integer: a malformed text (0x) has no value, here -1.             *)
ParsesInteger(t) == t.value \in 0..MaxUnsigned

ParseInit ==
  /\ mode = "line" /\ error = "none"
  /\ current = Instruction("", <<>>, 0, 0) /\ memory = MemoryAt("", 0)
  /\ instructions = <<>> /\ parsed = <<>>

Read(t) == error = "none" /\ mode # "end" /\ Len(parsed) < MaxTokens /\ parsed' = Append(parsed, t)
Fail(code) == error' = code /\ UNCHANGED <<mode, current, memory, instructions>>
WithOperand(operand) == [current EXCEPT !.operands = Append(@, operand), !.end = This]
(* Fault: the end of the span is set by the mnemonic alone.                *)
TookWithoutEnd(operand) ==
  /\ current' = [current EXCEPT !.operands = Append(@, operand)]
  /\ mode' = "separator" /\ UNCHANGED <<memory, instructions, error>>
Took(operand) ==
  current' = WithOperand(operand) /\ mode' = "separator" /\ UNCHANGED <<memory, instructions, error>>

Mnemonic(t) ==
  /\ mode = "line" /\ t.kind # "newline"
  /\ IF t.kind # "identifier" THEN Fail("expected_mnemonic")
     ELSE /\ current' = Instruction(t.name, <<>>, This, This) /\ mode' = "operand"
          /\ UNCHANGED <<memory, instructions, error>>
BlankLine(t) ==
  mode = "line" /\ t.kind = "newline" /\ UNCHANGED <<mode, current, memory, instructions, error>>

(* At an operand, also of an instruction without any.                      *)
Operand(t) ==
  /\ mode = "operand" /\ t.kind # "newline"
  /\ CASE t.kind = "identifier" -> Took(NamedRegister(t.name))
       [] t.kind = "integer" ->
            IF ParsesInteger(t) THEN Took(Immediate(t.value)) ELSE Fail("invalid_integer")
       [] t.kind = "left_bracket" -> mode' = "base" /\ UNCHANGED <<current, memory, instructions, error>>
       [] OTHER -> Fail("invalid_operand")
Separator(t) ==
  /\ mode = "separator" /\ t.kind # "newline"
  /\ IF t.kind # "comma" THEN Fail("expected_comma")
     ELSE mode' = "operand" /\ UNCHANGED <<current, memory, instructions, error>>
Base(t) ==
  /\ mode = "base"
  /\ IF t.kind # "identifier" THEN Fail("expected_memory_base")
     ELSE /\ memory' = MemoryAt(t.name, 0) /\ mode' = "sign"
          /\ UNCHANGED <<current, instructions, error>>
CloseMemory(t) ==
  IF t.kind # "right_bracket" THEN Fail("expected_memory_end")
  ELSE Took(memory)
Sign(t) ==
  /\ mode = "sign"
  /\ IF t.kind \in {"plus", "minus"}
     THEN mode' = t.kind /\ UNCHANGED <<current, memory, instructions, error>>
     ELSE CloseMemory(t)
(* Fault: what fits an unsigned integer fits the displacement.             *)
FitsUnsigned(t) == ParsesInteger(t)
FitsDisplacement(t) == ParsesInteger(t) /\ t.value <= MaxDisplacement
Displacement(t) ==
  /\ mode \in {"plus", "minus"}
  /\ IF t.kind # "integer" THEN Fail("expected_displacement")
     ELSE IF ~FitsDisplacement(t) THEN Fail("invalid_integer")
     ELSE /\ memory' = [memory EXCEPT !.displacement = IF mode = "minus" THEN -t.value ELSE t.value]
          /\ mode' = "close" /\ UNCHANGED <<current, instructions, error>>
Close(t) == mode = "close" /\ CloseMemory(t)

(* The end of the line: a newline, which the next round skips, or of the   *)
(* tokens.                                                                 *)
TrailingComma == mode = "operand" /\ current.operands # <<>>
Complete(next) ==
  IF TrailingComma THEN Fail("trailing_comma")
  ELSE /\ instructions' = Append(instructions, current) /\ mode' = next
       /\ UNCHANGED <<current, memory, error>>
EndOfLine(t) == mode \in {"operand", "separator"} /\ t.kind = "newline" /\ Complete("line")

EndOfTokens ==
  /\ error = "none" /\ mode # "end" /\ parsed' = Append(parsed, Symbol("end"))
  /\ CASE mode = "line" -> mode' = "end" /\ UNCHANGED <<current, memory, instructions, error>>
       [] mode \in {"operand", "separator"} -> Complete("end")
       [] mode = "base" -> Fail("expected_memory_base")
       [] mode \in {"plus", "minus"} -> Fail("expected_displacement")
       [] mode \in {"sign", "close"} -> Fail("expected_memory_end")

Parse(t) ==
  \/ Mnemonic(t) \/ BlankLine(t) \/ Operand(t) \/ Separator(t) \/ Base(t) \/ Sign(t)
  \/ Displacement(t) \/ Close(t) \/ EndOfLine(t)
ParseNext == (\E t \in Tokens : Read(t) /\ Parse(t)) \/ EndOfTokens
ParseSpec == ParseInit /\ [][ParseNext]_parseVars

-----------------------------------------------------------------------------
(* The syntax, by lines.  Between two neighbouring commas of a line is one *)
(* operand.                                                                *)
Terminators == {"newline", "end"}
Ends == {0} \cup {k \in DOMAIN parsed : parsed[k].kind \in Terminators}
Ended == {l \in Ends \X Ends : l[1] + 1 < l[2] /\ \A k \in Ends : ~(l[1] < k /\ k < l[2])}
LineOf(l) == SubSeq(parsed, l[1] + 1, l[2] - 1)
OpenLine == SubSeq(parsed, Max(Ends) + 1, Len(parsed))

LegalOperand(word) ==
  LET kinds == [k \in DOMAIN word |-> word[k].kind]
  IN \/ kinds = <<"identifier">>
     \/ kinds = <<"integer">> /\ word[1].value \in 0..MaxUnsigned
     \/ kinds = <<"left_bracket", "identifier", "right_bracket">>
     \/ /\ kinds \in {<<"left_bracket", "identifier", s, "integer", "right_bracket">> :
                        s \in {"plus", "minus"}}
        /\ word[4].value \in 0..MaxDisplacement
Meant(word) ==
  CASE Len(word) = 3 -> MemoryAt(word[2].name, 0)
    [] Len(word) = 5 ->
         MemoryAt(word[2].name, (IF word[3].kind = "minus" THEN -1 ELSE 1) * word[4].value)
    [] word[1].kind = "identifier" -> NamedRegister(word[1].name)
    [] word[1].kind = "integer" -> Immediate(word[1].value)

(* The words that follow a mnemonic, none if there are no tokens: a word   *)
(* is what lies behind as many commas as there are words before it.        *)
Commas(rest, upTo) == Cardinality({k \in 1..upTo : rest[k].kind = "comma"})
WordPlaces(rest, k) == {i \in DOMAIN rest : rest[i].kind # "comma" /\ Commas(rest, i) = k - 1}
Words(rest) ==
  IF rest = <<>> THEN <<>>
  ELSE [k \in 1..(Commas(rest, Len(rest)) + 1) |-> Picked(rest, WordPlaces(rest, k))]
LegalLine(word) ==
  /\ word # <<>> /\ word[1].kind = "identifier"
  /\ \A k \in DOMAIN Words(Tail(word)) : LegalOperand(Words(Tail(word))[k])

(* What can still come of a line: every beginning of a legal line is       *)
(* continued to one by one of these.                                       *)
Continuations ==
  LET name == [kind |-> "identifier", name |-> ""]
      zero == [kind |-> "integer", value |-> 0]
      close == Symbol("right_bracket")
  IN {<<>>, <<name>>, <<close>>, <<zero, close>>, <<name, close>>}
Viable(word) == \E c \in Continuations : LegalLine(word \o c)

-----------------------------------------------------------------------------
(* The parser goes on exactly as long as a legal line can still come: it   *)
(* refuses the first token after which none can, or the end of a line that *)
(* is not legal (x86_tests.cpp, "x86 parser rejects malformed integer      *)
(* tokens").                                                               *)
RejectsAtOnce ==
  LET legal == \A l \in Ended : LegalLine(LineOf(l))
  IN (error = "none") = (legal /\ (OpenLine # <<>> => Viable(OpenLine)))

(* The instructions complete are the lines read, in their order, each with *)
(* the operands its words mean and the span of its line.                   *)
Stands(i) ==
  LET words == Words(Tail(SubSeq(parsed, i.begin, i.end)))
  IN i = Instruction(parsed[i.begin].name, [k \in DOMAIN words |-> Meant(words[k])], i.begin, i.end)
LinesParsed ==
  error = "none" =>
    /\ {<<i.begin - 1, i.end + 1>> : i \in ToSet(instructions)} = Ended
    /\ \A j, k \in DOMAIN instructions : j < k => instructions[j].begin < instructions[k].begin
    /\ \A i \in ToSet(instructions) : Stands(i)

(* Exactly the legal lines are parsed, to what they mean.                  *)
ParsesTheLines == RejectsAtOnce /\ LinesParsed
=============================================================================
