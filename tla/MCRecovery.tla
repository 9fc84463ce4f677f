------------------------------ MODULE MCRecovery ------------------------------
(* Recovery over programs with two registers of two lanes.                 *)
EXTENDS RecoverySemantics

McTypes == {"unknown", "f32", "i32", "f32x2"}
McOps == {"zero", "copy", "add", "xor", "rcp"}
McRegisters == {"x", "y"}
McScalars == {"f32", "i32"}
McLowerable == {"add", "xor"}
McSignature(op, types, type) ==
  /\ Len(types) = 2 /\ types = <<type, type>>
  /\ op = "add" => type = "f32"
McCells == {"x", "y"} \X {0, 1}

SliceOf(r) == [reg |-> r, off |-> 0, width |-> 2, lane |-> <<>>]
Register(r) == [kind |-> "register", slice |-> SliceOf(r)]
Addr(base, disp) == [base |-> base, disp |-> disp, width |-> 64]
Memory(a) == [kind |-> "memory", address |-> a]
Old(lane) == [role |-> "old_destination", operand |-> 0, lane |-> lane]
Source(lane) == [role |-> "source", operand |-> 2, lane |-> lane]
Expr(op, inputs) == [op |-> op, inputs |-> inputs]
Vector(type, lanes) == [type |-> type, count |-> 2, lanes |-> lanes]
WriteX(value) == [kind |-> "write", dest |-> SliceOf("x"), value |-> value]

(* One instruction "x := value" with a second operand.                     *)
Assign(source, type, l0, l1) ==
  [operands |-> <<Register("x"), source>>, effects |-> <<WriteX(Vector(type, <<l0, l1>>))>>]
Load(a) == Assign(Memory(a), "f32", Expr("copy", <<Source(0)>>), Expr("copy", <<Source(1)>>))
Store(a) == [operands |-> <<Memory(a), Register("x")>>,
             effects |-> <<[kind |-> "store", address |-> a]>>]
A == Addr(1, 0)
B == Addr(1, 8)
C == Addr(2, 0)

Nop   == [operands |-> <<>>, effects |-> <<>>]
Zero  == Assign(Register("x"), "f32", Expr("zero", <<>>), Expr("zero", <<>>))
IZero == Assign(Register("x"), "i32", Expr("zero", <<>>), Expr("zero", <<>>))
Move  == Assign(Register("y"), "f32", Expr("copy", <<Source(0)>>), Expr("copy", <<Source(1)>>))
Addss == Assign(Register("y"), "f32", Expr("add", <<Old(0), Source(0)>>), Expr("copy", <<Old(1)>>))
Shuf  == Assign(Register("y"), "f32", Expr("copy", <<Old(1)>>), Expr("copy", <<Source(0)>>))
IXor  == Assign(Register("y"), "i32", Expr("xor", <<Old(0), Old(0)>>), Expr("add", <<Old(1), Old(1)>>))
Odd   == Assign([kind |-> "other"], "f32", Expr("copy", <<Source(0)>>), Expr("rcp", <<Old(1)>>))
Short == [operands |-> <<Register("x")>>,
          effects |-> <<WriteX(Vector("f32", <<Expr("copy", <<Source(0)>>)>>))>>]
Bare  == Assign(Register("y"), "f32", Expr("copy", <<>>), Expr("zero", <<>>))

BlockOf(instrs, preds, succs) == [instrs |-> instrs, preds |-> preds, succs |-> succs]
Prog(blocks) == [entry |-> 1, blocks |-> blocks]

Straight(s) == Prog(<<BlockOf(s, <<>>, <<>>)>>)
Diamond(e, l, r, j) == Prog(<<BlockOf(e, <<>>, <<2, 3>>), BlockOf(l, <<1>>, <<4>>),
                              BlockOf(r, <<1>>, <<4>>), BlockOf(j, <<2, 3>>, <<>>)>>)
Loop(e, b, x) == Prog(<<BlockOf(e, <<>>, <<2>>), BlockOf(b, <<1, 2>>, <<2, 3>>), BlockOf(x, <<2>>, <<>>)>>)

Lane(r, lane) == [reg |-> r, off |-> lane, width |-> 1, lane |-> <<lane, 2>>]
Ask(lane, b, pos, phase, type) ==
  Query(Lane("x", lane), [block |-> b, pos |-> pos, phase |-> phase], type)

Asks(prog, queries, depth) ==
  [prog |-> prog, queries |-> queries, maxDepth |-> depth, mayBarrier |-> TRUE]

Alphabet == {Nop, Zero, Move, Addss, Shuf, Load(A), Store(A), Store(B), Store(C)}
Odds == {IZero, IXor, Odd, Short, Bare}

StraightCalls ==
  {Asks(Straight(<<a, b, c>>),
        <<Ask(0, 1, 3, "after", t), Ask(1, 1, 3, "before", t), Ask(0, 1, 3, "after", t)>>, d) :
     a \in Alphabet, b \in Alphabet \cup Odds, c \in {Addss, Load(A), Shuf, IXor},
     t \in {"unknown", "f32"}, d \in {64}}
DiamondCalls ==
  {Asks(Diamond(e, <<l>>, r, <<j>>), <<Ask(0, 4, 1, "after", t), Ask(1, 4, 1, "after", t)>>, d) :
     e \in {<<Nop>>, <<Store(A)>>, <<Zero>>}, l \in {Nop, Zero, Load(A), IZero, Move, Short, Bare},
     r \in {<<>>, <<Zero>>, <<Move>>, <<Load(A)>>, <<Addss>>, <<Store(B)>>}, j \in {Nop, Addss, Load(A)},
     t \in {"unknown", "f32x2"}, d \in {4, 64}}
LoopCalls ==
  {Asks(Loop(e, <<b, c>>, <<x>>), <<Ask(0, 3, 1, "after", "f32"), Ask(0, 2, 1, "before", "f32")>>, d) :
     e \in {<<Nop>>, <<Zero>>, <<>>}, b \in {Nop, Addss, Shuf, Move}, c \in {Nop, Shuf, Zero, Load(C), Addss},
     x \in {Nop, Addss, Load(A)}, d \in {3, 5, 64}}

(* Nothing but empty predecessors, and stores that may alias do not count. *)
OtherCalls ==
  {Asks(Prog(<<BlockOf(<<>>, <<>>, <<2>>), BlockOf(<<b>>, <<1>>, <<>>)>>),
        <<Ask(0, 2, 1, "after", "f32")>>, 64) : b \in {Nop, Addss}}
  \cup {[Asks(Straight(<<s, Load(A)>>), <<Ask(0, 1, 2, "after", "f32")>>, 64)
          EXCEPT !.mayBarrier = FALSE] : s \in {Store(A), Store(B), Store(C)}}

McCalls == OtherCalls \cup StraightCalls \cup DiamondCalls \cup LoopCalls

(* A loop that starts at the function's entry block.                       *)
EntryLoop(b, x) == Prog(<<BlockOf(b, <<1>>, <<1, 2>>), BlockOf(x, <<1>>, <<>>)>>)
EntryLoopCalls ==
  {Asks(EntryLoop(<<Nop, c>>, <<Nop>>), <<Ask(0, 1, 1, "before", "f32")>>, 64) : c \in {Zero, Addss}}

(* A store that follows a load in the body of a loop.                      *)
CarriedStoreCalls ==
  {Asks(Loop(<<Nop>>, <<Load(A), s>>, <<Nop>>), <<Ask(0, 2, 1, "after", "f32")>>, 64) :
     s \in {Store(A), Store(C)}}
=============================================================================
