------------------------- MODULE ProgramBuilderProofs -------------------------
(***************************************************************************)
(* Proofs about decoded_program_builder, for programs of any size: its     *)
(* invariants, and that it implements the control-flow graph.              *)
(***************************************************************************)
EXTENDS ProgramBuilder, SequenceTheorems, WellFoundedInduction, TLAPS

IInv == TypeOK /\ Reciprocal /\ EntryIsFirst /\ ListedOnce

-----------------------------------------------------------------------------
(* Appending to a sequence.                                                *)
LEMMA AppendedRange ==
  ASSUME NEW S, NEW s \in Seq(S), NEW x \in S
  PROVE  /\ Append(s, x) \in Seq(S) /\ Len(Append(s, x)) = Len(s) + 1
         /\ DOMAIN s = 1..Len(s) /\ Len(s) \in Nat
         /\ DOMAIN Append(s, x) = 1..(Len(s) + 1)
         /\ Append(s, x)[Len(s) + 1] = x
         /\ \A k \in DOMAIN s : Append(s, x)[k] = s[k]
         /\ Range(Append(s, x)) = Range(s) \cup {x}
<1>1. /\ Append(s, x) \in Seq(S) /\ Len(Append(s, x)) = Len(s) + 1
      /\ DOMAIN s = 1..Len(s) /\ Len(s) \in Nat
      /\ DOMAIN Append(s, x) = 1..(Len(s) + 1)
      /\ Append(s, x)[Len(s) + 1] = x
      /\ \A k \in DOMAIN s : Append(s, x)[k] = s[k]
  OBVIOUS
<1>2. Range(Append(s, x)) = Range(s) \cup {x}
  BY <1>1 DEF Range
<1> QED
  BY <1>1, <1>2

LEMMA AppendedInjective ==
  ASSUME NEW S, NEW s \in Seq(S), NEW x \in S, IsInjective(s), x \notin Range(s)
  PROVE  IsInjective(Append(s, x))
<1>1. /\ DOMAIN s = 1..Len(s) /\ Len(s) \in Nat
      /\ DOMAIN Append(s, x) = 1..(Len(s) + 1)
      /\ Append(s, x)[Len(s) + 1] = x
      /\ \A k \in DOMAIN s : Append(s, x)[k] = s[k]
  BY AppendedRange
<1>2. \A k \in DOMAIN s : s[k] # x
  BY DEF Range
<1> QED
  BY <1>1, <1>2 DEF IsInjective

LEMMA AppendedAscends ==
  ASSUME NEW n \in Nat, NEW s \in Seq(1..n), Ascends(s)
  PROVE  Ascends(Append(s, n + 1))
<1>1. s \in Seq(1..(n + 1)) /\ n + 1 \in 1..(n + 1)
  BY SeqMonotonic
<1>2. /\ DOMAIN s = 1..Len(s) /\ Len(s) \in Nat
      /\ DOMAIN Append(s, n + 1) = 1..(Len(s) + 1)
      /\ Append(s, n + 1)[Len(s) + 1] = n + 1
      /\ \A k \in DOMAIN s : Append(s, n + 1)[k] = s[k]
  BY <1>1, AppendedRange
<1>3. \A k \in DOMAIN s : s[k] < n + 1
  BY <1>2
<1> QED
  BY <1>2, <1>3 DEF Ascends

LEMMA FunctionIsSequence ==
  ASSUME NEW S, NEW n \in Nat, NEW s \in [1..n -> S]
  PROVE  s \in Seq(S)
BY SeqDef, Zenon

LEMMA Listing ==
  ASSUME NEW S, NEW s \in Seq(S)
  PROVE  Range(s) \subseteq S
<1>1. \A k \in DOMAIN s : s[k] \in S
  OBVIOUS
<1> QED
  BY <1>1 DEF Range

-----------------------------------------------------------------------------
(* The types, and how they grow.                                           *)
LEMMA Types ==
  ASSUME TypeOK
  PROVE  /\ Len(blocks) \in Nat /\ DOMAIN blocks = 1..Len(blocks)
         /\ Len(functions) \in Nat /\ DOMAIN functions = 1..Len(functions)
         /\ \A b \in DOMAIN blocks :
              /\ blocks[b].instrs \in Seq(1..instructions)
              /\ blocks[b].succs \in Seq(1..Len(blocks))
              /\ blocks[b].preds \in Seq(1..Len(blocks))
              /\ blocks[b] = [instrs |-> blocks[b].instrs, succs |-> blocks[b].succs,
                              preds |-> blocks[b].preds]
         /\ \A f \in DOMAIN functions :
              /\ functions[f].entry \in Nat \ {0}
              /\ functions[f].blocks \in Seq(1..Len(blocks))
              /\ functions[f] = [entry |-> functions[f].entry, blocks |-> functions[f].blocks]
<1>1. blocks \in Seq(Block) /\ functions \in Seq(Function)
  BY DEF TypeOK
<1>2. \A b \in DOMAIN blocks : blocks[b] \in Block
  BY <1>1
<1>3. \A f \in DOMAIN functions : functions[f] \in Function
  BY <1>1
<1> QED
  BY <1>1, <1>2, <1>3 DEF Block, Function

LEMMA Grow ==
  ASSUME NEW m \in Nat, NEW n \in Nat, m <= n
  PROVE  1..m \subseteq 1..n /\ Seq(1..m) \subseteq Seq(1..n)
<1>1. 1..m \subseteq 1..n
  OBVIOUS
<1> QED
  BY <1>1, SeqMonotonic

-----------------------------------------------------------------------------
LEMMA NothingListed ==
  /\ Range(<<>>) = {} /\ IsInjective(<<>>) /\ Ascends(<<>>)
<1>1. DOMAIN <<>> = {}
  OBVIOUS
<1>2. Range(<<>>) = {}
  BY <1>1 DEF Range
<1>3. IsInjective(<<>>) /\ Ascends(<<>>)
  BY <1>1 DEF IsInjective, Ascends
<1> QED
  BY <1>2, <1>3

LEMMA AddFunctionStep ==
  ASSUME IInv, AddFunction(TRUE)
  PROVE  /\ IInv'
         /\ Len(functions') = Len(functions) + 1
         /\ \A b : FunctionOf(b)' = FunctionOf(b)
<1> DEFINE new == [entry |-> 1, blocks |-> <<>>]
<1>1. /\ functions' = Append(functions, new) /\ outcome' = "ok"
      /\ UNCHANGED <<architecture, blocks, instructions, state>>
  BY DEF AddFunction
<1>2. /\ new \in Function /\ functions \in Seq(Function)
      /\ TypeOK /\ Reciprocal /\ EntryIsFirst /\ ListedOnce
  <2>1. TypeOK /\ Reciprocal /\ EntryIsFirst /\ ListedOnce
    BY DEF IInv
  <2>2. functions \in Seq(Function)
    BY <2>1 DEF TypeOK
  <2>3. <<>> \in Seq(1..Len(blocks))
    BY EmptySeq
  <2>4. ASSUME NEW s \in Seq(1..Len(blocks))
        PROVE  [entry |-> 1, blocks |-> s] \in Function
    BY DEF Function
  <2>5. new \in Function
    BY <2>3, <2>4
  <2> QED
    BY <2>1, <2>2, <2>5
<1>6. new.blocks = <<>> /\ Range(new.blocks) = {} /\ Ascends(new.blocks)
  BY NothingListed
<1> HIDE DEF new
<1>3. /\ functions' \in Seq(Function)
      /\ DOMAIN functions = 1..Len(functions) /\ Len(functions) \in Nat
      /\ DOMAIN functions' = 1..(Len(functions) + 1)
      /\ functions'[Len(functions) + 1] = new
      /\ \A f \in DOMAIN functions : functions'[f] = functions[f]
  <2>1. ASSUME NEW S, NEW s \in Seq(S), NEW x \in S
        PROVE  /\ Append(s, x) \in Seq(S)
               /\ DOMAIN s = 1..Len(s) /\ Len(s) \in Nat
               /\ DOMAIN Append(s, x) = 1..(Len(s) + 1)
               /\ Append(s, x)[Len(s) + 1] = x
               /\ \A k \in DOMAIN s : Append(s, x)[k] = s[k]
    BY AppendedRange
  <2> QED
    BY <1>1, <1>2, <2>1
<1>11. Len(functions') = Len(functions) + 1
  BY <1>1, <1>2
<1>4. TypeOK'
  <2>1. Function' = Function /\ Block' = Block
    BY <1>1 DEF Function, Block
  <2> QED
    BY <1>1, <1>2, <1>3, <2>1 DEF TypeOK, Outcomes
<1>5. Reciprocal'
  BY <1>1, <1>2 DEF Reciprocal
<1>10. /\ \A k : k \in DOMAIN functions' <=> k \in DOMAIN functions \/ k = Len(functions) + 1
       /\ Len(functions) + 1 \notin DOMAIN functions
  BY <1>3
<1>7. \A b : FunctionOf(b)' = FunctionOf(b)
  <2>1. ASSUME NEW b, NEW f \in DOMAIN functions'
        PROVE  b \in Range(functions'[f].blocks)
                 <=> f \in DOMAIN functions /\ b \in Range(functions[f].blocks)
    BY <1>3, <1>6, <1>10
  <2> QED
    BY <2>1, <1>10 DEF FunctionOf
<1>8. EntryIsFirst'
  BY <1>2, <1>3, <1>6, <1>10 DEF EntryIsFirst
<1>9. ListedOnce'
  <2>1. \A f \in DOMAIN functions' : Ascends(functions'[f].blocks)
    BY <1>2, <1>3, <1>6, <1>10 DEF ListedOnce
  <2>2. \A b \in DOMAIN blocks' : \E f \in DOMAIN functions' : FunctionOf(b)' = {f}
    BY <1>1, <1>2, <1>10, <1>7 DEF ListedOnce
  <2>3. \A i : BlockOf(i)' = BlockOf(i)
    BY <1>1 DEF BlockOf
  <2>4. \A i \in 1..instructions' : \E b \in DOMAIN blocks' : BlockOf(i)' = {b}
    BY <1>1, <1>2, <2>3 DEF ListedOnce
  <2>5. \A b \in DOMAIN blocks' : Ascends(blocks'[b].instrs)
    BY <1>1, <1>2 DEF ListedOnce
  <2> QED
    BY <2>1, <2>2, <2>4, <2>5 DEF ListedOnce
<1> QED
  BY <1>4, <1>5, <1>7, <1>8, <1>9, <1>11 DEF IInv

LEMMA AddBlockStep ==
  ASSUME IInv, NEW f \in DOMAIN functions, AddBlock(f)
  PROVE  /\ IInv'
         /\ Len(functions') = Len(functions) /\ Len(blocks') = Len(blocks) + 1
         /\ \A b : FunctionOf(b)' = IF b = Len(blocks) + 1 THEN {f} ELSE FunctionOf(b)
         /\ \A i : BlockOf(i)' = BlockOf(i)
         /\ Edges' = Edges
<1> DEFINE id == Len(blocks) + 1
           new == NewBlock
           old == functions[f]
           grown == WithBlock(old, id)
<1>1. /\ blocks' = Append(blocks, new) /\ outcome' = "ok"
      /\ functions' = [functions EXCEPT ![f] = grown]
      /\ UNCHANGED <<architecture, instructions, state>>
  BY DEF AddBlock
<1>2. TypeOK /\ functions \in Seq(Function) /\ blocks \in Seq(Block) /\ instructions \in Nat
  BY DEF IInv, TypeOK
<1>3. new.instrs = <<>> /\ new.succs = <<>> /\ new.preds = <<>>
  BY DEF NewBlock
<1>4. /\ DOMAIN blocks = 1..Len(blocks) /\ Len(blocks) \in Nat
      /\ Len(blocks') = id /\ DOMAIN blocks' = 1..id
      /\ blocks'[id] = new
      /\ \A b \in DOMAIN blocks : blocks'[b] = blocks[b]
  BY <1>1, <1>2
<1>5. /\ Seq(1..Len(blocks)) \subseteq Seq(1..id) /\ id \in 1..id /\ id \notin DOMAIN blocks
  BY <1>4, Grow
<1>6. blocks' \in Seq(Block)'
  <2>1. Block \subseteq Block'
    BY <1>1, <1>4, <1>5 DEF Block
  <2>2. new \in Block'
    BY <1>1, <1>4, EmptySeq DEF Block, NewBlock
  <2>3. blocks \in Seq(Block')
    BY <1>2, <2>1, SeqMonotonic
  <2> HIDE DEF new
  <2> QED
    BY <1>1, <2>2, <2>3
<1>7. /\ old.blocks \in Seq(1..Len(blocks)) /\ old.entry \in Nat \ {0}
      /\ Append(old.blocks, id) \in Seq(1..id)
      /\ Range(Append(old.blocks, id)) = Range(old.blocks) \cup {id}
      /\ Ascends(Append(old.blocks, id))
      /\ Append(old.blocks, id) # <<>>
      /\ Append(old.blocks, id)[1] = IF old.blocks = <<>> THEN id ELSE old.blocks[1]
  <2>1. old.blocks \in Seq(1..Len(blocks)) /\ old.entry \in Nat \ {0}
    BY <1>2, Types
  <2>2. Ascends(old.blocks)
    BY DEF IInv, ListedOnce
  <2>3. Ascends(Append(old.blocks, id))
    BY <1>4, <2>1, <2>2, AppendedAscends
  <2>4. old.blocks \in Seq(1..id)
    BY <1>5, <2>1
  <2>5. /\ Append(old.blocks, id) \in Seq(1..id)
        /\ Range(Append(old.blocks, id)) = Range(old.blocks) \cup {id}
    BY <1>5, <2>4, AppendedRange
  <2>6. /\ Append(old.blocks, id) # <<>>
        /\ Append(old.blocks, id)[1] = IF old.blocks = <<>> THEN id ELSE old.blocks[1]
    BY <2>1, SMTT(30)
  <2> QED
    BY <2>1, <2>3, <2>5, <2>6
<1>16. grown.entry = (IF old.blocks = <<>> THEN id ELSE old.entry) /\ grown.blocks = Append(old.blocks, id)
  BY DEF WithBlock
<1> HIDE DEF id, old, new, grown
<1>8. /\ DOMAIN functions' = DOMAIN functions /\ functions'[f] = grown
      /\ \A g \in DOMAIN functions : g # f => functions'[g] = functions[g]
  BY <1>1, <1>2
<1>9. functions' \in Seq(Function)'
  <2>1. Function \subseteq Function'
    BY <1>4, <1>5 DEF Function
  <2>2. grown \in Function'
    BY <1>4, <1>7 DEF Function, id, grown, WithBlock
  <2>3. functions \in Seq(Function')
    BY <1>2, <2>1, SeqMonotonic
  <2> QED
    BY <1>1, <1>2, <2>2, <2>3, ExceptSeq
<1>10. TypeOK'
  BY <1>1, <1>2, <1>6, <1>9 DEF TypeOK, Outcomes
<1>11. EntryIsFirst'
  BY <1>7, <1>8, <1>16 DEF IInv, EntryIsFirst, old
<1>12. Range(<<>>) = {} /\ IsInjective(<<>>) /\ Ascends(<<>>)
  BY NothingListed
<1>13. Reciprocal'
  <2>1. \A b \in DOMAIN blocks : id \notin Range(blocks[b].succs) /\ id \notin Range(blocks[b].preds)
    BY <1>2, <1>4, <1>5, Types, SMTT(30) DEF Range
  <2> QED
    BY <1>3, <1>4, <1>12, <2>1 DEF IInv, Reciprocal, id
<1>14. \A b : FunctionOf(b)' = IF b = id THEN {f} ELSE FunctionOf(b)
  <2>1. \A g \in DOMAIN functions : id \notin Range(functions[g].blocks)
    BY <1>2, <1>4, <1>5, Types, SMTT(30) DEF Range
  <2>2. ASSUME NEW b, NEW g \in DOMAIN functions
        PROVE  b \in Range(functions'[g].blocks)
                 <=> b \in Range(functions[g].blocks) \/ (b = id /\ g = f)
    <3>1. CASE g = f
      <4>1. Range(functions'[g].blocks) = Range(functions[g].blocks) \cup {id}
        BY <1>7, <1>8, <1>16, <3>1 DEF old
      <4> QED
        BY <3>1, <4>1
    <3>2. CASE g # f
      BY <1>8, <3>2
    <3> QED
      BY <3>1, <3>2
  <2>3. ASSUME NEW b, b # id
        PROVE  FunctionOf(b)' = FunctionOf(b)
    BY <1>8, <2>2, <2>3 DEF FunctionOf
  <2>4. ASSUME NEW b, b = id
        PROVE  FunctionOf(b)' = {f}
    <3>1. \A g \in DOMAIN functions' : b \in Range(functions'[g].blocks) <=> g = f
      BY <1>8, <2>1, <2>2, <2>4
    <3> QED
      BY <1>8, <3>1 DEF FunctionOf
  <2> QED
    BY <2>3, <2>4
<1>17. \A i : BlockOf(i)' = BlockOf(i)
  BY <1>3, <1>4, <1>5, <1>12 DEF BlockOf, id
<1>18. Len(functions') = Len(functions)
  BY <1>1, <1>2
<1>19. Edges' = Edges
  <2>1. \A c \in DOMAIN blocks : id \notin Range(blocks[c].succs)
    BY <1>2, <1>4, <1>5, Types, SMTT(30) DEF Range
  <2>2. ASSUME NEW c \in DOMAIN blocks', NEW d \in DOMAIN blocks'
        PROVE  d \in Range(blocks'[c].succs)
                 <=> c \in DOMAIN blocks /\ d \in DOMAIN blocks /\ d \in Range(blocks[c].succs)
    BY <1>3, <1>4, <1>5, <1>12, <2>1 DEF id
  <2>3. DOMAIN blocks \subseteq DOMAIN blocks'
    BY <1>4, <1>5
  <2> QED
    BY <2>2, <2>3 DEF Edges
<1>15. ListedOnce'
  <2>1. \A g \in DOMAIN functions' : Ascends(functions'[g].blocks)
    BY <1>7, <1>8, <1>16 DEF IInv, ListedOnce
  <2>2. \A b \in DOMAIN blocks' : Ascends(blocks'[b].instrs)
    BY <1>3, <1>4, <1>12 DEF IInv, ListedOnce, id
  <2>3. \A b \in DOMAIN blocks' : \E g \in DOMAIN functions' : FunctionOf(b)' = {g}
    <3>1. ASSUME NEW b \in DOMAIN blocks
          PROVE  \E g \in DOMAIN functions' : FunctionOf(b)' = {g}
      <4>1. FunctionOf(b)' = FunctionOf(b)
        BY <1>5, <1>14
      <4>2. \E g \in DOMAIN functions : FunctionOf(b) = {g}
        BY DEF IInv, ListedOnce
      <4> QED
        BY <1>8, <4>1, <4>2
    <3>2. ASSUME NEW b, b = id
          PROVE  \E g \in DOMAIN functions' : FunctionOf(b)' = {g}
      BY <1>8, <1>14, <3>2
    <3>3. \A b \in DOMAIN blocks' : b \in DOMAIN blocks \/ b = id
      BY <1>4 DEF id
    <3> QED
      BY <3>1, <3>2, <3>3
  <2>5. \A i \in 1..instructions' : \E b \in DOMAIN blocks' : BlockOf(i)' = {b}
    BY <1>1, <1>4, <1>17 DEF IInv, ListedOnce, id
  <2> QED
    BY <2>1, <2>2, <2>3, <2>5 DEF ListedOnce
<1> QED
  BY <1>4, <1>10, <1>11, <1>13, <1>14, <1>15, <1>17, <1>18, <1>19 DEF IInv, id

LEMMA AddInstructionStep ==
  ASSUME IInv, NEW b \in DOMAIN blocks, AddInstruction(b)
  PROVE  /\ IInv'
         /\ Edges' = Edges /\ Len(blocks') = Len(blocks)
         /\ \A c : FunctionOf(c)' = FunctionOf(c)
         /\ \A i : BlockOf(i)' = IF i = instructions + 1 THEN {b} ELSE BlockOf(i)
<1> DEFINE id == instructions + 1
           old == blocks[b]
           grown == Listed(old, id)
<1>1. /\ blocks' = [blocks EXCEPT ![b] = grown] /\ outcome' = "ok"
      /\ instructions' = id
      /\ UNCHANGED <<architecture, functions, state>>
  BY DEF AddInstruction, Known, NewInstruction
<1>2. /\ TypeOK /\ Reciprocal /\ EntryIsFirst /\ ListedOnce
      /\ instructions \in Nat /\ blocks \in Seq(Block) /\ functions \in Seq(Function)
  BY DEF IInv, TypeOK
<1>3. /\ DOMAIN blocks = 1..Len(blocks) /\ Len(blocks) \in Nat
      /\ \A c \in DOMAIN blocks :
           /\ blocks[c].instrs \in Seq(1..instructions)
           /\ blocks[c].succs \in Seq(1..Len(blocks))
           /\ blocks[c].preds \in Seq(1..Len(blocks))
      /\ old = [instrs |-> old.instrs, succs |-> old.succs, preds |-> old.preds]
  BY <1>2, Types
<1>4. grown = [instrs |-> Append(old.instrs, id), succs |-> old.succs, preds |-> old.preds]
  BY DEF Listed
<1>5. /\ Seq(1..instructions) \subseteq Seq(1..id) /\ id \in 1..id /\ id \notin 1..instructions
  BY <1>2, Grow
<1>6. /\ Append(old.instrs, id) \in Seq(1..id)
      /\ Range(Append(old.instrs, id)) = Range(old.instrs) \cup {id}
      /\ Ascends(Append(old.instrs, id))
  <2>1. old.instrs \in Seq(1..instructions) /\ Ascends(old.instrs)
    BY <1>2, <1>3 DEF ListedOnce
  <2>2. Ascends(Append(old.instrs, id))
    BY <1>2, <2>1, AppendedAscends
  <2>3. old.instrs \in Seq(1..id)
    BY <1>5, <2>1
  <2> QED
    BY <1>5, <2>2, <2>3, AppendedRange
<1>7. Len(blocks') = Len(blocks) /\ DOMAIN blocks' = DOMAIN blocks
  BY <1>1, <1>2
<1>8. blocks'[b] = grown /\ \A c \in DOMAIN blocks : c # b => blocks'[c] = blocks[c]
  BY <1>1
<1>9. /\ blocks'[b].instrs = Append(old.instrs, id)
      /\ \A c \in DOMAIN blocks : blocks'[c].succs = blocks[c].succs /\ blocks'[c].preds = blocks[c].preds
  BY <1>4, <1>8
<1>10. TypeOK'
  <2>1. Block \subseteq Block' /\ Function' = Function
    BY <1>1, <1>5, <1>7 DEF Block, Function
  <2>2. grown \in Block'
    <3>1. Block' = [instrs : Seq(1..id), succs : Seq(1..Len(blocks)), preds : Seq(1..Len(blocks))]
      BY <1>1, <1>7 DEF Block
    <3>2. /\ Append(old.instrs, id) \in Seq(1..id)
          /\ old.succs \in Seq(1..Len(blocks)) /\ old.preds \in Seq(1..Len(blocks))
      BY <1>3, <1>6
    <3>3. ASSUME NEW X, NEW Y, NEW x \in X, NEW y \in Y, NEW z \in Y
          PROVE  [instrs |-> x, succs |-> y, preds |-> z] \in [instrs : X, succs : Y, preds : Y]
      OBVIOUS
    <3> HIDE DEF id, old, grown
    <3>4. grown \in [instrs : Seq(1..id), succs : Seq(1..Len(blocks)), preds : Seq(1..Len(blocks))]
      BY <1>4, <3>2, <3>3
    <3> QED
      BY <3>1, <3>4
  <2>3. blocks \in Seq(Block')
    BY <1>2, <2>1, SeqMonotonic
  <2> HIDE DEF grown
  <2>4. blocks' \in Seq(Block')
    BY <1>1, <2>2, <2>3, ExceptSeq
  <2> QED
    BY <1>1, <1>2, <2>1, <2>4 DEF TypeOK, Outcomes
<1> HIDE DEF id, old, grown
<1>11. Reciprocal'
  BY <1>2, <1>7, <1>9 DEF Reciprocal
<1>12. EntryIsFirst'
  BY <1>1, <1>2 DEF EntryIsFirst
<1>13. \A c : FunctionOf(c)' = FunctionOf(c)
  BY <1>1 DEF FunctionOf
<1>14. \A i : BlockOf(i)' = IF i = id THEN {b} ELSE BlockOf(i)
  <2>1. \A c \in DOMAIN blocks : id \notin Range(blocks[c].instrs)
    <3>1. ASSUME NEW c \in DOMAIN blocks
          PROVE  Range(blocks[c].instrs) \subseteq 1..instructions
      BY <1>3, Listing
    <3> QED
      BY <1>5, <3>1
  <2>2. ASSUME NEW i, NEW c \in DOMAIN blocks
        PROVE  i \in Range(blocks'[c].instrs)
                 <=> i \in Range(blocks[c].instrs) \/ (i = id /\ c = b)
    <3>1. CASE c = b
      <4>1. Range(blocks'[c].instrs) = Range(blocks[c].instrs) \cup {id}
        BY <1>6, <1>9, <3>1 DEF old
      <4> QED
        BY <3>1, <4>1
    <3>2. CASE c # b
      BY <1>8, <3>2
    <3> QED
      BY <3>1, <3>2
  <2>3. ASSUME NEW i, i # id
        PROVE  BlockOf(i)' = BlockOf(i)
    BY <1>7, <2>2, <2>3 DEF BlockOf
  <2>4. ASSUME NEW i, i = id
        PROVE  BlockOf(i)' = {b}
    <3>1. \A c \in DOMAIN blocks' : i \in Range(blocks'[c].instrs) <=> c = b
      BY <1>7, <2>1, <2>2, <2>4
    <3> QED
      BY <1>7, <3>1 DEF BlockOf
  <2> QED
    BY <2>3, <2>4
<1>15. ListedOnce'
  <2>1. \A f \in DOMAIN functions' : Ascends(functions'[f].blocks)
    BY <1>1, <1>2 DEF ListedOnce
  <2>2. \A c \in DOMAIN blocks' : Ascends(blocks'[c].instrs)
    BY <1>2, <1>6, <1>7, <1>8, <1>9 DEF ListedOnce
  <2>3. \A c \in DOMAIN blocks' : \E f \in DOMAIN functions' : FunctionOf(c)' = {f}
    BY <1>1, <1>2, <1>7, <1>13 DEF ListedOnce
  <2>4. \A i \in 1..instructions' : \E c \in DOMAIN blocks' : BlockOf(i)' = {c}
    <3>1. ASSUME NEW i \in 1..instructions
          PROVE  \E c \in DOMAIN blocks' : BlockOf(i)' = {c}
      <4>1. BlockOf(i)' = BlockOf(i)
        BY <1>5, <1>14
      <4>2. \E c \in DOMAIN blocks : BlockOf(i) = {c}
        BY <1>2 DEF ListedOnce
      <4> QED
        BY <1>7, <4>1, <4>2
    <3>2. ASSUME NEW i, i = id
          PROVE  \E c \in DOMAIN blocks' : BlockOf(i)' = {c}
      BY <1>7, <1>14, <3>2
    <3>3. \A i \in 1..instructions' : i \in 1..instructions \/ i = id
      BY <1>1, <1>2 DEF id
    <3> QED
      BY <3>1, <3>2, <3>3
  <2> QED
    BY <2>1, <2>2, <2>3, <2>4 DEF ListedOnce
<1>16. Edges' = Edges
  BY <1>7, <1>9 DEF Edges
<1> QED
  BY <1>7, <1>10, <1>11, <1>12, <1>13, <1>14, <1>15, <1>16 DEF IInv, id

LEMMA AddEdgeStep ==
  ASSUME IInv, NEW a \in DOMAIN blocks, NEW b \in DOMAIN blocks,
         ~Already(a, b), AddEdge(a, b)
  PROVE  /\ IInv'
         /\ \A c : FunctionOf(c)' = FunctionOf(c)
         /\ \A i : BlockOf(i)' = BlockOf(i)
         /\ Edges' = Edges \cup {<<a, b>>} /\ Len(blocks') = Len(blocks)
<1>1. /\ blocks' = Linked(a, b) /\ outcome' = "ok"
      /\ UNCHANGED <<architecture, functions, instructions, state>>
  BY DEF AddEdge, Known
<1>2. /\ TypeOK /\ Reciprocal /\ EntryIsFirst /\ ListedOnce
      /\ instructions \in Nat /\ blocks \in Seq(Block) /\ functions \in Seq(Function)
      /\ b \notin Range(blocks[a].succs)
  BY DEF IInv, TypeOK, Already
<1>3. /\ DOMAIN blocks = 1..Len(blocks) /\ Len(blocks) \in Nat
      /\ \A c \in DOMAIN blocks :
           /\ blocks[c].instrs \in Seq(1..instructions)
           /\ blocks[c].succs \in Seq(1..Len(blocks))
           /\ blocks[c].preds \in Seq(1..Len(blocks))
  BY <1>2, Types
<1>4. a \notin Range(blocks[b].preds)
  BY <1>2 DEF Reciprocal
<1>5. /\ DOMAIN blocks' = DOMAIN blocks
      /\ \A c \in DOMAIN blocks :
           /\ blocks'[c].instrs = blocks[c].instrs
           /\ blocks'[c].succs = IF c = a THEN Append(blocks[c].succs, b) ELSE blocks[c].succs
           /\ blocks'[c].preds = IF c = b THEN Append(blocks[c].preds, a) ELSE blocks[c].preds
           /\ blocks'[c] = [instrs |-> blocks'[c].instrs, succs |-> blocks'[c].succs,
                            preds |-> blocks'[c].preds]
  BY <1>1 DEF Linked
<1>6. \A c \in DOMAIN blocks :
        /\ Range(blocks'[c].succs) = Range(blocks[c].succs) \cup (IF c = a THEN {b} ELSE {})
        /\ Range(blocks'[c].preds) = Range(blocks[c].preds) \cup (IF c = b THEN {a} ELSE {})
        /\ blocks'[c].succs \in Seq(1..Len(blocks)) /\ blocks'[c].preds \in Seq(1..Len(blocks))
  <2>1. ASSUME NEW c \in DOMAIN blocks
        PROVE  /\ Range(blocks'[c].succs) = Range(blocks[c].succs) \cup (IF c = a THEN {b} ELSE {})
               /\ blocks'[c].succs \in Seq(1..Len(blocks))
    <3>1. blocks[c].succs \in Seq(1..Len(blocks)) /\ b \in 1..Len(blocks)
      BY <1>3
    <3>2. CASE c = a
      <4>1. blocks'[c].succs = Append(blocks[c].succs, b)
        BY <1>5, <3>2
      <4> QED
        BY <3>1, <3>2, <4>1, AppendedRange
    <3>3. CASE c # a
      BY <1>5, <3>1, <3>3
    <3> QED
      BY <3>2, <3>3
  <2>2. ASSUME NEW c \in DOMAIN blocks
        PROVE  /\ Range(blocks'[c].preds) = Range(blocks[c].preds) \cup (IF c = b THEN {a} ELSE {})
               /\ blocks'[c].preds \in Seq(1..Len(blocks))
    <3>1. blocks[c].preds \in Seq(1..Len(blocks)) /\ a \in 1..Len(blocks)
      BY <1>3
    <3>2. CASE c = b
      <4>1. blocks'[c].preds = Append(blocks[c].preds, a)
        BY <1>5, <3>2
      <4> QED
        BY <3>1, <3>2, <4>1, AppendedRange
    <3>3. CASE c # b
      BY <1>5, <3>1, <3>3
    <3> QED
      BY <3>2, <3>3
  <2> QED
    BY <2>1, <2>2
<1>7. TypeOK'
  <2>1. blocks' \in Seq(Block) /\ Len(blocks') = Len(blocks)
    <3>1. ASSUME NEW c \in 1..Len(blocks)
          PROVE  blocks'[c] \in Block
      <4>1. /\ blocks'[c].instrs \in Seq(1..instructions)
            /\ blocks'[c].succs \in Seq(1..Len(blocks)) /\ blocks'[c].preds \in Seq(1..Len(blocks))
            /\ blocks'[c] = [instrs |-> blocks'[c].instrs, succs |-> blocks'[c].succs,
                             preds |-> blocks'[c].preds]
        BY <1>3, <1>5, <1>6
      <4> QED
        BY <4>1 DEF Block
    <3>2. blocks' = [c \in 1..Len(blocks) |-> blocks'[c]]
      BY <1>1, <1>3, <1>5 DEF Linked
    <3>3. blocks' \in [1..Len(blocks) -> Block]
      BY <3>1, <3>2
    <3>4. blocks' \in Seq(Block)
      BY <1>3, <3>3, FunctionIsSequence
    <3> QED
      BY <1>3, <1>5, <3>4
  <2>2. Block' = Block /\ Function' = Function
    BY <1>1, <2>1 DEF Block, Function
  <2> QED
    BY <1>1, <1>2, <2>1, <2>2 DEF TypeOK, Outcomes
<1>14. Len(blocks') = Len(blocks)
  BY <1>3, <1>5, <1>7, Types DEF TypeOK
<1>8. Reciprocal'
  <2>1. ASSUME NEW c \in DOMAIN blocks, NEW d \in DOMAIN blocks
        PROVE  d \in Range(blocks'[c].succs) <=> c \in Range(blocks'[d].preds)
    <3>1. d \in Range(blocks[c].succs) <=> c \in Range(blocks[d].preds)
      BY <1>2 DEF Reciprocal
    <3> QED
      BY <1>6, <3>1
  <2>2. ASSUME NEW c \in DOMAIN blocks
        PROVE  IsInjective(blocks'[c].succs) /\ IsInjective(blocks'[c].preds)
    <3>1. IsInjective(blocks[c].succs) /\ IsInjective(blocks[c].preds)
      BY <1>2 DEF Reciprocal
    <3>2. IsInjective(blocks'[c].succs)
      <4>1. CASE c = a
        <5>1. blocks[c].succs \in Seq(1..Len(blocks)) /\ b \in 1..Len(blocks)
          BY <1>3
        <5>2. blocks'[c].succs = Append(blocks[c].succs, b) /\ b \notin Range(blocks[c].succs)
          BY <1>2, <1>5, <4>1
        <5> QED
          BY <3>1, <5>1, <5>2, AppendedInjective
      <4>2. CASE c # a
        BY <1>5, <3>1, <4>2
      <4> QED
        BY <4>1, <4>2
    <3>3. IsInjective(blocks'[c].preds)
      <4>1. CASE c = b
        <5>1. blocks[c].preds \in Seq(1..Len(blocks)) /\ a \in 1..Len(blocks)
          BY <1>3
        <5>2. blocks'[c].preds = Append(blocks[c].preds, a) /\ a \notin Range(blocks[c].preds)
          BY <1>4, <1>5, <4>1
        <5> QED
          BY <3>1, <5>1, <5>2, AppendedInjective
      <4>2. CASE c # b
        BY <1>5, <3>1, <4>2
      <4> QED
        BY <4>1, <4>2
    <3> QED
      BY <3>2, <3>3
  <2> QED
    BY <1>5, <2>1, <2>2 DEF Reciprocal
<1>9. EntryIsFirst'
  BY <1>1, <1>2 DEF EntryIsFirst
<1>10. \A c : FunctionOf(c)' = FunctionOf(c)
  BY <1>1 DEF FunctionOf
<1>11. \A i : BlockOf(i)' = BlockOf(i)
  BY <1>5 DEF BlockOf
<1>12. ListedOnce'
  <2>1. \A f \in DOMAIN functions' : Ascends(functions'[f].blocks)
    BY <1>1, <1>2 DEF ListedOnce
  <2>2. \A c \in DOMAIN blocks' : Ascends(blocks'[c].instrs)
    BY <1>2, <1>5 DEF ListedOnce
  <2>3. \A c \in DOMAIN blocks' : \E f \in DOMAIN functions' : FunctionOf(c)' = {f}
    BY <1>1, <1>2, <1>5, <1>10 DEF ListedOnce
  <2>4. \A i \in 1..instructions' : \E c \in DOMAIN blocks' : BlockOf(i)' = {c}
    BY <1>1, <1>2, <1>5, <1>11 DEF ListedOnce
  <2> QED
    BY <2>1, <2>2, <2>3, <2>4 DEF ListedOnce
<1>13. Edges' = Edges \cup {<<a, b>>}
  <2>1. ASSUME NEW c \in DOMAIN blocks, NEW d \in DOMAIN blocks
        PROVE  d \in Range(blocks'[c].succs)
                 <=> d \in Range(blocks[c].succs) \/ (c = a /\ d = b)
    BY <1>6
  <2> QED
    BY <1>5, <2>1 DEF Edges
<1> QED
  BY <1>7, <1>8, <1>9, <1>10, <1>11, <1>12, <1>13, <1>14 DEF IInv

-----------------------------------------------------------------------------
(* The rest of validate: what a program must be for every check to pass.   *)
LEMMA LeastIsMember ==
  ASSUME NEW T, T \subseteq Nat, T # {}
  PROVE  Min(T) \in T
<1>1. PICK Below : Below = OpToRel(<, Nat)
  OBVIOUS
<1>2. IsWellFoundedOn(Below, Nat)
  BY <1>1, NatLessThanWellFounded
<1>3. \A j, k \in Nat : j < k => <<j, k>> \in Below
  BY <1>1 DEF OpToRel
<1>4. \E x \in T : \A y \in T : ~(<<y, x>> \in Below)
  BY <1>2, WFMin
<1>5. PICK x \in T : \A y \in T : ~(<<y, x>> \in Below)
  BY <1>4
<1>6. ASSUME NEW y \in T
      PROVE  x =< y
  <2>1. x \in Nat /\ y \in Nat /\ ~(y < x)
    BY <1>3, <1>5
  <2> QED
    BY <2>1
<1> QED
  BY <1>6 DEF Min

LEMMA FirstIsOk ==
  ASSUME NEW n \in Nat, NEW codes, DOMAIN codes = 1..n
  PROVE  /\ First(codes) = "ok" <=> \A k \in 1..n : codes[k] = "ok"
         /\ First(codes) # "ok" => \E k \in 1..n : First(codes) = codes[k]
<1> DEFINE bad == {k \in DOMAIN codes : codes[k] # "ok"}
<1>1. First(codes) = IF bad = {} THEN "ok" ELSE codes[Min(bad)]
  BY DEF First
<1>2. CASE bad = {}
  BY <1>1, <1>2
<1>3. CASE bad # {}
  <2>1. bad \subseteq Nat
    OBVIOUS
  <2>2. Min(bad) \in bad
    BY <1>3, <2>1, LeastIsMember
  <2> QED
    BY <1>1, <1>3, <2>2
<1> QED
  BY <1>2, <1>3

LEMMA FirstIsOutcome ==
  ASSUME NEW n \in Nat, NEW codes, DOMAIN codes = 1..n, \A k \in 1..n : codes[k] \in Outcomes
  PROVE  First(codes) \in Outcomes
<1>1. "ok" \in Outcomes
  BY DEF Outcomes
<1> QED
  BY <1>1, FirstIsOk

LEMMA FirstOfFour ==
  ASSUME NEW a, NEW b, NEW c, NEW d
  PROVE  First(<<a, b, c, d>>) = "ok" <=> a = "ok" /\ b = "ok" /\ c = "ok" /\ d = "ok"
<1>1. PICK codes : codes = <<a, b, c, d>>
  OBVIOUS
<1>2. /\ DOMAIN codes = 1..4
      /\ codes[1] = a /\ codes[2] = b /\ codes[3] = c /\ codes[4] = d
  BY <1>1
<1>3. First(codes) = "ok" <=> \A k \in 1..4 : codes[k] = "ok"
  BY <1>2, FirstIsOk
<1>4. (\A k \in 1..4 : codes[k] = "ok")
        <=> a = "ok" /\ b = "ok" /\ c = "ok" /\ d = "ok"
  BY <1>2
<1> QED
  BY <1>1, <1>3, <1>4

LEMMA FirstOfFive ==
  ASSUME NEW a, NEW b, NEW c, NEW d, NEW e
  PROVE  First(<<a, b, c, d, e>>) = "ok"
           <=> a = "ok" /\ b = "ok" /\ c = "ok" /\ d = "ok" /\ e = "ok"
<1>1. PICK codes : codes = <<a, b, c, d, e>>
  OBVIOUS
<1>2. /\ DOMAIN codes = 1..5
      /\ codes[1] = a /\ codes[2] = b /\ codes[3] = c /\ codes[4] = d /\ codes[5] = e
  BY <1>1
<1>3. First(codes) = "ok" <=> \A k \in 1..5 : codes[k] = "ok"
  BY <1>2, FirstIsOk
<1>4. (\A k \in 1..5 : codes[k] = "ok")
        <=> a = "ok" /\ b = "ok" /\ c = "ok" /\ d = "ok" /\ e = "ok"
  BY <1>2
<1> QED
  BY <1>1, <1>3, <1>4

LEMMA AscendsIsInjective ==
  ASSUME NEW n \in Nat, NEW s \in Seq(1..n), Ascends(s)
  PROVE  IsInjective(s)
<1>1. /\ DOMAIN s = 1..Len(s) /\ \A k \in DOMAIN s : s[k] \in Nat
  OBVIOUS
<1> QED
  BY <1>1 DEF Ascends, IsInjective

(* The function of a block, as the refinement mapping names it.            *)
Parent == [b \in DOMAIN blocks |-> CHOOSE f \in FunctionOf(b) : TRUE]
Home == [i \in 1..instructions |-> CHOOSE b \in BlockOf(i) : TRUE]

LEMMA Parents ==
  ASSUME IInv
  PROVE  /\ DOMAIN Parent = DOMAIN blocks
         /\ \A b \in DOMAIN blocks :
              Parent[b] \in DOMAIN functions /\ FunctionOf(b) = {Parent[b]}
<1>1. ASSUME NEW b \in DOMAIN blocks
      PROVE  Parent[b] \in DOMAIN functions /\ FunctionOf(b) = {Parent[b]}
  <2>1. PICK f \in DOMAIN functions : FunctionOf(b) = {f}
    BY DEF IInv, ListedOnce
  <2>2. Parent[b] = CHOOSE g \in {f} : TRUE
    BY <2>1 DEF Parent
  <2> QED
    BY <2>1, <2>2
<1> QED
  BY <1>1 DEF Parent

LEMMA FunctionChecks ==
  ASSUME IInv, NEW f \in DOMAIN functions
  PROVE  FunctionError(f) = "ok" <=> \E b \in DOMAIN blocks : Parent[b] = f
<1> DEFINE list == functions[f].blocks
<1>1. /\ list \in Seq(1..Len(blocks)) /\ DOMAIN blocks = 1..Len(blocks)
      /\ Range(list) \subseteq DOMAIN blocks
  BY Types, Listing DEF IInv
<1>2. \A b \in DOMAIN blocks : Parent[b] = f <=> b \in Range(list)
  BY Parents DEF FunctionOf
<1>3. list # <<>> => list[1] \in Range(list) /\ functions[f].entry = list[1]
  BY <1>1 DEF IInv, EntryIsFirst, Range
<1>4. list = <<>> => Range(list) = {}
  BY NothingListed
<1>5. FunctionError(f) = "ok" <=> list # <<>>
  BY <1>1, <1>3 DEF FunctionError
<1> QED
  BY <1>1, <1>2, <1>3, <1>4, <1>5

LEMMA OwnerChecks ==
  ASSUME IInv
  PROVE  OwnerError = "ok"
<1>1. \A f \in DOMAIN functions : IsInjective(functions[f].blocks)
  <2>1. ASSUME NEW f \in DOMAIN functions
        PROVE  IsInjective(functions[f].blocks)
    <3>1. functions[f].blocks \in Seq(1..Len(blocks)) /\ Len(blocks) \in Nat
      BY Types DEF IInv
    <3>2. Ascends(functions[f].blocks)
      BY DEF IInv, ListedOnce
    <3> QED
      BY <3>1, <3>2, AscendsIsInjective
  <2> QED
    BY <2>1
<1>2. \A b \in DOMAIN blocks : \A f, g \in FunctionOf(b) : f = g
  BY DEF IInv, ListedOnce
<1> QED
  BY <1>1, <1>2 DEF OwnerError

LEMMA InstructionChecks ==
  ASSUME IInv, NEW b \in DOMAIN blocks, NEW k \in DOMAIN blocks[b].instrs
  PROVE  InstructionError(b, k) = "ok"
<1> DEFINE i == blocks[b].instrs[k]
<1>1. /\ blocks[b].instrs \in Seq(1..instructions) /\ DOMAIN blocks = 1..Len(blocks)
      /\ instructions \in Nat
  BY Types DEF IInv, TypeOK
<1>2. i \in 1..instructions /\ i \in Range(blocks[b].instrs)
  BY <1>1 DEF Range
<1>3. \A c \in 1..(b - 1) : i \notin Range(blocks[c].instrs)
  <2>1. PICK d \in DOMAIN blocks : BlockOf(i) = {d}
    BY <1>2 DEF IInv, ListedOnce
  <2>2. \A c \in DOMAIN blocks : i \in Range(blocks[c].instrs) => c = b
    BY <1>2, <2>1 DEF BlockOf
  <2> QED
    <3>1. ASSUME NEW c \in 1..(b - 1)
          PROVE  c \in DOMAIN blocks /\ c # b
      BY <1>1
    <3> QED
      BY <2>2, <3>1
<1>4. \A j \in 1..(k - 1) : blocks[b].instrs[j] # i
  <2>1. Ascends(blocks[b].instrs)
    BY DEF IInv, ListedOnce
  <2>2. \A j \in 1..(k - 1) : j \in DOMAIN blocks[b].instrs /\ j < k
    BY <1>1
  <2>3. \A j \in DOMAIN blocks[b].instrs : j < k => blocks[b].instrs[j] < i
    BY <2>1 DEF Ascends
  <2> QED
    BY <1>1, <1>2, <2>2, <2>3
<1>5. i \notin Referenced(b, k)
  BY <1>3, <1>4 DEF Referenced
<1> QED
  BY <1>2, <1>5 DEF InstructionError

LEMMA BlockChecks ==
  ASSUME IInv, NEW b \in DOMAIN blocks
  PROVE  BlockError(b) = "ok"
           <=> \A c \in Range(blocks[b].succs) \cup Range(blocks[b].preds) : Parent[b] = Parent[c]
<1> DEFINE block == blocks[b]
           instrs == [k \in DOMAIN block.instrs |-> InstructionError(b, k)]
           succs == [k \in DOMAIN block.succs |->
                       EdgeError(b, block.succs[k], blocks[block.succs[k]].preds)]
           preds == [k \in DOMAIN block.preds |->
                       EdgeError(b, block.preds[k], blocks[block.preds[k]].succs)]
           last == IF IsInjective(block.succs) /\ IsInjective(block.preds)
                   THEN "ok" ELSE "duplicate_cfg_edge"
<1>1. /\ block.instrs \in Seq(1..instructions)
      /\ block.succs \in Seq(1..Len(blocks)) /\ block.preds \in Seq(1..Len(blocks))
      /\ DOMAIN blocks = 1..Len(blocks)
  BY Types DEF IInv
<1>2. /\ DOMAIN block.instrs = 1..Len(block.instrs) /\ Len(block.instrs) \in Nat
      /\ DOMAIN block.succs = 1..Len(block.succs) /\ Len(block.succs) \in Nat
      /\ DOMAIN block.preds = 1..Len(block.preds) /\ Len(block.preds) \in Nat
  BY <1>1
<1>3. BlockError(b) = First(<<First(instrs), First(succs), First(preds), last>>)
  BY DEF BlockError
<1>4. First(instrs) = "ok"
  <2>1. DOMAIN instrs = 1..Len(block.instrs) /\ \A k \in 1..Len(block.instrs) : instrs[k] = "ok"
    BY <1>2, InstructionChecks
  <2> HIDE DEF instrs
  <2> QED
    BY <1>2, <2>1, FirstIsOk
<1>5. last = "ok"
  BY DEF IInv, Reciprocal
<1>6. \A c, d \in DOMAIN blocks : FunctionOf(c) = FunctionOf(d) <=> Parent[c] = Parent[d]
  BY Parents
<1>7. First(succs) = "ok" <=> \A c \in Range(block.succs) : Parent[b] = Parent[c]
  <2>1. ASSUME NEW k \in DOMAIN block.succs
        PROVE  succs[k] = "ok" <=> Parent[b] = Parent[block.succs[k]]
    <3>1. block.succs[k] \in DOMAIN blocks /\ block.succs[k] \in Range(block.succs)
      BY <1>1 DEF Range
    <3>2. b \in Range(blocks[block.succs[k]].preds)
      BY <3>1 DEF IInv, Reciprocal
    <3> QED
      BY <1>6, <3>1, <3>2 DEF EdgeError
  <2>2. DOMAIN succs = 1..Len(block.succs)
    BY <1>2
  <2> HIDE DEF succs
  <2>3. First(succs) = "ok" <=> \A k \in 1..Len(block.succs) : succs[k] = "ok"
    BY <1>2, <2>2, FirstIsOk
  <2> QED
    BY <1>2, <2>1, <2>3 DEF Range
<1>8. First(preds) = "ok" <=> \A c \in Range(block.preds) : Parent[b] = Parent[c]
  <2>1. ASSUME NEW k \in DOMAIN block.preds
        PROVE  preds[k] = "ok" <=> Parent[b] = Parent[block.preds[k]]
    <3>1. block.preds[k] \in DOMAIN blocks /\ block.preds[k] \in Range(block.preds)
      BY <1>1 DEF Range
    <3>2. b \in Range(blocks[block.preds[k]].succs)
      BY <3>1 DEF IInv, Reciprocal
    <3> QED
      BY <1>6, <3>1, <3>2 DEF EdgeError
  <2>2. DOMAIN preds = 1..Len(block.preds)
    BY <1>2
  <2> HIDE DEF preds
  <2>3. First(preds) = "ok" <=> \A k \in 1..Len(block.preds) : preds[k] = "ok"
    BY <1>2, <2>2, FirstIsOk
  <2> QED
    BY <1>2, <2>1, <2>3 DEF Range
<1> HIDE DEF instrs, succs, preds, last
<1> QED
  BY <1>3, <1>4, <1>5, <1>7, <1>8, FirstOfFour

(* What validate accepts is what ControlFlowGraph calls a program.         *)
LEMMA ValidateAccepts ==
  ASSUME IInv
  PROVE  Validate = "ok" <=> Graph!IsProgram
<1> DEFINE named == IF architecture THEN "ok" ELSE "invalid_architecture"
           byFunction == [f \in DOMAIN functions |-> FunctionError(f)]
           byBlock == [b \in DOMAIN blocks |-> BlockError(b)]
           missing == IF \A i \in 1..instructions :
                           \E b \in DOMAIN blocks : i \in Range(blocks[b].instrs)
                      THEN "ok" ELSE "missing_instruction_ref"
<1>1. /\ DOMAIN blocks = 1..Len(blocks) /\ Len(blocks) \in Nat
      /\ DOMAIN functions = 1..Len(functions) /\ Len(functions) \in Nat
      /\ DOMAIN Parent = DOMAIN blocks
  BY Types, Parents DEF IInv
<1>2. Validate = First(<<named, First(byFunction), OwnerError, First(byBlock), missing>>)
  BY DEF Validate
<1>3. named = "ok" <=> architecture
  OBVIOUS
<1>4. First(byFunction) = "ok" <=> \A f \in 1..Len(functions) : \E b \in DOMAIN Parent : Parent[b] = f
  <2>1. \A f \in 1..Len(functions) : byFunction[f] = "ok" <=> \E b \in DOMAIN blocks : Parent[b] = f
    BY <1>1, FunctionChecks
  <2>2. DOMAIN byFunction = 1..Len(functions)
    BY <1>1
  <2> HIDE DEF byFunction
  <2>3. First(byFunction) = "ok" <=> \A f \in 1..Len(functions) : byFunction[f] = "ok"
    BY <1>1, <2>2, FirstIsOk
  <2> QED
    BY <1>1, <2>1, <2>3
<1>5. missing = "ok"
  BY DEF IInv, ListedOnce, BlockOf
<1>6. First(byBlock) = "ok" <=> \A e \in Edges : Parent[e[1]] = Parent[e[2]]
  <2>1. \A b \in 1..Len(blocks) :
          byBlock[b] = "ok"
            <=> \A c \in Range(blocks[b].succs) \cup Range(blocks[b].preds) : Parent[b] = Parent[c]
    BY <1>1, BlockChecks
  <2>2. DOMAIN byBlock = 1..Len(blocks)
    BY <1>1
  <2> HIDE DEF byBlock
  <2>3. First(byBlock) = "ok" <=> \A b \in 1..Len(blocks) : byBlock[b] = "ok"
    BY <1>1, <2>2, FirstIsOk
  <2>4. ASSUME NEW b \in DOMAIN blocks
        PROVE  Range(blocks[b].succs) \subseteq DOMAIN blocks
               /\ Range(blocks[b].preds) \subseteq DOMAIN blocks
    <3>1. blocks[b].succs \in Seq(DOMAIN blocks) /\ blocks[b].preds \in Seq(DOMAIN blocks)
      BY <1>1, Types DEF IInv
    <3> QED
      BY <3>1, Listing
  <2>5. \A b, c \in DOMAIN blocks : c \in Range(blocks[b].preds) <=> b \in Range(blocks[c].succs)
    BY DEF IInv, Reciprocal
  <2>6. \A b, c : <<b, c>> \in Edges
                    <=> b \in DOMAIN blocks /\ c \in DOMAIN blocks /\ c \in Range(blocks[b].succs)
    BY DEF Edges
  <2>7. ASSUME \A b \in 1..Len(blocks) : byBlock[b] = "ok", NEW e \in Edges
        PROVE  Parent[e[1]] = Parent[e[2]]
    <3>1. e[1] \in DOMAIN blocks /\ e[2] \in Range(blocks[e[1]].succs)
      BY DEF Edges
    <3> QED
      BY <1>1, <2>1, <2>7, <3>1
  <2>8. ASSUME \A e \in Edges : Parent[e[1]] = Parent[e[2]], NEW b \in 1..Len(blocks)
        PROVE  byBlock[b] = "ok"
    <3>1. \A c, d : <<c, d>> \in Edges => Parent[c] = Parent[d]
      BY <2>8
    <3>2. \A c \in Range(blocks[b].succs) : Parent[b] = Parent[c]
      BY <1>1, <2>4, <2>6, <3>1
    <3>3. \A c \in Range(blocks[b].preds) : Parent[b] = Parent[c]
      BY <1>1, <2>4, <2>5, <2>6, <3>1
    <3> QED
      BY <2>1, <3>2, <3>3
  <2> QED
    BY <2>3, <2>7, <2>8
<1> HIDE DEF named, byFunction, byBlock, missing
<1>7. Validate = "ok" <=> named = "ok" /\ First(byFunction) = "ok" /\ First(byBlock) = "ok"
  BY <1>2, <1>5, OwnerChecks, FirstOfFive
<1>8. Graph!IsProgram
        <=> /\ architecture
            /\ \A f \in 1..Len(functions) : \E b \in DOMAIN Parent : Parent[b] = f
            /\ \A e \in Edges : Parent[e[1]] = Parent[e[2]]
  BY DEF Graph!IsProgram, Parent
<1> QED
  BY <1>3, <1>4, <1>6, <1>7, <1>8

LEMMA BlockCodes ==
  ASSUME TypeOK, NEW b \in DOMAIN blocks
  PROVE  BlockError(b) \in Outcomes
<1> DEFINE block == blocks[b]
           instrs == [k \in DOMAIN block.instrs |-> InstructionError(b, k)]
           succs == [k \in DOMAIN block.succs |->
                       EdgeError(b, block.succs[k], blocks[block.succs[k]].preds)]
           preds == [k \in DOMAIN block.preds |->
                       EdgeError(b, block.preds[k], blocks[block.preds[k]].succs)]
           last == IF IsInjective(block.succs) /\ IsInjective(block.preds)
                   THEN "ok" ELSE "duplicate_cfg_edge"
<1>1. /\ DOMAIN block.instrs = 1..Len(block.instrs) /\ Len(block.instrs) \in Nat
      /\ DOMAIN block.succs = 1..Len(block.succs) /\ Len(block.succs) \in Nat
      /\ DOMAIN block.preds = 1..Len(block.preds) /\ Len(block.preds) \in Nat
  BY Types
<1>2. \A k : InstructionError(b, k) \in Outcomes
  BY DEF InstructionError, Outcomes
<1>3. \A c, back : EdgeError(b, c, back) \in Outcomes
  BY DEF EdgeError, Outcomes
<1>4. last \in Outcomes
  BY DEF Outcomes
<1>5. /\ DOMAIN instrs = 1..Len(block.instrs) /\ \A k \in 1..Len(block.instrs) : instrs[k] \in Outcomes
      /\ DOMAIN succs = 1..Len(block.succs) /\ \A k \in 1..Len(block.succs) : succs[k] \in Outcomes
      /\ DOMAIN preds = 1..Len(block.preds) /\ \A k \in 1..Len(block.preds) : preds[k] \in Outcomes
  BY <1>1, <1>2, <1>3
<1>6. PICK all : all = <<First(instrs), First(succs), First(preds), last>>
  OBVIOUS
<1>7. BlockError(b) = First(all)
  BY <1>6 DEF BlockError
<1> HIDE DEF instrs, succs, preds, last
<1>8. First(instrs) \in Outcomes /\ First(succs) \in Outcomes /\ First(preds) \in Outcomes
  BY <1>1, <1>5, FirstIsOutcome
<1>9. DOMAIN all = 1..4 /\ \A k \in 1..4 : all[k] \in Outcomes
  BY <1>4, <1>6, <1>8
<1> QED
  BY <1>7, <1>9, FirstIsOutcome

LEMMA ValidateCodes ==
  ASSUME TypeOK
  PROVE  Validate \in Outcomes
<1> DEFINE named == IF architecture THEN "ok" ELSE "invalid_architecture"
           byFunction == [f \in DOMAIN functions |-> FunctionError(f)]
           byBlock == [b \in DOMAIN blocks |-> BlockError(b)]
           missing == IF \A i \in 1..instructions :
                           \E b \in DOMAIN blocks : i \in Range(blocks[b].instrs)
                      THEN "ok" ELSE "missing_instruction_ref"
<1>1. /\ DOMAIN blocks = 1..Len(blocks) /\ Len(blocks) \in Nat
      /\ DOMAIN functions = 1..Len(functions) /\ Len(functions) \in Nat
  BY Types
<1>2. /\ named \in Outcomes /\ missing \in Outcomes /\ OwnerError \in Outcomes
      /\ \A f : FunctionError(f) \in Outcomes
  BY DEF Outcomes, OwnerError, FunctionError
<1>3. /\ DOMAIN byFunction = 1..Len(functions) /\ \A f \in 1..Len(functions) : byFunction[f] \in Outcomes
      /\ DOMAIN byBlock = 1..Len(blocks) /\ \A b \in 1..Len(blocks) : byBlock[b] \in Outcomes
  BY <1>1, <1>2, BlockCodes
<1>4. PICK all : all = <<named, First(byFunction), OwnerError, First(byBlock), missing>>
  OBVIOUS
<1>5. Validate = First(all)
  BY <1>4 DEF Validate
<1> HIDE DEF named, byFunction, byBlock, missing
<1>6. First(byFunction) \in Outcomes /\ First(byBlock) \in Outcomes
  BY <1>1, <1>3, FirstIsOutcome
<1>7. DOMAIN all = 1..5 /\ \A k \in 1..5 : all[k] \in Outcomes
  BY <1>2, <1>4, <1>6
<1> QED
  BY <1>5, <1>7, FirstIsOutcome

-----------------------------------------------------------------------------
(* A refused call changes the outcome only.                                *)
LEMMA RefuseStep ==
  ASSUME IInv, NEW code \in Outcomes, Refuse(code)
  PROVE  IInv' /\ UNCHANGED <<architecture, functions, blocks, instructions, state>>
<1>1. /\ UNCHANGED <<architecture, functions, blocks, instructions, state>>
      /\ outcome' \in Outcomes
  BY DEF Refuse
<1>2. TypeOK'
  BY <1>1 DEF IInv, TypeOK, Function, Block
<1>3. Reciprocal' /\ EntryIsFirst'
  BY <1>1 DEF IInv, Reciprocal, EntryIsFirst
<1>4. /\ \A b : FunctionOf(b)' = FunctionOf(b)
      /\ \A i : BlockOf(i)' = BlockOf(i)
  BY <1>1 DEF FunctionOf, BlockOf
<1>5. ListedOnce'
  BY <1>1, <1>4 DEF IInv, ListedOnce
<1> QED
  BY <1>1, <1>2, <1>3, <1>5 DEF IInv

LEMMA FreezeStep ==
  ASSUME IInv, Freeze
  PROVE  IInv'
<1>1. /\ UNCHANGED <<architecture, functions, blocks, instructions>>
      /\ outcome' \in Outcomes /\ state' \in {"building", "frozen", "rejected"}
  BY ValidateCodes DEF IInv, Freeze
<1>2. TypeOK'
  BY <1>1 DEF IInv, TypeOK, Function, Block
<1>3. Reciprocal' /\ EntryIsFirst'
  BY <1>1 DEF IInv, Reciprocal, EntryIsFirst
<1>4. /\ \A b : FunctionOf(b)' = FunctionOf(b)
      /\ \A i : BlockOf(i)' = BlockOf(i)
  BY <1>1 DEF FunctionOf, BlockOf
<1>5. ListedOnce'
  BY <1>1, <1>4 DEF IInv, ListedOnce
<1> QED
  BY <1>2, <1>3, <1>5 DEF IInv

-----------------------------------------------------------------------------
(* What the refinement mapping makes of a step.                            *)
LEMMA ParentSame ==
  ASSUME DOMAIN blocks' = DOMAIN blocks, \A b : FunctionOf(b)' = FunctionOf(b)
  PROVE  Parent' = Parent
BY DEF Parent

LEMMA HomeSame ==
  ASSUME instructions' = instructions, \A i : BlockOf(i)' = BlockOf(i)
  PROVE  Home' = Home
BY DEF Home

LEMMA ParentGrows ==
  ASSUME IInv, NEW f, DOMAIN blocks' = 1..(Len(blocks) + 1),
         \A b : FunctionOf(b)' = IF b = Len(blocks) + 1 THEN {f} ELSE FunctionOf(b)
  PROVE  Parent' = Append(Parent, f)
<1>1. DOMAIN blocks = 1..Len(blocks) /\ Len(blocks) \in Nat
  BY Types DEF IInv
<1>2. Parent = [b \in 1..Len(blocks) |-> Parent[b]] /\ Len(Parent) = Len(blocks)
  BY <1>1 DEF Parent
<1>3. Append(Parent, f) =
        [b \in 1..(Len(blocks) + 1) |-> IF b = Len(blocks) + 1 THEN f ELSE Parent[b]]
  BY <1>1, <1>2
<1>4. Parent' = [b \in 1..(Len(blocks) + 1) |-> CHOOSE g \in FunctionOf(b)' : TRUE]
  BY DEF Parent
<1>5. ASSUME NEW b \in 1..(Len(blocks) + 1)
      PROVE  (CHOOSE g \in FunctionOf(b)' : TRUE) = IF b = Len(blocks) + 1 THEN f ELSE Parent[b]
  <2>1. CASE b = Len(blocks) + 1
    <3>1. FunctionOf(b)' = {f}
      BY <2>1
    <3> QED
      BY <2>1, <3>1
  <2>2. CASE b # Len(blocks) + 1
    <3>1. FunctionOf(b)' = FunctionOf(b) /\ b \in DOMAIN blocks
      BY <1>1, <2>2
    <3>2. Parent[b] = CHOOSE g \in FunctionOf(b) : TRUE
      BY <3>1 DEF Parent
    <3> QED
      BY <2>2, <3>1, <3>2
  <2> QED
    BY <2>1, <2>2
<1> QED
  BY <1>3, <1>4, <1>5

LEMMA HomeGrows ==
  ASSUME IInv, NEW b, instructions' = instructions + 1,
         \A i : BlockOf(i)' = IF i = instructions + 1 THEN {b} ELSE BlockOf(i)
  PROVE  Home' = Append(Home, b)
<1>1. instructions \in Nat
  BY DEF IInv, TypeOK
<1>2. Home = [i \in 1..instructions |-> Home[i]] /\ Len(Home) = instructions
  BY <1>1 DEF Home
<1>3. Append(Home, b) =
        [i \in 1..(instructions + 1) |-> IF i = instructions + 1 THEN b ELSE Home[i]]
  BY <1>1, <1>2
<1>4. Home' = [i \in 1..(instructions + 1) |-> CHOOSE c \in BlockOf(i)' : TRUE]
  BY DEF Home
<1>5. ASSUME NEW i \in 1..(instructions + 1)
      PROVE  (CHOOSE c \in BlockOf(i)' : TRUE) = IF i = instructions + 1 THEN b ELSE Home[i]
  <2>1. CASE i = instructions + 1
    <3>1. BlockOf(i)' = {b}
      BY <2>1
    <3> QED
      BY <2>1, <3>1
  <2>2. CASE i # instructions + 1
    <3>1. BlockOf(i)' = BlockOf(i) /\ i \in 1..instructions
      BY <1>1, <2>2
    <3>2. Home[i] = CHOOSE c \in BlockOf(i) : TRUE
      BY <3>1 DEF Home
    <3> QED
      BY <2>2, <3>1, <3>2
  <2> QED
    BY <2>1, <2>2
<1> QED
  BY <1>3, <1>4, <1>5

-----------------------------------------------------------------------------
(* Every step keeps the invariant and is a step of the control-flow graph, *)
(* or a refusal, which the graph does not see.                             *)
Mapped == <<architecture, Len(functions), Parent, Home, Edges, state>>

LEMMA InitHolds ==
  ASSUME Init
  PROVE  IInv /\ Graph!Init
<1>1. DOMAIN functions = {} /\ DOMAIN blocks = {} /\ 1..instructions = {}
  BY DEF Init
<1>2. TypeOK
  BY EmptySeq DEF Init, TypeOK, Outcomes
<1>3. IInv
  BY <1>1, <1>2 DEF Init, IInv, Reciprocal, EntryIsFirst, ListedOnce
<1>4. Edges = {}
  BY <1>1 DEF Edges
<1>5. Len(functions) = 0
  BY DEF Init
<1>6. Parent = <<>> /\ Home = <<>>
  BY <1>1 DEF Parent, Home
<1> QED
  BY <1>3, <1>4, <1>5, <1>6 DEF Init, Graph!Init, Parent, Home

LEMMA StepHolds ==
  ASSUME IInv, Next
  PROVE  IInv' /\ (Graph!Next \/ UNCHANGED Mapped)
<1>1. /\ state = "building"
      /\ DOMAIN blocks = 1..Len(blocks) /\ Len(blocks) \in Nat
      /\ DOMAIN functions = 1..Len(functions) /\ Len(functions) \in Nat
      /\ DOMAIN Parent = DOMAIN blocks
  BY Types, Parents DEF IInv, Next
<1>2. ASSUME NEW code \in Outcomes, Refuse(code)
      PROVE  IInv' /\ UNCHANGED Mapped
  <2>1. IInv' /\ UNCHANGED <<architecture, functions, blocks, instructions, state>>
    BY <1>2, RefuseStep
  <2>2. Edges' = Edges
    BY <2>1 DEF Edges
  <2>3. Parent' = Parent /\ Home' = Home
    BY <2>1 DEF Parent, Home, FunctionOf, BlockOf
  <2> QED
    BY <2>1, <2>2, <2>3 DEF Mapped
<1>3. ASSUME NEW named \in BOOLEAN, AddFunction(named)
      PROVE  IInv' /\ (Graph!Next \/ UNCHANGED Mapped)
  <2>1. CASE ~named
    BY <1>2, <1>3, <2>1 DEF AddFunction, Outcomes
  <2>2. CASE named
    <3>1. AddFunction(TRUE)
      BY <1>3, <2>2 DEF AddFunction
    <3>2. UNCHANGED <<architecture, blocks, instructions, state>>
      BY <3>1 DEF AddFunction
    <3>3. /\ IInv' /\ Len(functions') = Len(functions) + 1
          /\ \A b : FunctionOf(b)' = FunctionOf(b)
      BY <3>1, AddFunctionStep
    <3>4. Edges' = Edges /\ \A i : BlockOf(i)' = BlockOf(i)
      BY <3>2 DEF Edges, BlockOf
    <3>5. Parent' = Parent /\ Home' = Home
      BY <3>2, <3>3, <3>4, ParentSame, HomeSame
    <3>6. Graph!AddFunction
      BY <3>2, <3>3, <3>4, <3>5 DEF Graph!AddFunction, Parent, Home
    <3> QED
      BY <1>1, <3>3, <3>6 DEF Graph!Next
  <2> QED
    BY <2>1, <2>2
<1>4. ASSUME NEW f \in 0..MaxFunctions, AddBlock(f)
      PROVE  IInv' /\ (Graph!Next \/ UNCHANGED Mapped)
  <2>1. CASE f \notin DOMAIN functions
    BY <1>2, <1>4, <2>1 DEF AddBlock, Outcomes
  <2>2. CASE f \in DOMAIN functions
    <3>1. UNCHANGED <<architecture, instructions, state>>
      BY <1>4, <2>2 DEF AddBlock
    <3>2. /\ IInv'
          /\ Len(functions') = Len(functions) /\ Len(blocks') = Len(blocks) + 1
          /\ \A b : FunctionOf(b)' = IF b = Len(blocks) + 1 THEN {f} ELSE FunctionOf(b)
          /\ \A i : BlockOf(i)' = BlockOf(i)
          /\ Edges' = Edges
      BY <1>4, <2>2, AddBlockStep
    <3>3. DOMAIN blocks' = 1..(Len(blocks) + 1)
      BY <1>1, <1>4, <2>2, <3>2 DEF AddBlock, IInv, TypeOK
    <3>4. Parent' = Append(Parent, f) /\ Home' = Home
      BY <3>1, <3>2, <3>3, ParentGrows, HomeSame
    <3>5. Graph!AddBlock
      BY <1>1, <2>2, <3>1, <3>2, <3>4 DEF Graph!AddBlock, Parent, Home
    <3> QED
      BY <1>1, <3>2, <3>5 DEF Graph!Next
  <2> QED
    BY <2>1, <2>2
<1>5. ASSUME NEW b \in 0..MaxBlocks, AddInstruction(b)
      PROVE  IInv' /\ (Graph!Next \/ UNCHANGED Mapped)
  <2>1. CASE ~Known(b)
    BY <1>2, <1>5, <2>1 DEF AddInstruction, Outcomes
  <2>2. CASE Known(b)
    <3>1. /\ UNCHANGED <<architecture, functions, state>>
          /\ instructions' = instructions + 1 /\ DOMAIN blocks' = DOMAIN blocks
      BY <1>5, <2>2 DEF AddInstruction
    <3>2. /\ IInv' /\ Edges' = Edges
          /\ \A c : FunctionOf(c)' = FunctionOf(c)
          /\ \A i : BlockOf(i)' = IF i = instructions + 1 THEN {b} ELSE BlockOf(i)
      BY <1>5, <2>2, AddInstructionStep DEF Known
    <3>3. Parent' = Parent /\ Home' = Append(Home, b)
      BY <3>1, <3>2, ParentSame, HomeGrows
    <3>4. Graph!AddInstruction
      BY <1>1, <2>2, <3>1, <3>2, <3>3 DEF Graph!AddInstruction, Known, Parent, Home
    <3> QED
      BY <1>1, <3>2, <3>4 DEF Graph!Next
  <2> QED
    BY <2>1, <2>2
<1>6. ASSUME NEW a \in 0..MaxBlocks, NEW b \in 0..MaxBlocks, AddEdge(a, b)
      PROVE  IInv' /\ (Graph!Next \/ UNCHANGED Mapped)
  <2>1. CASE ~Known(a) \/ ~Known(b)
    BY <1>2, <1>6, <2>1 DEF AddEdge, Outcomes
  <2>2. CASE Known(a) /\ Known(b) /\ Already(a, b)
    BY <1>2, <1>6, <2>2 DEF AddEdge, Outcomes
  <2>3. CASE Known(a) /\ Known(b) /\ ~Already(a, b)
    <3>1. /\ UNCHANGED <<architecture, functions, instructions, state>>
          /\ DOMAIN blocks' = DOMAIN blocks
      BY <1>6, <2>3 DEF AddEdge, Linked
    <3>2. /\ IInv' /\ Edges' = Edges \cup {<<a, b>>}
          /\ \A c : FunctionOf(c)' = FunctionOf(c)
          /\ \A i : BlockOf(i)' = BlockOf(i)
      BY <1>6, <2>3, AddEdgeStep DEF Known
    <3>3. Parent' = Parent /\ Home' = Home
      BY <3>1, <3>2, ParentSame, HomeSame
    <3>4. <<a, b>> \notin Edges
      BY <2>3 DEF Edges, Already
    <3>5. Graph!AddEdge
      BY <1>1, <2>3, <3>1, <3>2, <3>3, <3>4 DEF Graph!AddEdge, Known, Parent, Home
    <3> QED
      BY <1>1, <3>2, <3>5 DEF Graph!Next
  <2> QED
    BY <2>1, <2>2, <2>3
<1>7. CASE Freeze
  <2>1. IInv'
    BY <1>7, FreezeStep
  <2>2. /\ UNCHANGED <<architecture, functions, blocks, instructions>>
        /\ state' = IF Graph!IsProgram THEN "frozen" ELSE "rejected"
    BY <1>7, ValidateAccepts DEF Freeze
  <2>3. Edges' = Edges
    BY <2>2 DEF Edges
  <2>4. Parent' = Parent /\ Home' = Home
    BY <2>2 DEF Parent, Home, FunctionOf, BlockOf
  <2>5. Graph!Freeze
    BY <2>2, <2>3, <2>4 DEF Graph!Freeze, Parent, Home
  <2> QED
    BY <1>1, <2>1, <2>5 DEF Graph!Next
<1> QED
  BY <1>3, <1>4, <1>5, <1>6, <1>7 DEF Next

LEMMA StutterHolds ==
  ASSUME IInv, UNCHANGED vars
  PROVE  IInv' /\ UNCHANGED Mapped
<1>1. UNCHANGED <<architecture, functions, blocks, instructions, outcome, state>>
  BY DEF vars
<1>2. /\ \A b : FunctionOf(b)' = FunctionOf(b)
      /\ \A i : BlockOf(i)' = BlockOf(i)
      /\ Edges' = Edges
  BY <1>1 DEF FunctionOf, BlockOf, Edges
<1>3. TypeOK' /\ Reciprocal' /\ EntryIsFirst'
  BY <1>1 DEF IInv, TypeOK, Function, Block, Reciprocal, EntryIsFirst
<1>4. ListedOnce'
  BY <1>1, <1>2 DEF IInv, ListedOnce
<1>5. Parent' = Parent /\ Home' = Home
  BY <1>1, <1>2, ParentSame, HomeSame
<1> QED
  BY <1>1, <1>2, <1>3, <1>4, <1>5 DEF IInv, Mapped

-----------------------------------------------------------------------------
(* The inductive invariant: what the four properties below rest on.        *)
THEOREM Inductive == Spec => []IInv
<1>1. Init => IInv
  BY InitHolds
<1>2. IInv /\ [Next]_vars => IInv'
  BY StepHolds, StutterHolds
<1> QED
  BY <1>1, <1>2, PTL DEF Spec

(* The types of decoded_program_builder, for a program of any size.        *)
THEOREM TypeCorrect == Spec => []TypeOK
<1>1. IInv => TypeOK
  BY DEF IInv
<1> QED
  BY <1>1, Inductive, PTL

(* add_edge leaves every edge recorded once at each of its two ends.       *)
THEOREM EdgesReciprocal == Spec => []Reciprocal
<1>1. IInv => Reciprocal
  BY DEF IInv
<1> QED
  BY <1>1, Inductive, PTL

(* add_block makes the first block a function is given its entry.          *)
THEOREM EntriesFirst == Spec => []EntryIsFirst
<1>1. IInv => EntryIsFirst
  BY DEF IInv
<1> QED
  BY <1>1, Inductive, PTL

(* No id is listed twice, whatever the calls.                              *)
THEOREM IdsListedOnce == Spec => []ListedOnce
<1>1. IInv => ListedOnce
  BY DEF IInv
<1> QED
  BY <1>1, Inductive, PTL

(* After any calls of add_block and add_instruction the lists of functions *)
(* and blocks are exact: entries first, every id once and in one list.     *)
THEOREM ListsAreExact == Spec => []ListsExact
<1>1. IInv => ListsExact
  BY DEF IInv, ListsExact
<1> QED
  BY <1>1, Inductive, PTL

(* The builder and validate implement the control-flow graph: freeze       *)
(* accepts exactly the programs it calls programs.                         *)
THEOREM Implements == Spec => BuildsGraph
<1>1. Init => Graph!Init
  BY InitHolds
<1>2. IInv /\ [Next]_vars => [Graph!Next]_(Graph!vars)
  BY StepHolds, StutterHolds DEF Mapped, Graph!vars, Parent, Home
<1> QED
  BY <1>1, <1>2, Inductive, PTL DEF Spec, BuildsGraph, Graph!Spec
=============================================================================
