# sivra: TLA+ models of the x86 front end, the recovery engine, the canonicalizer and their catalogues

sivra parses SIMD assembly, says what each instruction does, recovers expression graphs
from the decoded program and simplifies them. This directory holds TLA+ modules
translated from the C++ sources, TLC configurations that check them on small
instances, and TLAPS proofs of the properties that matter most. Paths below are
relative to `src/` in `PROJECT.json`, which names, for each definition, the lines it
stands for.

## 1. The system

Everything runs in one thread: there are no locks, callbacks or messages. What
makes the code hard is long chains of dependent steps over graphs that are
replaced while identifiers into them are kept, budgets that can end any step half way,
and a recursion whose results are cached.

| component | state it keeps | operations | what makes it correct |
|---|---|---|---|
| `core` | owner tokens, diagnostics, budget counters | constructors | a token distinguishes graphs; no control |
| `ir` expression graph | append-only nodes, symbols, external ids | `graph_builder::make_*`, `apply`, `validate` | operands are earlier nodes of the same graph; a failed call appends nothing |
| `ir` values, constants, built-in operations | none | constructors and their checks, `validate_application` | a constant has the elements of its type; a signature is checked before a node is made |
| `ir` operation attributes | none | `operation_attribute_schema::create`, `validate`, `operation_attributes::create` | the order in which attributes come does not matter; validating twice changes nothing |
| `ir` operation catalogue | operations by key and by name | `register_operation(s)`, `validate`, `freeze` | batches are all or nothing; indexes are exact; a frozen catalogue is never changed; compatible catalogues mean the same |
| `ir` structural | memo of equal pairs | `equal`, `compare` | an equivalence, a total order that agrees with it |
| `canonicalizer` engine | working graph, roots, mapping, status, position in the plans | `canonicalize` | the result means what the input means; stable; returns |
| `canonicalizer` worklist | output graph, copies, queue, subject | `run` | every copy means what its source node means |
| `canonicalizer` termination | seven counters with limits | `consume_*`, `observe_output_nodes` | no limit is passed; every loop draws on one |
| `canonicalizer` trace | events, next number | `record`, `mark`, `rollback` | the events of the adopted runs, numbered without gaps |
| `canonicalizer` rule catalogue, scheduler, configuration | rules sorted by phase and priority; enabled rules, phases, traits | `create`, `find`, `enable_*`, `disable_*`, `validate` | the order of rules is deterministic; bad input is refused |
| `canonicalizer` rules | none | fourteen pure rules | each outcome means what its subject means; its declared measure falls |
| `canonicalizer` evaluator | none | fifteen evaluators | folded constants are exact, canonical and independent of the order of operands |
| `program` | functions, blocks, instructions, edges | `decoded_program_builder`, `validate` | edges are symmetric, ids belong to the program |
| `program` operands, forms, effects | none | `bit_range`, operand constraints, lane expressions | ranges are compared as the bits they name |
| `recovery` engine | cache, active queries, output graph, provenance | `recover` | a complete answer covers every reaching definition |
| `recovery` state index | definitions, memory transitions and versions | `build` | definitions in program order |
| `recovery` memory, types, objects | none to speak of | `relate`, `solve`, builders | a no-alias answer is true |
| `x86` tokenizer, parser | position in the text, tokens; instruction being read | `tokenize`, `parse` | every token and every line, and nothing else, is read, at its position |
| `x86` form resolver, semantics | none | `resolve`, `semantics`, `relate` | what is encodable is resolved, and else only what lacks room for a value; effects are what the processor does |
| `compat`, `tools` | none | JSON in and out, command line | text handling |

How they interact: the tokenizer feeds the parser, the parser the form resolver, which builds a
decoded program; the semantic provider says what its instructions do; the state index reads
both once; the recovery engine queries the index and appends nodes to an expression graph
through the builder; the canonicalizer reads that graph and builds new ones, calling
rules, which call the builder, the evaluator and structural equality. The
canonicalizer never changes its input graph, and a run never changes its source graph.

The hazards that this exposes the code to, each at its line, are listed in
`PROJECT.json` under `hazards`.

## 2. Modules

| module | what it is |
|---|---|
| `ExprGraph` | graphs, `graph_builder` and `validate_graph` as operators, reachability |
| `Termination` | the budgets of one call |
| `Worklist` | `worklist_engine::run`, EXTENDS the two above |
| `Canonicalizer` | `engine::canonicalize`, EXTENDS `Worklist`; the specification and its properties |
| `CanonicalContract` | the abstract specification: what a caller is promised |
| `MCRules`, `MCCanonicalizer` | a term language, rules that do anything, plans and inputs for TLC |
| `CanonicalizerProofs` | the proofs about graphs, one run, and the engine |
| `ResultProofs` | proofs about what a call of it returns |
| `Evaluator` | types, constants and the fifteen evaluators on words of `W` bits |
| `Folding` | the evaluators asked by a caller that gathers operands; their properties |
| `Builtins` | the table of built-in operations and the signature check, EXTENDS `Evaluator` |
| `Structural` | the structural order and equality of nodes, EXTENDS `ExprGraph` |
| `Rules` | the fourteen rewrite rules, EXTENDS `Structural` and `Builtins` |
| `RuleSoundness`, `MCRuleSoundness` | every rule on every expression of a growing graph; its instance |
| `MCWords`, `MCBuiltinCanon` | leaves and meaning of words; the canonicalizer composed with the real rules and plans |
| `RuleCatalogue`, `Scheduling` | `rule_catalogue::create`, the plans, the configuration's switches and checks |
| `Attributes` | attribute schemas and attributes |
| `SettingsProofs` | the proofs about the two rows above |
| `Sorting`, `SortingProofs` | `std::ranges` sorts, and passing over elements; what is proved of them |
| `OperationCatalogue` | the operation catalogue and its builder |
| `OperationRegistry` | its abstract specification: a registry that grows by whole batches |
| `MCCatalogues` | the four above (with `Folding`) side by side for TLC |
| `OperationCatalogueProofs` | the proofs about the catalogue, the refinement included |
| `StateIndex` | the decoded program, definitions and stores, what reaches a point, the alias test |
| `Recovery` | `recovery_engine::recover`, EXTENDS `StateIndex`; the specification and its properties |
| `RecoverySemantics` | symbolic execution of all paths, the reference for an answer |
| `MCRecovery` | a small instruction set, programs and queries for TLC |
| `RecoveryProofs` | the proofs about recovery |
| `ProgramBuilder`, `MCProgramBuilder` | `decoded_program_builder` and every check of `decoded_program::validate` |
| `ControlFlowGraph` | the abstract specification of the builder: parents, homes and a set of edges |
| `ProgramBuilderProofs` | the proofs about the builder, the refinement included |
| `X86Tokenizer`, `X86Parser` | text to tokens, tokens to instructions |
| `X86Catalogue` | the registers and the 31 forms of SSE1 |
| `X86Semantics` | form resolver and semantic provider |
| `X86Machine` | executes their effects next to the architecture's definition of the instruction |
| `BitRanges`, `X86Registers` | bit ranges of wrapping integers; the relation of machine locations |
| `X86Proofs` | the proofs about bit ranges, the relation of locations, tokenizer, parser, form resolver and semantic provider |
| `MCX86` | the parts of x86 side by side for TLC |

### How state and actions correspond to the code

*Graphs.* A graph is the sequence of its nodes; a `node_id` is a position, and 0 is an
absent or foreign id. A payload is reduced to an operation, a merge or a leaf,
since the worklist distinguishes just these (worklist.cpp:184-224, 252). The builder does
not intern, so `Build` always appends. Each node carries a history field `val`, what
its operation yields on its operands' values when it is built; no guard reads it. `Meaning`,
`Signature`, `Types` and `Values` are parameters: any type system and any
semantics will do.

*Rules.* `Outcomes(r, e, g)` is the set of results rule `r` may return on
subject `e` with output graph `g`, each with the graph the rule leaves behind (a rule
can call the builder before it declines). The assumption `Contract` says a rule extends
the graph by builder calls only, and that an outcome which would be accepted
denotes what the subject denotes. That is the rules' own obligation; what the model shows is
that everything around them preserves it. An outcome with a foreign node, a wrong type or
an expression the builder rejects is allowed, and the model takes the
code's error paths on it. A subject that the builder would reject obliges a rule only to
decline it or to report it invalid: built-in rules look at the operands' types
before they rewrite. `MCBuiltinCanon` puts the library's own rules (`Rules!OutcomesOf`) and plans
(`RuleCatalogue!PassPlans`) in the place of the parameters and checks (`RulesKeepContract`) that they
keep the contract on every subject the engine brings them to; `RuleSoundness` does so
on every small expression.

*The built-in rules.* A rule is an operator over the graph it builds on, as in the code, where a rule holds a
builder: it answers with an outcome and the graph it leaves, intermediate nodes included,
also where it then declines (`First`, `Second`, `Building` name the node just built and what is done
with it). An expression is compared by its structural record and those below it, as
`structural_context` does; texts and encodings are numbers in their order. The measures and
the licence to grow that a rule's metadata declares are sums over those records.

*Evaluator.* An element is a word of `W` bits. As an integer it wraps and is signed as in the code; as a float its
top bit is the sign and the rest a magnitude, with infinities and NaNs at the top. Rounding
arithmetic is the hardware's and a parameter, what the code adds (the order of operands, canonical zero and NaN, refusal to
evaluate) is not. Sorting before floating additions, bit operations on stored
bits, splats and lanes are as in the code.

*Catalogues.* One action of `OperationCatalogue` is one call with any batch, `Validate` or `Freeze`; a refused
batch changes `reply` and nothing else. Ids are positions; texts are numbers in their order, 0 the empty one. A
compatibility value is the sequence of what its definitions say (`Described`): their encoding in bytes is taken as unambiguous, not modelled.
`Scheduling` and `Attributes` take rules, switches, fields and entries one at a time, in any
order, attribute keys being numbers in the order of their texts; what the pure `create` and `validate` functions make of the arguments so far is what their properties are about.

*x86.* `X86Tokenizer` takes one turn of the loop per step, `X86Parser` one token per step with its place in the
line as `mode`. `X86Machine!Step` is one instruction: `Resolve`, `Semantics`, and the effects executed on
registers and memory whose 32-bit lanes hold symbolic terms. `architecture` executes the same instruction
as the architecture defines it, over whole operands, and neither machine reads the other. Instructions built by hand go
to `Semantics` without a resolver (`Examine`). `HasInstruction` is what the architecture has by mnemonic and kinds of operands,
`Encodable` what also fits an encoding: an immediate of eight bits, a displacement of 32. Where no encoding exists (`OutOfRange`) the
architecture says nothing; the model then lets it add the displacement as it is and look at the low eight bits of the immediate, as
the code does, so about such instructions `MatchesArchitecture` says no more than that. Effects are executed all at once,
which is how the library defines them (a value is an expression over the state before), not something the runs could refute. A letter is a member of a small set and
case is folded; names of registers are pairs of a family and a number.

*A run.* `stage` is the place in `worklist_engine::run`: `import` (the loop over
reachable nodes in ascending order, 170-226), `pop` (the queue, 245-289), `rules` (the
rules on one subject, 291-397), `settle` (writing back the result, the trace, the users,
399-430), `finish`. Each action is one iteration of the loop it stands in. `copied`
is the code's vector of the same name and, once the run is over, its mapping.

*The engine.* `pc` is the place in `engine::canonicalize`. The actions `Start...` and
`After...` are the two halves of a statement that calls `run`; in between only
`RunStep` can happen. `positions`, `adopted`, `popped` and the field `iteration`
of an event are history variables; no guard reads them.

*Left out:* statistics nobody reads, wording of diagnostics (a diagnostic is
its code), digests in trace events, node symbols and attributes (part of the operation),
exhaustion of 2^32 ids, and the digests' computation.

*Recovery.* The engine is one recursive function, `recover_with_cache`, that the others call in
loops. The model makes its call stack explicit: `stack` has one frame for each active
query that waits for a nested result, `mode` says whether a call is being entered, a result is on
its way back, or the loop of the top frame goes on. A frame is the loop's local variables: of
`lower_lane_expression` (the inputs of a lane) or of `recover_predecessor_merge`.
`m_active_queries` is then the queries of the frames. A query that needs no nested
call is answered in one step. Calls add to the depth what the code adds on the way (two per predecessor,
three per input). A location is a slice of a register in lanes of 32 bits; types, operations and
the signature check are parameters. The diagnostics of a result are the set of their
codes. Nodes carry the reason of an unknown and, as history, what an external value
stands for; `answers` is history too. Left out: `build_object_model`, which copies results, locations
that are memory or flags (no definition matches them), statistics, memory versions, wording.

*What a recovered expression means* (`RecoverySemantics`): a merge stands for any of its
operands, an unknown for anything, an external value for what a lane held on entry or what the
memory held on entry. Each path from the entry is executed symbolically, all effects of an instruction
reading the state before it; the term in the lane when the path arrives must be one the expression
stands for.

*The program builder.* One action per call, taken with every id: 0 stands for an id of another
program, and ids past the end for ids this builder has not given yet. A refused call changes `outcome`, its diagnostic code,
and nothing else. `Validate` is the sequence of `validate`'s checks and the code of the first that fails.
The checks that ids are canonical (79, 129, 206) and names not empty (84) are left out: ids are positions here, and
`add_function` refuses an empty name. What instructions do plays no part, so an instruction is its id.

*Fault operators.* An operator whose comment begins with "Fault:" is a plausible bug,
written next to the definition it could replace. No specification uses one; they
show for each property that the bug would be noticed (`mutants` in `PROJECT.json`).

## 3. Runs

`canon_any` (about 6,600 states) checks rules that do *anything* their contract
allows: they grow the graph, return foreign nodes, wrong types, expressions
the builder rejects, the subject itself and expressions seen before. The
budgets are so small (4 imports, 5 nodes, growth 1, 3 steps, 2 rewrites, 3
iterations) that each of them ends some behaviour at each place where it can. The five
calls include a root outside the graph, the same root twice, an unreachable node, a node of another type, a
merge, and a call that validation rejects. It checks:
- `RunInv`, `MappingSound`: meaning is preserved by copies and mapping, at every step and on
  every way out;
- `ReportExact`: the roots keep their meaning (`RootsSound`), the trace holds the adopted runs
  (`TraceMatchesAdoption`), the status has its cause (`StatusExplained`);
- `WithinBudgets`: no budget is passed;
- `CompactionIsSafe`: compaction cannot fail or change the status after the phases succeeded;
- `KeepsPromise`: the call refines `CanonicalContract`;
- `Termination`, under weak fairness of `Next`.

`canon_rules` (about 112,000 states) is the engine with its own fourteen rules, its own plans and
ample budgets, on words of two bits. An input is a pair of expressions of two nested applications over two symbols and
a constant that differ in the order of commutative operands only; the operations come from five families that
the rules relate (sums and products, `and`/`xor`, `andn`/`or`, minimum/maximum, division). It
checks the other half of the promise, which rules without a measure cannot give:
- `CompleteIsStable`: no enabled rule of an enabled phase applies to a complete result;
- `OnePass`: a run takes each operation from the queue once;
- `SameForm`: every call becomes stable within its budgets, and the two expressions of the pair end structurally equal;
- `RulesKeepContract`: on every subject the rules keep the contract that `Worklist` assumes of them, and look only below
  the subject (`LooksBelow`, `SameElsewhere`): what a rule names is an operand, something below one, or a node
  it built, and on the same expression in another graph it declines just as well.

Two nested applications are enough for a rewrite to enable another both above it and in a later
plan; two bits are enough for zero, one and all bits set to be three constants.

`rules` (about 98,000 states) tries all fourteen rules on every expression of at most five nodes: two
symbols, a constant, and one or two applications, of two operands below and three above, so that there is something to
flatten, collect, fold, order and deduplicate. `AnswersSound` says that an
outcome means what its subject means and that a rule fails only for types without constants;
`MeasuresHold` that the declared measure falls and that only rules that declare it grow an
expression. Rules about machine words are checked on three-bit integers in the evaluators'
arithmetic. Algebraic rules assume exact arithmetic, so they are checked over f32 too, with
an expression denoting a number of the field with five elements, an infinity, or nothing (a division by
zero); where the subject denotes nothing nothing is compared. Three bits and five
elements are enough for a coefficient, its double and its inverse to differ.

`catalogues` checks four components side by side: a part moves only while the others are in their initial state, so what is
explored is the sum of their states.
- Operations: batches of up to two out of ten registrations, which clash in key, version, name and in each check,
  up to the capacity of two ids. `IndexesExact` is `TypeOK`, `IndexExact` and `FreezeNeverFails`; `CompatibilityFaithful`
  compares the frozen catalogue with every other of three operations; `KeepsRegistry` is the refinement of `OperationRegistry`.
- Attributes: up to three of nine fields and two of eight entries in any order (`AttributesExact`).
- Rules: up to three of seven rules in any order, and every switch of the configuration (`RulesScheduled`).
- Folding: up to three operands, scalars and vectors of two lanes, in words of four bits: zeros of both
  signs, ordinary and largest numbers, infinities, two NaNs, with an addition that rounds to infinity and so is not associative
  (`FoldsExact`, `OrderIrrelevant`). Three operands are the fewest whose order an addition can notice.

`x86` (about 278,000 states) checks the parts of x86 side by side, likewise.
- Two instructions on two XMM registers and five cells of memory: all 31 forms in every shape of operands, with the destination as
  source and overlapping memory operands, immediates past eight bits and displacements past those an encoding holds (here 3), misses of all
  kinds, and instructions built by hand with unusable operands, slices inside, past and around the end of the integers included.
  `MatchesArchitecture`, `ResolvesTheEncodable`, `EffectsDeclared` (`AccessDeclared` and `LanesWithinSource`). Terms are
  symbolic, so two instructions show what any sequence would: each lane that the first wrote is read by the second. The
  theorems hold for any instructions, registers, cells and bound.
- `RelationExact`: pairs of slices of aliases, of registers of no catalogue, and at and past the ends of registers
  and of the integers, which hold 256 values here.
- Texts of up to five characters of seven kinds: the tokens are exact (`TokensExact`) and the loop ends (`Reads`). Five
  characters spell a hexadecimal number between other words, and a line break before another word.
- Up to eight tokens: `ParsesTheLines` compares the parser with the syntax, stated by lines. Eight are a mnemonic with a
  memory operand with displacement and a second operand.

`recovery` (about 80,000 states) answers two or three queries on one engine, with one cache, over:
- straight lines of three instructions from 14: zeroing, moves, an addition into the first lane, a
  shuffle of the destination's lanes, loads and stores at three addresses (equal, disjoint, possibly equal), no operation,
  and malformed ones (missing operand or lane, unsupported operand, an operation that is not in the
  catalogue or whose types do not fit);
- diamonds whose arms agree, disagree, are empty, have another type or fail;
- a loop between entry and exit, with every pair of instructions in its body;
- depth limits of 3, 4 and 5, which cut the recursion at each place where it nests, and the default 64;
- both values of `treat_may_alias_store_as_barrier`.

It checks `AnswersCover` (an answer covers every path), `StatusHonest` (`CompleteIsResolved` and `UnknownsExplained`: status and
diagnostics tell the truth about the expression), `NoQueryTwice` and `Memoized` (the cache),
`RecursionBounded`, `ProvenanceMatches` and `Termination`. `AnswersCover` executes paths of at most `MaxPath`
(5) blocks: a loop is passed through up to three times, one more than it takes for a value to be carried from
one iteration through the second register into the next. Two registers of two lanes let a value move
between registers and lanes. The programs of the two violation runs, loops at the entry block and
stores after a load in a loop's block, are excluded here and nowhere else: `recovery` shows
that apart from these two the answers cover everything the instances can express.

`recovery_entry_loop`, `recovery_carried_store`, `canon_merge_stable`, `canon_merge_users` and `rules_signed_zero` are the findings of section 6.

`program_builder` (about 80,000 states) makes every call in every order with every id, up to two functions, three blocks,
two instructions and two edges, and freezes at every moment, also at once. Two functions are enough for blocks of
one to come between those of the other and for an edge to cross; three blocks leave one function with two; two edges give
an edge and its reverse, a self-edge, and a duplicate. `Reciprocal` and `ListsExact` (`EntryIsFirst`, `ListedOnce`) speak
of the lists, `TypeOK` of all data. `BuildsGraph` is the refinement of `ControlFlowGraph`; with it
`freeze` accepts exactly what that calls a program.

*Deadlock.* `CHECK_DEADLOCK FALSE` because the calls return: `pc = "done"` is the end of a
`canonicalize`, and `mode = "idle"` with no query left the end of a `recover_many`;
a builder ends in `freeze`; texts, tokens and expressions end at their bounds, a refused line or a
failed instruction ends the parse.

*Fairness.* Each `FairSpec` asks for `WF_vars(Next)` only: the call is one thread that
nothing else blocks, so it takes its next step as long as it has one. For the same reason `MCX86` asks for
weak fairness of the tokenizer's loop (`TokenizerMoves`), once it has a text. The other parts answer
calls a caller need not make, so nothing is asked of them.

*Bounds.* `MaxFunctions`, `MaxBlocks`, `MaxInstructions` and `MaxEdges` bound the builder, whose
proofs hold for all of their values. `MaxArity` (2) bounds operands. The budgets are the code's own and not bounds
of the model; they make every behaviour finite. So are the depth limits of recovery. In `AnyOutcomes` one call of a
rule appends at most one node; the step budget lets it do so repeatedly. `MaxBatch`, `LastIndex`, `MaxFields`,
`MaxEntries`, `MaxOffers`, `MaxOperands`, `MaxNodes`, `MaxInstructions`, `MaxLength` and `MaxTokens` are the
bounds named above; the proofs named in section 4 hold for all values of theirs (the catalogue's
`MaxBatch` and `LastIndex`, the settings' `MaxFields`, `MaxEntries` and `MaxOffers`, the tokenizer's `MaxLength`, the parser's `MaxTokens`, every `RangeLimit`).

## 4. Proofs

TLAPS proves, for all values of the constants that satisfy the assumptions next to them
(for the canonicalizer: all rules within `Contract`, all semantics, budgets, plans and inputs):

| theorem | statement |
|---|---|
| `CanonicalizerProofs!RunStepSound` | each step of a run preserves `RunTypeOK` and `RunInv` |
| `CanonicalizerProofs!TypeCorrect` | `Spec => []TypeOK` |
| `CanonicalizerProofs!RunsSound` | `Spec => []RunInv` |
| `CanonicalizerProofs!MappingIsSound` | `Spec => []MappingSound` |
| `ResultProofs!BudgetsHold` | `Spec => []WithinBudgets` |
| `ResultProofs!ReportIsExact` | `Spec => []ReportExact` |
| `ResultProofs!PromiseKept` | `Spec => KeepsPromise`, the refinement |
| `ResultProofs!CompactionSafe` | `Spec => CompactionIsSafe` |
| `ResultProofs!ResultIsStable` | `RulesLookBelow` implies `Spec => []CompleteIsStable` |
| `ResultProofs!NoneTakenTwice` | `Spec => [](InOrder /\ OnePass)` |
| `RecoveryProofs!TypeCorrect` | `Spec => []TypeOK` |
| `RecoveryProofs!NoQueryIsComputedTwice` | `Spec => []NoQueryTwice` |
| `RecoveryProofs!AnswersAreCached` | `Spec => []Memoized` |
| `RecoveryProofs!RecursionIsBounded` | `Spec => []RecursionBounded` |
| `RecoveryProofs!ProvenanceIsOfTheRoot` | `Spec => []ProvenanceMatches` |
| `RecoveryProofs!StatusIsHonest` | `Spec => []StatusHonest` |
| `ProgramBuilderProofs!TypeCorrect` | `Spec => []TypeOK` |
| `ProgramBuilderProofs!EdgesReciprocal` | `Spec => []Reciprocal` |
| `ProgramBuilderProofs!ListsAreExact` | `Spec => []ListsExact` |
| `ProgramBuilderProofs!Implements` | `Spec => BuildsGraph`, the refinement |
| `OperationCatalogueProofs!IndexesAreExact` | `Spec => []IndexesExact` |
| `OperationCatalogueProofs!Implements` | `Spec => KeepsRegistry`, the refinement |
| `OperationCatalogueProofs!CompatibilityIsFaithful` | `Spec => []CompatibilityFaithful` |
| `SettingsProofs!SchedulesAreExact` | `ScheduleSpec => []RulesScheduled` |
| `SettingsProofs!AttributesAreExact` | `AttributesSpec => []AttributesExact` |
| `X86Proofs!ContainsExact`, `OverlapsExact` | on valid ranges the two tests are those of sets of bits |
| `X86Proofs!RelationIsExact` | `RelateSpec => []RelationExact` |
| `X86Proofs!TokensAreExact` | `Spec => []TokensExact` |
| `X86Proofs!LinesAreParsed` | `ParseSpec => []ParsesTheLines` |
| `X86Proofs!EffectsAsDeclared` | `MachineSpec => []EffectsDeclared` |
| `X86Proofs!EncodablesResolve` | `MachineSpec => []ResolvesTheEncodable` |
| `X86Proofs!MachinesMatch` | `MachineSpec => []MatchesArchitecture` |

*Canonicalizer.* The invariant is `IInv == TypeOK /\ RunInv /\ MappingSound /\ EngineLinks`.
`MappingSound` is not inductive: while a run is in progress, the mapping that
will be composed (`copied`) points into `out`, and it is adopted long after it was
computed. `RunInv` says what the run guarantees of `copied`, the subject and the
pending replacement; `EngineLinks` says that the run works on the graph the engine thinks it
does (`src = working`, or the caller's graph during the import). The argument for
`RunInv`: appending never changes the value of an existing node (the lemmas
`ExtendsKeeps...`), so rules cannot disturb earlier copies; a subject's operands are copies with
the values of the source's operands (`CopySound`), so the subject denotes the source node;
`Contract` carries this through every rewrite; and building the final subject
yields a node with that value (`BuildProperties`, `BuildLast`).

*Results.* What a call returns follows from further invariants, each proved on top of `IInv` and those before it.
`Covered`: operands come before their users, so the import loop never meets a node whose operands are missing, and a run that
completes has a copy of all its roots reach. `OutputKept` and `Rootless`: copies, replacements and roots stay within the
output limit even when a rule left more nodes in the graph of its run. `Compacts`: compaction's output is never
ahead of its source, so no limit can stop it; this gives `BudgetsHold`.
`Explained` and `Traced` follow diagnostics and trace: the checkpoint separates the events of adopted runs from those of the run in
progress, which are cut off if it is discarded. `RootsPlaced` relates the working roots to the caller's through the
mapping; when a run returns as many roots as it was given they are the same ones in order (`IncreasingIdentity`, by a
least position that is off). `Meant` adds what they denote. For the refinement the end of the
import is the contract's `Import`, the end of the call its `Return`, all else a stutter. `CompactionSafe` rests on `ExactCopies`: a run without rules copies
node by node, and reachability is closed under such a copy (`ReachLeast`). `OnePass` rests on `InOrder`: the queue ascends
from what was taken, so a replaced node's users all still wait.

`ResultIsStable` needs more of the rules than that they keep meanings, and says so as its hypothesis, `RulesLookBelow`. Without it
the claim is false of the model: a rule might replace a node by the copy that is already there (the run
reports no change and the rule would still apply), or decline because of where a node stands. `Asked` is the invariant of one
run: as long as nothing has changed, every operation node whose turn is over was declined by every enabled rule. It
rests on the node's copy being `Apart` from what the subject may name: a rewrite that applied leads to a node other than the copy or to
an expression not `seen` before, so it shows as a change. `ExactCopies` carries what a rule said of the copy back to the node it
is a copy of. `SequenceStable` is the invariant of the phase loop: as long as nothing has changed in this round, the plans passed are stable
on what the working roots use; a plan without rules trivially, any other by `PhaseStable`. Compaction then moves these nodes once more
(`CompactedStable`). The hypothesis is about all graphs and all sets of nodes closed under operands;
`canon_rules` checks it of the built-in rules on every subject, with the least such set and the graph that
consists of it alone. It fails for no larger set: what a rule names is then in the larger set too.

Where the argument is by induction, the proofs
take a least or greatest counterexample (`LeastExists`, `GreatestExists`).

*Recovery.* The assumptions are that programs are valid and queries are about points in them
(`CallsAssumption`) and that the unknown type is a type. `IInv` adds to the stated properties `Depths` (the k-th frame is at
least 2(k-1) deep, and the call being entered deeper still), `Pending` (the bottom
frame answers the query the caller asked, and what is returned to the caller is in the cache) and `HeldProvenance` (results waiting in merge frames carry their root's record).
The code has twenty-odd steps but only five effects on stack and cache: a query is computed without nesting
(`Computes`), a frame is pushed (`Pushes`), asks (`Asks`), is updated (`Updates`), or is popped with its result stored (`Pops`). Each
action is shown to have one of these shapes, and each shape to preserve each conjunct.
`TypeOK` carries the facts about data: roots lie in a graph that only grows, so results
typed against an old graph are typed against the new one.

`StatusHonest` speaks of everything below a node, as a recursion over the graph. Its proof replaces the recursion by a set
closed under operands: a node is `Clean` of some operations when such a set without them has it, a record `Backed` likewise
(`CleanIsFree` and `BackedIsResolved`, by a least counterexample, lead back to the recursion). A closed set stays closed when the
graph grows, so `HonestInv` can say of results in the cache, results on their way, and partial results in frames what
`StatusHonest` says of answers only. For a waiting frame this is weaker: as long as its status is
still complete and no diagnostic was raised, its inputs so far are clean. `LaneOpsAssumption`, that lane operations
are not the markers the engine builds, is what rules out an operation that looks like an unknown.

*Program builder.* The four invariants together are inductive; `ListedOnce` has the lists ascending, which is why
appending a fresh id keeps them free of repetition. For the refinement each call changes one
variable of the abstract state (`ParentGrows`, `HomeGrows`), a refusal none, and `ValidateAccepts` goes through `validate` check by check: under
the invariant most cannot fail, and what is left is `IsProgram`. A practical consequence: on a program that came from the builder `validate` fails for
three reasons only, a missing architecture, a function without blocks, and an edge between functions.

*Operation catalogue.* The assumptions are that what is offered is a registration and that the bounds are
numbers. The invariant is `IInv == IndexesExact /\ OneCatalogue`. `FreezeNeverFails` is what makes it inductive: definitions
are valid when they enter and never change. The loop over a batch stops at its first bad entry
(`FirstBadExists`, by the well-foundedness of `<`), so an accepted batch has none, its keys
and names are new and differ from each other, and `WithEntries` extends both indexes by exactly the new positions; `freeze`
moves builder and indexes unchanged into the catalogue. The refinement maps a position to the registration there: an accepted batch is
`Register` of its set of registrations, `freeze` is `Seal`, all else stutters.

*Sorting.* An element's place is the number of elements up to it (`Ranks`: a strict weak order, ties broken by
position, makes places a permutation), hence the result is a rearrangement (`SortRearranges`) in order (`SortOrders`). Two
rearrangements of one set, both in order, are the same. From this follows that a
compatibility value does not depend on the order of registration (`IdIsSorted`), that schedules do not depend on the order of offers, and
validation not on that of attributes.

*Rules and attributes.* The assumptions are that what is offered is a rule, a field, an entry, and that rule
keys differ. The functions are pure, so beyond typing there is no invariant to find: the theorems come from lemmas about
states of the right type. `create` accepts exactly when each rule is acceptable by itself and no id or name
repeats (`CreateAccepts`); a plan keeps the order of the catalogue and has each enabled rule
of its phase at one place (`PlanHolds`); so turns are in the lexicographic order of phase, priority and id
(`RunsBeforeMeans`). For attributes, comparing neighbours after sorting finds every
repetition (`NeighboursTell`), the defaults added are those of the fields missing (`DefaultMembers`), and what `validate` returns it
accepts unchanged (`ValidatedTwice`).

*x86.* A range that passes `validate` does not wrap (`ValidEnds`): were its sum past the limit, its end
would be below its offset. What `contains` and `overlaps` compare is then what the sets of bits compare. For two locations
the provider either places both in the registers that hold them (`CanonicalSlicesExact`: exactly when `Placeable`, that is
inside the named register and not empty), and there the two tests compare flip-flops (`RelateExact`), or it answers `unknown`. The tokenizer's invariant is `ReadSoFar`: the
tokens so far cut the text up to the position into longest words and spaces, and line and column are those of the position.
The parser's is `ParseInv`: the instructions complete are those of the lines ended (`DoneIn`), and what the parser holds of the
open line, the operands and the memory operand begun, is what the words read so far mean (`Reading`, one form per
mode); once something is refused, a line ended is illegal or the open one can no longer become legal (`Refused`). The syntax speaks of whole lines and
the parser sees one token at a time; `PiecesGrow` connects them: a comma begins a new last word, any other token
goes on with it, and no other word changes. So legality is a matter of the last word (`LegalByLastWord`), what can still come as well
(`ViableByLastWord`), and of a word it is decided by `BegunIsContinued`, which names the beginnings of operands. The one
assumption is that a displacement's maximum is at most that of integers.

*x86 instructions.* `MachineSpec` executes instructions of any kind, number and order. The assumptions say that they are what the
parser leaves (`InstructionsAssumption`) or what a client may build from the types of the library
(`BuiltAssumption`), that 128 bits fit the integers (`WidthsAssumption`), and that whatever register or cell they name belongs to the machine. The forms are a table, and the proofs
go by its shapes (`Shaped`: binary and unary, packed and scalar, the moves, the shuffle, the two unpackings); one
lemma, `FormsShaped`, looks at the rows. Which forms an instruction matches follows from its mnemonic and the kinds of its operands
(`MatchingIs`), and it matches one only (`OneCandidate`: forms of one mnemonic differ in whether memory comes first). So what the
resolver accepts is `HasInstruction`, that is `Encodable` or `OutOfRange` (`EncodablesResolve`), and the branch that prefers
one of several candidates (form_resolver.cpp:157-168) has nothing to decide with this catalogue; and what it resolves passes every check of `semantics`
(`ResolvedPasses`). `EffectsDeclared` is not inductive, because the state it speaks of is only the last verdict: `LookedRight` adds
that an accepted form is in the table, that its operands passed the checks, and that the effects are those of form and operands.

`MachinesAgree` is the invariant behind `MatchesArchitecture`: the two machines are equal, and each register holds four lanes
(`IsMachine`), without which a copied lane might not exist. Equal machines make the step local: the resolved
operands name the cells the instruction names (`OperandsRefined`), so what an effect reads of the machine is the contents
the architecture starts from (`OperandsHold`). Then the lanes the provider writes are compared with the lanes loaded, by the class of the
form (`PackedLoads`, `ScalarLoads`, `MoveLoads`, `MovssLoads`, `UnpackLoads`, `ShufpsLoads`), a packed arithmetic by one
argument for any lane and operation (`ArithmeticMeans`: both tables give a mnemonic the same operation). A write goes to the one register it
names, or to the cells of a store, which differ because displacements do (`RegisterExecution`,
`StoreExecution`); all the rest is kept by both machines. Sources are read before anything is written, so nothing in the argument asks whether
source and destination overlap.

*Only model-checked:* liveness, which TLAPS cannot prove under fairness. `AnswersCover`: it compares with an
execution along paths (`RecoverySemantics`), which is recursive. `SameForm`, which is about the
library's own rules; the rules, evaluators and the engine composed with them (`RulesKeepContract`, `AnswersSound`, `MeasuresHold`, `FoldsExact`):
their modules use bit operations and recursion over expressions, out of the provers' reach.

## 5. Plan

Done:
1. `ExprGraph`, `Termination`, `Worklist`, `Canonicalizer`, the contract, two proof modules.
2. `StateIndex`, `Recovery`, `RecoverySemantics`, `RecoveryProofs`.
3. `ProgramBuilder`, `ControlFlowGraph` and their proofs.
4. `OperationCatalogue`, `OperationRegistry` and their proofs; `Attributes`.
5. `RuleCatalogue`, `Scheduling`, with `Sorting` and `SettingsProofs`; `Evaluator`, `Folding`, `Builtins`.
6. `Structural`, `Rules`, `RuleSoundness`, and the composition `MCBuiltinCanon`.
7. x86 from text to effects; `X86Proofs`.

Left, in this order:
1. Recovery of writes narrower than a register and of slices other than 32 bits, with the relation of `X86Registers` in the
   place of equality; base registers that change between two accesses; queries about memory and flags.
2. The recovery engine on the effects of `X86Semantics` in the place of the small instruction set of `MCRecovery`.
3. A theorem about `AnswersCover` for programs without loops, which needs its reference stated without recursion.

## 6. Findings

*Merge nodes never see replacements* (lib/canonicalizer/worklist.cpp:252-255). The users of a
replaced node are enqueued (414-430), but the queue drops everything that is not an operation, so
a merge keeps the operands it was imported with. A rewritable operation under a
merge is thus imported and rewritten anew in every iteration, each
reports a change, and the call ends with `resource_exhausted` once the iteration
budget is spent. `canon_merge_users` shows the stale operands
(tests/unit/canonicalizer/worklist_tests.cpp:123 says that replacements propagate through
users), `canon_merge_stable` the consequence (infrastructure_tests.cpp:54 says that phases are
revisited until the sequence is stable). The recovery engine emits merges for ordinary
control flow, so such graphs are what the canonicalizer is given.

*A loop at the function entry loses the value on entry* (lib/recovery/engine.cpp:488-491). Only a block
without predecessors contributes an external input. If the entry block is a loop target, its predecessors are the
back edges, and only their values are merged: for a body that zeroes a register, the register at the
top of the block is recovered as the constant zero, status complete
(`recovery_entry_loop`).

*A store is no barrier to the next iteration's load* (lib/recovery/engine.cpp:236-246). Within one
block a store counts only if it precedes the load, also when the block is its own
predecessor; a store in any other block of the same loop does count (`recovery_carried_store`).

*A negative zero is taken for zero by rules about bits* (lib/canonicalizer/detail/match.cpp:24). A constant matches
`zero` when its float value equals 0, which -0.0 does, and the identity and annihilator rules use this for the
bitwise operations too. `bit_xor(x, -0.0)`, the usual way to negate, is replaced by `x`, and `bit_and(x, -0.0)`, which keeps
the sign of `x`, by -0.0. tests/unit/canonicalizer/evaluator_tests.cpp:185 says of these operations
that they preserve exact stored bits (`rules_signed_zero`; the instance has all words of three bits as the constant).

*Values without room in an encoding are accepted.* No property is refuted, for nothing in the repository says what should happen:
`form_resolver` takes any immediate and any displacement (form_resolver.cpp:101-106, 115-121). `shufps` has eight bits for its
immediate, the form declares as many, and the parser reads 64; `shufps xmm0, xmm1, 283` is resolved, passes `validate_operand`, which
compares widths and never bits, and is given the effects of 27 (semantic_provider.cpp:530 casts to `uint8_t`). A displacement past 32 bits is
resolved as it stands. `ResolvesTheEncodable` names these as `OutOfRange`, the one exception to accepting what the
architecture encodes and nothing else.

## 7. Not modelled

- JSON in and out and the command line: text handling around the library, without control of its own.
- `core`: owner tokens, diagnostics and counters are value classes; a foreign id is 0 (`None`), a diagnostic its code.
- The equivalence contract: a record of wording nothing in the library reads.
- Recovery's annotations and object model, which copy results into other structures, and its type solver, a list of exact
  constraints on variables that nothing else in the library calls.
- The structural digest, which only trace events carry, and the memo, which saves time.
- Exhaustion of 2^32 nodes and symbols, and use of a builder after it was moved from.

Three hazards of the recovery engine have no property. A definition that overlaps the queried slice without containing it is
passed over (engine.cpp:65): instructions here write whole registers. The sum of displacement and
width can overflow (memory.cpp:14): addresses here are small. Addresses with the same base register are compared
although the register may have changed (memory.cpp:12): the base of an address never changes here.
