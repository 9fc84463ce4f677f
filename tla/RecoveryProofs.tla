---------------------------- MODULE RecoveryProofs ----------------------------
(***************************************************************************)
(* Proofs about recovery_engine, for every program, every sequence of      *)
(* queries and every configuration.  An action either starts a nested call *)
(* (Asks), starts to wait (Pushes), takes a result (Updates), returns one  *)
(* for a query it answers at once (Computes) or for the query it waited to *)
(* answer (Pops).  Each of the five keeps the invariant; each action is    *)
(* one of them.                                                            *)
(***************************************************************************)
EXTENDS Recovery, SequenceTheorems, WellFoundedInduction, TLAPS

(* Every nested call is two deeper, and none starts beyond the limit.      *)
Depths ==
  /\ \A k \in DOMAIN stack :
       2 * (k - 1) <= stack[k].depth /\ stack[k].depth <= call.maxDepth
  /\ mode = "enter" => 2 * Len(stack) <= entering.depth

(* The bottom of the stack answers the query that recover() was given, and *)
(* what it returns there is in the cache.                                  *)
Pending ==
  /\ mode = "idle" => stack = <<>>
  /\ mode # "idle" => call.queries # <<>>
  /\ mode = "enter" /\ stack = <<>> => entering.query = Head(call.queries)
  /\ stack # <<>> => stack[1].query = Head(call.queries)
  /\ mode = "return" /\ stack = <<>> =>
       \E c \in DOMAIN cache :
         cache[c] = [query |-> Head(call.queries), result |-> returned]

(* The answers a merge has collected carry the records of their roots.     *)
Held(records, f) ==
  f.kind = "merge" => \A j \in DOMAIN f.incoming : RecordOf(records, f.incoming[j])
HeldProvenance == \A k \in DOMAIN stack : Held(provenance, stack[k])

IInv ==
  /\ TypeOK /\ NoQueryTwice /\ Memoized /\ ProvenanceMatches
  /\ Depths /\ Pending /\ HeldProvenance

USE DEF None

-----------------------------------------------------------------------------
(* The five shapes of a step.                                              *)
Grows ==
  /\ graph' \in Seq(Node) /\ Len(graph) <= Len(graph')
  /\ provenance' \in Seq(RecordType) /\ Len(provenance) <= Len(provenance')
  /\ \A p \in DOMAIN provenance : provenance'[p] = provenance[p]

Good(r) == r \in Results(graph', provenance') /\ RecordOf(provenance', r)

Computes(r) ==
  /\ Computing /\ Grows /\ Good(r) /\ Finish(Asked, r)
  /\ UNCHANGED <<call, entering, stack, answers>>

Pops(r) ==
  /\ mode \in {"run", "return"} /\ stack # <<>>
  /\ Grows /\ Good(r) /\ Finish(Top.query, r)
  /\ stack' = Below
  /\ UNCHANGED <<call, entering, answers>>

Pushes(f) ==
  /\ Computing /\ entering.depth <= call.maxDepth
  /\ f \in Frame(call.prog, graph, provenance) /\ Held(provenance, f)
  /\ f.query = Asked /\ f.depth = entering.depth
  /\ stack' = Append(stack, f) /\ mode' = "run"
  /\ UNCHANGED <<call, entering, returned, graph, provenance, cache, answers>>

Asks(q, depth) ==
  /\ mode = "run" /\ stack # <<>>
  /\ q \in Queries(call.prog) /\ depth \in Nat /\ depth >= Top.depth + 2
  /\ Enter(q, depth)
  /\ UNCHANGED <<call, returned, stack, graph, provenance, cache, answers>>

Updates(f) ==
  /\ mode \in {"run", "return"} /\ stack # <<>> /\ Grows
  /\ f \in Frame(call.prog, graph', provenance') /\ Held(provenance', f)
  /\ f.query = Top.query /\ f.depth = Top.depth
  /\ stack' = [stack EXCEPT ![Len(stack)] = f] /\ mode' = "run"
  /\ UNCHANGED <<call, entering, returned, cache, answers>>

-----------------------------------------------------------------------------
(* What was typed stays typed when the graph and the store grow.           *)
LEMMA ResultsGrow ==
  ASSUME NEW g, NEW h, NEW p, NEW q, Len(g) \in Nat, Len(h) \in Nat, Len(g) <= Len(h),
         Len(p) \in Nat, Len(q) \in Nat, Len(p) <= Len(q)
  PROVE  Results(g, p) \subseteq Results(h, q)
<1>1. 0..Len(g) \subseteq 0..Len(h) /\ 0..Len(p) \subseteq 0..Len(q)
  OBVIOUS
<1> QED
  BY <1>1 DEF Results

LEMMA FramesGrow ==
  ASSUME NEW prog, NEW g, NEW h, NEW p, NEW q, Len(g) \in Nat, Len(h) \in Nat, Len(g) <= Len(h),
         Len(p) \in Nat, Len(q) \in Nat, Len(p) <= Len(q)
  PROVE  /\ Frame(prog, g, p) \subseteq Frame(prog, h, q)
         /\ CacheEntry(prog, g, p) \subseteq CacheEntry(prog, h, q)
<1>1. Results(g, p) \subseteq Results(h, q)
  BY ResultsGrow
<1>2. CacheEntry(prog, g, p) \subseteq CacheEntry(prog, h, q)
  BY <1>1 DEF CacheEntry
<1>3. Seq(Results(g, p)) \subseteq Seq(Results(h, q))
  BY <1>1, SeqMonotonic
<1>4. 1..Len(g) \subseteq 1..Len(h) /\ 1..Len(p) \subseteq 1..Len(q)
  OBVIOUS
<1>5. Seq(1..Len(g)) \subseteq Seq(1..Len(h)) /\ Seq(1..Len(p)) \subseteq Seq(1..Len(q))
  BY <1>4, SeqMonotonic
<1>6. MergeFrame(prog, g, p) \subseteq MergeFrame(prog, h, q)
  BY <1>3, <1>5 DEF MergeFrame
<1>7. LowerFrame(prog, g, p) \subseteq LowerFrame(prog, h, q)
  BY <1>5 DEF LowerFrame
<1> QED
  BY <1>2, <1>6, <1>7 DEF Frame

LEMMA Grown ==
  ASSUME TypeOK, Grows
  PROVE  /\ Results(graph, provenance) \subseteq Results(graph', provenance')
         /\ Frame(call.prog, graph, provenance) \subseteq Frame(call.prog, graph', provenance')
         /\ CacheEntry(call.prog, graph, provenance)
              \subseteq CacheEntry(call.prog, graph', provenance')
         /\ \A r \in Results(graph, provenance) :
              RecordOf(provenance, r) => RecordOf(provenance', r)
         /\ \A f \in Frame(call.prog, graph, provenance) :
              Held(provenance, f) => Held(provenance', f)
<1>1. /\ Len(graph) \in Nat /\ Len(graph') \in Nat
      /\ Len(provenance) \in Nat /\ Len(provenance') \in Nat
  BY DEF TypeOK, Grows
<1>2. /\ Len(graph) <= Len(graph') /\ Len(provenance) <= Len(provenance')
  BY DEF Grows
<1>3. /\ Results(graph, provenance) \subseteq Results(graph', provenance')
      /\ Frame(call.prog, graph, provenance) \subseteq Frame(call.prog, graph', provenance')
      /\ CacheEntry(call.prog, graph, provenance)
            \subseteq CacheEntry(call.prog, graph', provenance')
  BY <1>1, <1>2, ResultsGrow, FramesGrow
<1>4. DOMAIN provenance \subseteq DOMAIN provenance'
  BY <1>1, <1>2 DEF TypeOK, Grows
<1>5. ASSUME NEW r, RecordOf(provenance, r)
      PROVE  RecordOf(provenance', r)
  BY <1>4, <1>5 DEF Grows, RecordOf
<1>6. ASSUME NEW f, Held(provenance, f)
      PROVE  Held(provenance', f)
  BY <1>5, <1>6 DEF Held
<1> QED
  BY <1>3, <1>5, <1>6

(* A program, and with it what the types are built on, never changes.      *)
LEMMA Stacked ==
  ASSUME TypeOK, stack # <<>>
  PROVE  /\ Len(stack) \in Nat \ {0} /\ DOMAIN stack = 1..Len(stack)
         /\ Top \in Frame(call.prog, graph, provenance)
         /\ Below \in Seq(Frame(call.prog, graph, provenance))
         /\ Len(Below) = Len(stack) - 1
         /\ \A k \in 1..(Len(stack) - 1) : Below[k] = stack[k]
<1>1. stack \in Seq(Frame(call.prog, graph, provenance))
  BY DEF TypeOK
<1>2. Len(stack) \in Nat \ {0} /\ DOMAIN stack = 1..Len(stack)
  BY <1>1, EmptySeq
<1>3. \A k \in 1..Len(stack) : stack[k] \in Frame(call.prog, graph, provenance)
  BY <1>1
<1>4. Top \in Frame(call.prog, graph, provenance)
  BY <1>2, <1>3 DEF Top
<1>5. /\ Below \in Seq(Frame(call.prog, graph, provenance))
      /\ Len(Below) = Len(stack) - 1
      /\ \A k \in 1..(Len(stack) - 1) : Below[k] = stack[k]
  BY <1>2, <1>3, SubSeqProperties DEF Below
<1> QED
  BY <1>2, <1>4, <1>5

LEMMA Cached ==
  ASSUME TypeOK
  PROVE  \A c \in DOMAIN cache : cache[c].result \in Results(graph, provenance)
<1>1. cache \in Seq(CacheEntry(call.prog, graph, provenance))
  BY DEF TypeOK
<1>2. \A c \in DOMAIN cache : cache[c] \in CacheEntry(call.prog, graph, provenance)
  BY <1>1
<1> QED
  BY <1>2 DEF CacheEntry

-----------------------------------------------------------------------------
(* Each shape keeps the invariant.                                         *)
LEMMA ComputesKeeps ==
  ASSUME IInv, NEW r, Computes(r)
  PROVE  IInv'
<1> USE DEF IInv
<1> DEFINE entry == [query |-> Asked, result |-> r]
<1>1. /\ mode = "enter" /\ Hits(Asked) = {} /\ ~Active(Asked)
      /\ mode' = "return" /\ returned' = r /\ cache' = Append(cache, entry)
      /\ call' = call /\ stack' = stack /\ answers' = answers
  BY DEF Computes, Computing, Fresh, Finish, Return
<1>2. /\ Asked \in Queries(call.prog)
      /\ r \in Results(graph', provenance') /\ RecordOf(provenance', r)
  BY <1>1 DEF Computes, Good, TypeOK, Asked
<1>3. Grows
  BY DEF Computes
<1>4. /\ cache \in Seq(CacheEntry(call.prog, graph', provenance'))
      /\ answers \in Seq(CacheEntry(call.prog, graph', provenance'))
      /\ stack \in Seq(Frame(call.prog, graph', provenance'))
      /\ entry \in CacheEntry(call.prog, graph', provenance')
  BY <1>2, <1>3, Grown, SeqMonotonic DEF TypeOK, CacheEntry
<1>5. /\ cache' \in Seq(CacheEntry(call.prog, graph', provenance'))
      /\ DOMAIN cache = 1..Len(cache) /\ Len(cache) \in Nat
      /\ DOMAIN cache' = 1..(Len(cache) + 1)
      /\ \A c \in DOMAIN cache : cache'[c] = cache[c]
      /\ cache'[Len(cache) + 1] = entry
  BY <1>1, <1>4, AppendProperties
<1>6. TypeOK'
  BY <1>1, <1>2, <1>3, <1>4, <1>5 DEF TypeOK, Grows
<1>7. NoQueryTwice'
  <2>1. \A c \in DOMAIN cache : cache[c].query # Asked
    BY <1>1 DEF Hits
  <2>2. \A k \in DOMAIN stack : stack[k].query # Asked
    BY <1>1 DEF Active
  <2>3. \A j, k \in DOMAIN cache' : cache'[j].query = cache'[k].query => j = k
    BY <1>5, <2>1 DEF NoQueryTwice
  <2>4. \A j \in DOMAIN stack : \A c \in DOMAIN cache' : cache'[c].query # stack[j].query
    BY <1>5, <2>2 DEF NoQueryTwice, Hits
  <2> QED
    BY <1>1, <2>3, <2>4 DEF NoQueryTwice, Hits
<1>8. Memoized'
  BY <1>1, <1>5 DEF Memoized
<1>9. ProvenanceMatches'
  <2>1. \A c \in DOMAIN cache : cache[c].result \in Results(graph, provenance)
    BY Cached
  <2>2. \A c \in DOMAIN cache : RecordOf(provenance', cache[c].result)
    BY <1>3, <2>1, Grown DEF ProvenanceMatches
  <2> QED
    BY <1>1, <1>2, <1>5, <2>2 DEF ProvenanceMatches
<1>10. Depths'
  BY <1>1 DEF Depths
<1>11. Pending'
  BY <1>1, <1>5 DEF Pending, Asked
<1>12. HeldProvenance'
  <2>1. \A k \in DOMAIN stack : stack[k] \in Frame(call.prog, graph, provenance)
    BY DEF TypeOK
  <2> QED
    BY <1>1, <1>3, <2>1, Grown DEF HeldProvenance
<1> QED
  BY <1>6, <1>7, <1>8, <1>9, <1>10, <1>11, <1>12

LEMMA PopsKeeps ==
  ASSUME IInv, NEW r, Pops(r)
  PROVE  IInv'
<1> USE DEF IInv
<1> DEFINE entry == [query |-> Top.query, result |-> r]
<1>1. /\ mode' = "return" /\ returned' = r /\ cache' = Append(cache, entry)
      /\ call' = call /\ stack' = Below /\ answers' = answers /\ stack # <<>>
      /\ mode # "idle" /\ mode # "enter"
  BY DEF Pops, Finish, Return
<1>2. /\ Len(stack) \in Nat \ {0} /\ DOMAIN stack = 1..Len(stack)
      /\ Below \in Seq(Frame(call.prog, graph, provenance))
      /\ DOMAIN Below = 1..(Len(stack) - 1)
      /\ \A k \in DOMAIN Below : k \in DOMAIN stack /\ k # Len(stack) /\ Below[k] = stack[k]
      /\ Top.query \in Queries(call.prog)
  <2>1. Top.query \in Queries(call.prog)
    BY <1>1, Stacked DEF Frame, LowerFrame, MergeFrame
  <2> QED
    BY <1>1, <2>1, Stacked
<1>3. /\ Grows /\ r \in Results(graph', provenance') /\ RecordOf(provenance', r)
  BY DEF Pops, Good
<1>4. /\ cache \in Seq(CacheEntry(call.prog, graph', provenance'))
      /\ answers \in Seq(CacheEntry(call.prog, graph', provenance'))
      /\ Below \in Seq(Frame(call.prog, graph', provenance'))
      /\ entry \in CacheEntry(call.prog, graph', provenance')
  BY <1>2, <1>3, Grown, SeqMonotonic DEF TypeOK, CacheEntry
<1>5. /\ cache' \in Seq(CacheEntry(call.prog, graph', provenance'))
      /\ DOMAIN cache = 1..Len(cache) /\ Len(cache) \in Nat
      /\ DOMAIN cache' = 1..(Len(cache) + 1)
      /\ \A c \in DOMAIN cache : cache'[c] = cache[c]
      /\ cache'[Len(cache) + 1] = entry
  BY <1>1, <1>4, AppendProperties
<1>6. TypeOK'
  BY <1>1, <1>3, <1>4, <1>5 DEF TypeOK, Grows
<1>7. NoQueryTwice'
  <2>1. \A c \in DOMAIN cache : cache[c].query # Top.query
    BY <1>2 DEF NoQueryTwice, Hits, Top
  <2>2. \A k \in DOMAIN Below : Below[k].query # Top.query
    BY <1>2 DEF NoQueryTwice, Top
  <2>3. \A j, k \in DOMAIN cache' : cache'[j].query = cache'[k].query => j = k
    BY <1>5, <2>1 DEF NoQueryTwice
  <2>4. \A j \in DOMAIN Below : \A c \in DOMAIN cache' : cache'[c].query # Below[j].query
    BY <1>2, <1>5, <2>2 DEF NoQueryTwice, Hits
  <2>5. \A j, k \in DOMAIN Below : Below[j].query = Below[k].query => j = k
    BY <1>2 DEF NoQueryTwice
  <2> QED
    BY <1>1, <2>3, <2>4, <2>5 DEF NoQueryTwice, Hits
<1>8. Memoized'
  BY <1>1, <1>5 DEF Memoized
<1>9. ProvenanceMatches'
  <2>1. \A c \in DOMAIN cache : cache[c].result \in Results(graph, provenance)
    BY Cached
  <2>2. \A c \in DOMAIN cache : RecordOf(provenance', cache[c].result)
    BY <1>3, <2>1, Grown DEF ProvenanceMatches
  <2> QED
    BY <1>1, <1>3, <1>5, <2>2 DEF ProvenanceMatches
<1>10. Depths'
  BY <1>1, <1>2 DEF Depths
<1>11. Pending'
  <2>1. Below # <<>> => Below[1] = stack[1]
    BY <1>2
  <2>2. Below = <<>> => Top.query = Head(call.queries)
    BY <1>1, <1>2 DEF Pending, Top
  <2> QED
    BY <1>1, <1>5, <2>1, <2>2 DEF Pending
<1>12. HeldProvenance'
  <2>1. \A k \in DOMAIN Below : Below[k] \in Frame(call.prog, graph, provenance)
    BY <1>2
  <2>2. \A k \in DOMAIN Below : Held(provenance, Below[k])
    BY <1>2 DEF HeldProvenance
  <2> QED
    BY <1>1, <1>3, <2>1, <2>2, Grown DEF HeldProvenance
<1> QED
  BY <1>6, <1>7, <1>8, <1>9, <1>10, <1>11, <1>12

LEMMA PushesKeeps ==
  ASSUME IInv, NEW f, Pushes(f)
  PROVE  IInv'
<1> USE DEF IInv
<1>1. /\ mode = "enter" /\ Hits(Asked) = {} /\ ~Active(Asked)
      /\ mode' = "run" /\ stack' = Append(stack, f)
      /\ f \in Frame(call.prog, graph, provenance) /\ Held(provenance, f)
      /\ f.query = Asked /\ f.depth = entering.depth /\ entering.depth <= call.maxDepth
  BY DEF Pushes, Computing, Fresh
<1>2. UNCHANGED <<call, entering, returned, graph, provenance, cache, answers>>
  BY DEF Pushes
<1>3. /\ stack' \in Seq(Frame(call.prog, graph, provenance))
      /\ Len(stack) \in Nat /\ DOMAIN stack = 1..Len(stack)
      /\ Len(stack') = Len(stack) + 1 /\ DOMAIN stack' = 1..(Len(stack) + 1)
      /\ \A k \in DOMAIN stack : stack'[k] = stack[k]
      /\ stack'[Len(stack) + 1] = f
      /\ stack' # <<>>
  <2>1. stack \in Seq(Frame(call.prog, graph, provenance))
    BY DEF TypeOK
  <2> QED
    BY <1>1, <2>1, AppendProperties
<1>4. TypeOK'
  BY <1>1, <1>2, <1>3 DEF TypeOK
<1>5. NoQueryTwice'
  <2>1. \A k \in DOMAIN stack : stack[k].query # f.query
    BY <1>1 DEF Active
  <2>2. \A c \in DOMAIN cache : cache[c].query # f.query
    BY <1>1 DEF Hits
  <2>3. \A j, k \in DOMAIN stack' : stack'[j].query = stack'[k].query => j = k
    BY <1>3, <2>1 DEF NoQueryTwice
  <2>4. \A j \in DOMAIN stack' : \A c \in DOMAIN cache : cache[c].query # stack'[j].query
    BY <1>3, <2>2 DEF NoQueryTwice, Hits
  <2> QED
    BY <1>2, <2>3, <2>4 DEF NoQueryTwice, Hits
<1>6. Memoized'
  BY <1>2 DEF Memoized
<1>7. ProvenanceMatches'
  BY <1>1, <1>2 DEF ProvenanceMatches
<1>8. Depths'
  <2>1. 2 * Len(stack) <= f.depth /\ f.depth <= call.maxDepth
    BY <1>1 DEF Depths
  <2> QED
    BY <1>1, <1>2, <1>3, <2>1 DEF Depths
<1>9. Pending'
  <2>1. CASE stack = <<>>
    <3>1. stack'[1].query = Head(call.queries)
      BY <1>1, <1>3, <2>1 DEF Pending, Asked
    <3> QED
      BY <1>1, <1>2, <1>3, <3>1 DEF Pending
  <2>2. CASE stack # <<>>
    <3>1. 1 \in DOMAIN stack
      BY <1>3, <2>2 DEF TypeOK
    <3> QED
      BY <1>1, <1>2, <1>3, <2>2, <3>1 DEF Pending
  <2> QED
    BY <2>1, <2>2
<1>10. HeldProvenance'
  BY <1>1, <1>2, <1>3 DEF HeldProvenance
<1> QED
  BY <1>4, <1>5, <1>6, <1>7, <1>8, <1>9, <1>10

LEMMA AsksKeeps ==
  ASSUME IInv, NEW q, NEW depth, Asks(q, depth)
  PROVE  IInv'
<1> USE DEF IInv
<1>1. /\ mode = "run" /\ stack # <<>> /\ mode' = "enter"
      /\ entering' = [query |-> q, depth |-> depth]
      /\ q \in Queries(call.prog) /\ depth \in Nat /\ depth >= Top.depth + 2
  BY DEF Asks, Enter
<1>2. UNCHANGED <<call, returned, stack, graph, provenance, cache, answers>>
  BY DEF Asks
<1>3. TypeOK'
  BY <1>1, <1>2 DEF TypeOK
<1>4. NoQueryTwice' /\ Memoized' /\ HeldProvenance'
  BY <1>2 DEF NoQueryTwice, Memoized, HeldProvenance, Hits
<1>5. ProvenanceMatches'
  BY <1>1, <1>2 DEF ProvenanceMatches
<1>6. Depths'
  <2>1. /\ Len(stack) \in Nat \ {0} /\ DOMAIN stack = 1..Len(stack)
        /\ Top.depth \in Nat
    BY <1>1, Stacked DEF Frame, LowerFrame, MergeFrame
  <2>2. 2 * (Len(stack) - 1) <= Top.depth
    BY <2>1 DEF Depths, Top
  <2>3. 2 * Len(stack) <= depth
    BY <1>1, <2>1, <2>2
  <2> QED
    BY <1>1, <1>2, <2>3 DEF Depths
<1>7. Pending'
  BY <1>1, <1>2 DEF Pending
<1> QED
  BY <1>3, <1>4, <1>5, <1>6, <1>7

LEMMA UpdatesKeeps ==
  ASSUME IInv, NEW f, Updates(f)
  PROVE  IInv'
<1> USE DEF IInv
<1>1. /\ mode' = "run" /\ stack' = [stack EXCEPT ![Len(stack)] = f] /\ stack # <<>>
      /\ mode # "idle" /\ Grows
      /\ f \in Frame(call.prog, graph', provenance') /\ Held(provenance', f)
      /\ f.query = Top.query /\ f.depth = Top.depth
      /\ UNCHANGED <<call, entering, returned, cache, answers>>
  BY DEF Updates
<1>2. /\ Len(stack) \in Nat \ {0} /\ DOMAIN stack = 1..Len(stack)
  BY <1>1, Stacked
<1>3. /\ cache \in Seq(CacheEntry(call.prog, graph', provenance'))
      /\ answers \in Seq(CacheEntry(call.prog, graph', provenance'))
      /\ stack \in Seq(Frame(call.prog, graph', provenance'))
      /\ returned \in Results(graph', provenance')
  BY <1>1, Grown, SeqMonotonic DEF TypeOK
<1>4. /\ stack' \in Seq(Frame(call.prog, graph', provenance'))
      /\ Len(stack') = Len(stack) /\ DOMAIN stack' = DOMAIN stack
      /\ \A k \in DOMAIN stack : stack'[k] = IF k = Len(stack) THEN f ELSE stack[k]
  BY <1>1, <1>2, <1>3, ExceptSeq
<1>5. \A k \in DOMAIN stack : /\ stack'[k].query = stack[k].query
                             /\ stack'[k].depth = stack[k].depth
  BY <1>1, <1>4 DEF Top
<1>6. TypeOK'
  BY <1>1, <1>3, <1>4 DEF TypeOK, Grows
<1>7. NoQueryTwice'
  <2>2. \A j \in DOMAIN stack : \A c \in DOMAIN cache : cache[c].query # stack[j].query
    BY DEF NoQueryTwice, Hits
  <2>3. \A j \in DOMAIN stack' : \A c \in DOMAIN cache' : cache'[c].query # stack'[j].query
    BY <1>1, <1>4, <1>5, <2>2
  <2>4. \A j, k \in DOMAIN stack' : stack'[j].query = stack'[k].query => j = k
    BY <1>4, <1>5 DEF NoQueryTwice
  <2>5. \A j, k \in DOMAIN cache' : cache'[j].query = cache'[k].query => j = k
    BY <1>1 DEF NoQueryTwice
  <2> QED
    BY <2>3, <2>4, <2>5 DEF NoQueryTwice, Hits
<1>8. Memoized'
  BY <1>1 DEF Memoized
<1>9. ProvenanceMatches'
  BY <1>1, Cached, Grown DEF ProvenanceMatches
<1>10. Depths'
  BY <1>1, <1>4, <1>5 DEF Depths
<1>11. Pending'
  <2>1. stack' # <<>> /\ stack'[1].query = stack[1].query
    BY <1>2, <1>4, <1>5
  <2> QED
    BY <1>1, <2>1 DEF Pending
<1>12. HeldProvenance'
  <2>1. \A k \in DOMAIN stack : stack[k] \in Frame(call.prog, graph, provenance)
    BY DEF TypeOK
  <2> QED
    BY <1>1, <1>4, <2>1, Grown DEF HeldProvenance
<1> QED
  BY <1>6, <1>7, <1>8, <1>9, <1>10, <1>11, <1>12

-----------------------------------------------------------------------------
(* What the ends of recover_with_cache return.                             *)
LEMMA Lengths ==
  ASSUME TypeOK
  PROVE  /\ Len(graph) \in Nat /\ DOMAIN graph = 1..Len(graph)
         /\ Len(provenance) \in Nat /\ DOMAIN provenance = 1..Len(provenance)
         /\ call.prog \in Program /\ call.maxDepth \in Nat
BY DEF TypeOK, CallType

LEMMA NodeAdded ==
  ASSUME TypeOK, NEW node \in Node, graph' = Append(graph, node)
  PROVE  /\ graph' \in Seq(Node) /\ Len(graph') = Len(graph) + 1
         /\ Len(graph) \in Nat /\ NextNode \in 1..Len(graph')
BY AppendProperties DEF TypeOK, NextNode

LEMMA RecordAdded ==
  ASSUME TypeOK, NEW kind \in Kinds, NEW node \in Nat, NEW inputs \in Seq(Nat),
         provenance' = Append(provenance, Record(kind, node, inputs))
  PROVE  /\ provenance' \in Seq(RecordType) /\ Len(provenance') = Len(provenance) + 1
         /\ Len(provenance) \in Nat /\ NextRecord \in 1..Len(provenance')
         /\ \A p \in DOMAIN provenance : provenance'[p] = provenance[p]
         /\ NextRecord \in DOMAIN provenance' /\ provenance'[NextRecord].node = node
<1>1. Record(kind, node, inputs) \in RecordType
  BY DEF Record, RecordType, Kinds
<1>2. provenance \in Seq(RecordType)
  BY DEF TypeOK
<1>3. /\ provenance' \in Seq(RecordType) /\ Len(provenance') = Len(provenance) + 1
      /\ Len(provenance) \in Nat /\ NextRecord \in 1..Len(provenance')
      /\ \A p \in DOMAIN provenance : provenance'[p] = provenance[p]
      /\ NextRecord \in DOMAIN provenance'
      /\ provenance'[NextRecord] = Record(kind, node, inputs)
  BY <1>1, <1>2, AppendProperties DEF NextRecord
<1> QED
  BY <1>3 DEF Record

LEMMA LeafType ==
  ASSUME NEW op \in NodeOps, NEW type \in Types, NEW note \in Notes
  PROVE  Leaf(op, type, note) \in Node
BY EmptySeq DEF Leaf, Node

LEMMA NoteTypes ==
  /\ <<>> \in Notes
  /\ \A reason \in Reasons : <<reason>> \in Notes
  /\ \A reg \in Registers, n \in Nat : <<"entry", reg, n>> \in Notes
  /\ \A address \in Address, n \in Nat : <<"memory", address, n>> \in Notes
BY DEF Notes

LEMMA ResultGood ==
  ASSUME TypeOK, Grows, NEW root \in 0..Len(graph'), NEW type \in Types,
         NEW prov \in 0..Len(provenance'), NEW status \in Statuses,
         NEW diags \in SUBSET Diagnostics,
         prov # None => prov \in DOMAIN provenance' /\ provenance'[prov].node = root
  PROVE  Good(Result(root, type, prov, status, diags))
BY DEF Good, Results, Result, RecordOf

LEMMA FinishUnknownGood ==
  ASSUME TypeOK, NEW q, NEW type \in Types, NEW reason \in Reasons, NEW status \in Statuses,
         NEW diags \in SUBSET Diagnostics, FinishUnknown(q, type, reason, status, diags)
  PROVE  Grows /\ \E r : Good(r) /\ Finish(q, r)
<1>1. Leaf("unknown", type, <<reason>>) \in Node
  <2> DEFINE note == <<reason>>
  <2>1. note \in Notes
    BY NoteTypes
  <2> HIDE DEF note
  <2>2. Leaf("unknown", type, note) \in Node
    BY <2>1, LeafType DEF NodeOps
  <2> QED
    BY <2>2 DEF note
<1>2. /\ graph' = Append(graph, Leaf("unknown", type, <<reason>>)) /\ provenance' = provenance
      /\ Finish(q, Result(NextNode, type, None, status, diags))
  BY DEF FinishUnknown
<1>3. /\ graph' \in Seq(Node) /\ Len(graph') = Len(graph) + 1
      /\ Len(graph) \in Nat /\ NextNode \in 1..Len(graph')
  BY <1>1, <1>2, NodeAdded
<1>4. Grows
  BY <1>2, <1>3, Lengths DEF Grows, TypeOK
<1>5. Good(Result(NextNode, type, None, status, diags))
  BY <1>2, <1>3, <1>4, Lengths, ResultGood
<1> QED
  BY <1>2, <1>4, <1>5

LEMMA FinishEmptyGood ==
  ASSUME TypeOK, NEW q, NEW type \in Types, NEW diags \in SUBSET Diagnostics,
         FinishEmpty(q, type, diags)
  PROVE  Grows /\ \E r : Good(r) /\ Finish(q, r)
<1>1. /\ graph' = graph /\ provenance' = provenance
      /\ Finish(q, Result(None, type, None, "invalid_input", diags))
  BY DEF FinishEmpty
<1>2. Grows
  BY <1>1, Lengths DEF Grows, TypeOK
<1>3. Good(Result(None, type, None, "invalid_input", diags))
  BY <1>1, <1>2, Lengths, ResultGood DEF Statuses
<1> QED
  BY <1>1, <1>2, <1>3

LEMMA FinishNodeGood ==
  ASSUME TypeOK, NEW q, NEW node \in Node, NEW kind \in Kinds, NEW inputs \in Seq(Nat),
         NEW status \in Statuses, NEW diags \in SUBSET Diagnostics,
         FinishNode(q, node, kind, inputs, status, diags)
  PROVE  Grows /\ \E r : Good(r) /\ Finish(q, r)
<1>1. /\ graph' = Append(graph, node)
      /\ provenance' = Append(provenance, Record(kind, NextNode, inputs))
      /\ Finish(q, Result(NextNode, node.type, NextRecord, status, diags))
  BY DEF FinishNode
<1>2. /\ graph' \in Seq(Node) /\ Len(graph') = Len(graph) + 1
      /\ Len(graph) \in Nat /\ NextNode \in 1..Len(graph') /\ NextNode \in Nat
  BY <1>1, NodeAdded
<1>3. /\ provenance' \in Seq(RecordType) /\ Len(provenance') = Len(provenance) + 1
      /\ Len(provenance) \in Nat /\ NextRecord \in 1..Len(provenance')
      /\ \A p \in DOMAIN provenance : provenance'[p] = provenance[p]
      /\ NextRecord \in DOMAIN provenance' /\ provenance'[NextRecord].node = NextNode
  BY <1>1, <1>2, RecordAdded
<1>4. Grows
  BY <1>2, <1>3 DEF Grows
<1>5. node.type \in Types
  BY DEF Node
<1>6. Good(Result(NextNode, node.type, NextRecord, status, diags))
  BY SMTT(30), <1>2, <1>3, <1>4, <1>5, ResultGood
<1> QED
  BY <1>1, <1>4, <1>6

LEMMA FinishBoundaryGood ==
  ASSUME TypeOK, NEW q \in Queries(call.prog), NEW diags \in SUBSET Diagnostics,
         FinishBoundary(q, diags)
  PROVE  Grows /\ \E r : Good(r) /\ Finish(q, r)
<1>1. q.loc.reg \in Registers /\ q.loc.off \in Nat /\ q.type \in Types
  BY DEF Queries, Slice
<1> DEFINE note == <<"entry", q.loc.reg, q.loc.off>>
           node == Leaf("external", q.type, note)
<1>2. note \in Notes
  BY <1>1, NoteTypes
<1> HIDE DEF note
<1>3. node \in Node
  BY <1>1, <1>2, LeafType DEF NodeOps
<1>4. <<>> \in Seq(Nat) /\ "partial" \in Statuses /\ "external_input" \in Kinds
  BY EmptySeq DEF Statuses, Kinds, Boundaries
<1>5. FinishNode(q, node, "external_input", <<>>, "partial", diags)
  BY DEF FinishBoundary, note
<1> HIDE DEF node
<1> QED
  BY <1>3, <1>4, <1>5, FinishNodeGood

-----------------------------------------------------------------------------
(* The program's part of the types.                                        *)
LEMMA DefinitionType ==
  ASSUME TypeOK, NEW d \in Definitions(call.prog)
  PROVE  /\ d.block \in DOMAIN call.prog.blocks /\ d.block \in Nat /\ d.pos \in Nat
         /\ Instr(call.prog, d) \in Instruction
         /\ Effect(call.prog, d) \in WriteEffect
<1> DEFINE blocks == call.prog.blocks
<1>1. blocks \in Seq(Block)
  BY Lengths DEF Program
<1> DEFINE Written(b, i) == {e \in DOMAIN blocks[b].instrs[i].effects :
                                blocks[b].instrs[i].effects[e].kind = "write"}
           In(b, i) == {[block |-> b, pos |-> i, effect |-> e] : e \in Written(b, i)}
           InBlock(b) == UNION {In(b, i) : i \in DOMAIN blocks[b].instrs}
<1>2. d \in UNION {InBlock(b) : b \in DOMAIN blocks}
  BY DEF Definitions, EffectsOf
<1> HIDE DEF InBlock
<1>3. PICK b \in DOMAIN blocks : d \in InBlock(b)
  BY <1>2
<1> HIDE DEF In
<1>4. PICK i \in DOMAIN blocks[b].instrs : d \in In(b, i)
  BY <1>3 DEF InBlock
<1>5. PICK e \in DOMAIN blocks[b].instrs[i].effects :
        /\ blocks[b].instrs[i].effects[e].kind = "write"
        /\ d = [block |-> b, pos |-> i, effect |-> e]
  BY <1>4 DEF In
<1>6. blocks[b] \in Block /\ b \in Nat
  BY <1>1
<1>7. blocks[b].instrs \in Seq(Instruction)
  BY <1>6 DEF Block
<1>8. blocks[b].instrs[i] \in Instruction /\ i \in Nat
  BY <1>7
<1>9. blocks[b].instrs[i].effects \in Seq(WriteEffect \cup StoreEffect)
  BY <1>8 DEF Instruction
<1>10. blocks[b].instrs[i].effects[e] \in WriteEffect \cup StoreEffect
  BY <1>9
<1>11. blocks[b].instrs[i].effects[e] \in WriteEffect
  BY <1>5, <1>10 DEF StoreEffect
<1>12. d.block = b /\ d.pos = i /\ d.effect = e
  BY <1>5
<1> QED
  BY <1>6, <1>8, <1>11, <1>12 DEF Instr, Effect

LEMMA FoundType == Found \subseteq Definitions(call.prog)
BY DEF Found, Reaching

LEMMA AskedType ==
  ASSUME TypeOK, Computing
  PROVE  /\ Asked \in Queries(call.prog) /\ entering.depth \in Nat /\ Asked.type \in Types
         /\ Asked.point.block \in DOMAIN call.prog.blocks
BY DEF TypeOK, Computing, Asked, Queries

(* The lane that requested_lane picks.                                     *)
LEMMA LaneType ==
  ASSUME TypeOK, NEW q \in Queries(call.prog), NEW d \in Definitions(call.prog)
  PROVE  /\ RequestedLane(q.loc) \in Nat
         /\ Effect(call.prog, d).value.type \in Types /\ ResultType(q, Effect(call.prog, d).value) \in Types
         /\ RequestedLane(q.loc) < Len(Effect(call.prog, d).value.lanes)
              => LaneExpression(d, q) \in LaneExpr
<1>1. q.loc \in Slice /\ q.type \in Types
  BY DEF Queries
<1>2. RequestedLane(q.loc) \in Nat
  <2>1. q.loc.off \in Nat /\ q.loc.lane \in {<<>>} \cup (Nat \X Nat)
    BY <1>1 DEF Slice
  <2>2. q.loc.lane # <<>> => q.loc.lane[1] \in Nat
    BY <2>1
  <2> QED
    BY <2>1, <2>2 DEF RequestedLane
<1>3. Effect(call.prog, d).value \in VectorValue
  BY DefinitionType DEF WriteEffect
<1>4. Effect(call.prog, d).value.type \in Types /\ Effect(call.prog, d).value.lanes \in Seq(LaneExpr)
  BY <1>3 DEF VectorValue
<1>5. ResultType(q, Effect(call.prog, d).value) \in Types
  BY <1>1, <1>4 DEF ResultType
<1>6. RequestedLane(q.loc) < Len(Effect(call.prog, d).value.lanes)
        => LaneExpression(d, q) \in LaneExpr
  BY <1>2, <1>4 DEF LaneExpression
<1> QED
  BY <1>2, <1>4, <1>5, <1>6

-----------------------------------------------------------------------------
(* The actions: a query that is answered at once, or that starts to wait.  *)
LEMMA DepthExhaustedShape ==
  ASSUME IInv, DepthExhausted
  PROVE  \E r : Computes(r)
<1>1. /\ Computing /\ UNCHANGED <<call, entering, stack, answers>>
      /\ FinishUnknown(Asked, Asked.type, "recovery recursion budget exhausted",
                       "resource_exhausted", {"depth_exhausted"})
  BY DEF DepthExhausted
<1>2. /\ "recovery recursion budget exhausted" \in Reasons /\ "resource_exhausted" \in Statuses
      /\ {"depth_exhausted"} \in SUBSET Diagnostics
  BY DEF Reasons, Statuses, Diagnostics
<1> QED
  BY <1>1, <1>2, AskedType, FinishUnknownGood DEF IInv, Computes

LEMMA InvalidLaneShape ==
  ASSUME IInv, InvalidLane
  PROVE  \E r : Computes(r)
<1>1. /\ Computing /\ UNCHANGED <<call, entering, stack, answers>>
      /\ FinishUnknown(Asked, Asked.type, "requested lane is outside semantic value",
                       "invalid_input", {"invalid_lane"})
  BY DEF InvalidLane, Searching
<1>2. /\ "requested lane is outside semantic value" \in Reasons /\ "invalid_input" \in Statuses
      /\ {"invalid_lane"} \in SUBSET Diagnostics
  BY DEF Reasons, Statuses, Diagnostics
<1> QED
  BY <1>1, <1>2, AskedType, FinishUnknownGood DEF IInv, Computes

LEMMA LowerZeroShape ==
  ASSUME IInv, LowerZero
  PROVE  \E r : Computes(r)
<1>1. Computing /\ UNCHANGED <<call, entering, stack, answers>> /\ TypeOK
  BY DEF LowerZero, Searching, IInv
<1>2. PICK d \in Found :
        LET type == ResultType(Asked, Effect(call.prog, d).value)
        IN IF type \in ScalarTypes
           THEN FinishNode(Asked, Leaf("zero", type, <<>>), "instruction_write",
                           <<>>, "complete", {})
           ELSE FinishEmpty(Asked, type, {"constant"})
  BY DEF LowerZero
<1> DEFINE type == ResultType(Asked, Effect(call.prog, d).value)
           node == Leaf("zero", type, <<>>)
<1>3. type \in Types
  BY <1>1, FoundType, AskedType, LaneType
<1>4. /\ node \in Node /\ "instruction_write" \in Kinds /\ <<>> \in Seq(Nat)
      /\ "complete" \in Statuses /\ {} \in SUBSET Diagnostics
      /\ {"constant"} \in SUBSET Diagnostics
  <2>1. "zero" \in NodeOps /\ <<>> \in Notes
    BY NoteTypes DEF NodeOps
  <2>2. node \in Node
    BY <1>3, <2>1, LeafType
  <2> QED
    BY <2>2, EmptySeq DEF Kinds, Statuses, Diagnostics
<1> HIDE DEF type, node
<1>5. CASE FinishNode(Asked, node, "instruction_write", <<>>, "complete", {})
  BY <1>1, <1>4, <1>5, FinishNodeGood DEF Computes
<1>6. CASE FinishEmpty(Asked, type, {"constant"})
  BY <1>1, <1>3, <1>4, <1>6, FinishEmptyGood DEF Computes
<1> QED
  BY <1>2, <1>5, <1>6 DEF type, node

LEMMA EntryBoundaryShape ==
  ASSUME IInv, EntryBoundary
  PROVE  \E r : Computes(r)
<1>1. /\ Computing /\ UNCHANGED <<call, entering, stack, answers>>
      /\ FinishBoundary(Asked, {}) /\ {} \in SUBSET Diagnostics
  BY DEF EntryBoundary, Searching
<1> QED
  BY <1>1, AskedType, FinishBoundaryGood DEF IInv, Computes

LEMMA StartLoweringShape ==
  ASSUME IInv, StartLowering
  PROVE  \E f : Pushes(f)
<1>1. /\ Computing /\ entering.depth <= call.maxDepth /\ mode' = "run" /\ TypeOK
      /\ UNCHANGED <<call, entering, returned, graph, provenance, cache, answers>>
  BY DEF StartLowering, Searching, IInv
<1>2. PICK d \in Found :
        /\ LaneExists(d)
        /\ stack' = Append(stack,
            [kind |-> "lower", query |-> Asked, depth |-> entering.depth, next |-> 1,
             def |-> d, type |-> ResultType(Asked, Effect(call.prog, d).value),
             status |-> "complete", diags |-> {}, roots |-> <<>>, inputs |-> <<>>])
  BY DEF StartLowering
<1> DEFINE type == ResultType(Asked, Effect(call.prog, d).value)
           f == [kind |-> "lower", query |-> Asked, depth |-> entering.depth, next |-> 1,
                 def |-> d, type |-> type,
                 status |-> "complete", diags |-> {}, roots |-> <<>>, inputs |-> <<>>]
<1>3. type \in Types /\ d \in Definitions(call.prog)
  BY <1>1, FoundType, AskedType, LaneType
<1> HIDE DEF type
<1>4. /\ "complete" \in Statuses /\ {} \in SUBSET Diagnostics
      /\ <<>> \in Seq(1..Len(graph)) /\ <<>> \in Seq(1..Len(provenance))
  BY EmptySeq DEF Statuses
<1>5. f \in LowerFrame(call.prog, graph, provenance)
  BY <1>1, <1>2, <1>3, <1>4, AskedType DEF LowerFrame, LaneExists
<1>6. f \in Frame(call.prog, graph, provenance) /\ Held(provenance, f)
  BY <1>5 DEF Frame, Held
<1> QED
  BY <1>1, <1>2, <1>6 DEF Pushes, type

LEMMA StartMergeShape ==
  ASSUME IInv, StartMerge
  PROVE  \E f : Pushes(f)
<1> DEFINE f == [kind |-> "merge", query |-> Asked, depth |-> entering.depth, next |-> 1,
                 status |-> "complete", diags |-> {}, incoming |-> <<>>, inputs |-> <<>>]
<1>1. /\ Computing /\ entering.depth <= call.maxDepth /\ mode' = "run" /\ TypeOK
      /\ stack' = Append(stack, f)
      /\ UNCHANGED <<call, entering, returned, graph, provenance, cache, answers>>
  BY DEF StartMerge, Searching, IInv
<1>2. /\ "complete" \in Statuses /\ {} \in SUBSET Diagnostics
      /\ <<>> \in Seq(Results(graph, provenance)) /\ <<>> \in Seq(1..Len(provenance))
  BY EmptySeq DEF Statuses
<1>3. f \in MergeFrame(call.prog, graph, provenance)
  BY <1>1, <1>2, AskedType DEF MergeFrame
<1>4. f \in Frame(call.prog, graph, provenance) /\ Held(provenance, f)
  BY <1>3 DEF Frame, Held
<1> QED
  BY <1>1, <1>4 DEF Pushes

-----------------------------------------------------------------------------
(* The actions: a lane expression and its inputs.                          *)
LEMMA LoweringType ==
  ASSUME TypeOK, Lowering
  PROVE  /\ stack # <<>> /\ Top \in LowerFrame(call.prog, graph, provenance)
         /\ Top.query \in Queries(call.prog) /\ Top.type \in Types /\ Top.depth \in Nat
         /\ Top.def \in Definitions(call.prog)
         /\ Write \in WriteEffect /\ Expression \in LaneExpr /\ Operands \in Seq(Operand)
         /\ MoreInputs => Input \in LaneInput
<1>1. stack # <<>>
  BY Lengths DEF Lowering, TypeOK
<1>2. Top \in Frame(call.prog, graph, provenance) /\ Top.kind = "lower"
  BY <1>1, Stacked DEF Lowering
<1>3. Top \in LowerFrame(call.prog, graph, provenance)
  BY <1>2 DEF Frame, MergeFrame
<1>4. /\ Top.query \in Queries(call.prog) /\ Top.type \in Types /\ Top.depth \in Nat
      /\ Top.def \in Definitions(call.prog) /\ Top.next \in Nat \ {0}
      /\ RequestedLane(Top.query.loc) < Len(Effect(call.prog, Top.def).value.lanes)
  BY <1>3 DEF LowerFrame
<1>5. Write \in WriteEffect /\ Expression \in LaneExpr
  BY <1>4, DefinitionType, LaneType DEF Write, Expression
<1>6. Operands \in Seq(Operand)
  BY <1>4, DefinitionType DEF Operands, Instruction
<1>7. MoreInputs => Input \in LaneInput
  <2>1. Expression.inputs \in Seq(LaneInput)
    BY <1>5 DEF LaneExpr
  <2> QED
    BY <1>4, <2>1 DEF MoreInputs, Input
<1> QED
  BY <1>1, <1>3, <1>4, <1>5, <1>6, <1>7

LEMMA AskInputShape ==
  ASSUME TypeOK, Lowering, MoreInputs, mode = "run", NEW slice \in Slice, AskInput(slice)
  PROVE  \E q, depth : Asks(q, depth)
<1> DEFINE loc == LaneLocation(slice, Input.lane, Write.value.count)
           at == Point(Top.def, "before")
           q == Query(loc, at, Top.type)
<1>1. loc \in Slice
  <2>1. Input.lane \in Nat /\ Write.value.count \in Nat
    BY LoweringType DEF LaneInput, WriteEffect, VectorValue
  <2>2. <<Input.lane, Write.value.count>> \in Nat \X Nat
    BY <2>1
  <2>3. slice.reg \in Registers /\ slice.off + Input.lane \in Nat
    BY <2>1 DEF Slice
  <2> QED
    BY <2>2, <2>3 DEF LaneLocation, Slice
<1>2. at \in Points /\ at.block \in DOMAIN call.prog.blocks
  BY LoweringType, DefinitionType DEF Point, Points
<1> HIDE DEF loc, at
<1>3. q \in Queries(call.prog)
  BY <1>1, <1>2, LoweringType DEF Query, Queries
<1>4. Top.depth + 3 \in Nat /\ Top.depth + 3 >= Top.depth + 2 /\ stack # <<>>
  BY LoweringType
<1>5. Asks(q, Top.depth + 3)
  BY <1>3, <1>4 DEF AskInput, Asks, loc, at
<1> QED
  BY <1>5

LEMMA OldDestinationShape ==
  ASSUME IInv, OldDestination
  PROVE  \E q, depth : Asks(q, depth)
<1>1. TypeOK /\ mode = "run" /\ Lowering /\ MoreInputs /\ AskInput(Write.dest)
  BY DEF OldDestination, IInv
<1>2. Write.dest \in Slice
  BY <1>1, LoweringType DEF WriteEffect
<1> QED
  BY <1>1, <1>2, AskInputShape

LEMMA RegisterOperandShape ==
  ASSUME IInv, RegisterOperand
  PROVE  \E q, depth : Asks(q, depth)
<1>1. /\ TypeOK /\ mode = "run" /\ Lowering /\ MoreInputs
      /\ Input.operand \in DOMAIN Operands /\ Operands[Input.operand].kind = "register"
      /\ AskInput(Operands[Input.operand].slice)
  BY DEF RegisterOperand, IInv
<1>2. Operands[Input.operand] \in Operand
  BY <1>1, LoweringType
<1>3. Operands[Input.operand].slice \in Slice
  BY <1>1, <1>2 DEF Operand
<1> QED
  BY <1>1, <1>3, AskInputShape

(* An input with a root is taken by the frame on top.                      *)
LEMMA TakeInputShape ==
  ASSUME IInv, Lowering, mode \in {"run", "return"}, Grows,
         NEW r \in Results(graph', provenance'), r.root # None, TakeInput(r),
         UNCHANGED <<call, entering, returned, cache, answers>>
  PROVE  \E f : Updates(f)
<1> DEFINE f == [Top EXCEPT !.next = @ + 1,
                            !.roots = Append(@, r.root),
                            !.inputs = IF r.prov = None THEN @ ELSE Append(@, r.prov),
                            !.diags = @ \cup r.diags,
                            !.status = IF r.status = "complete" THEN @ ELSE "partial"]
<1>1. /\ stack # <<>> /\ Top \in LowerFrame(call.prog, graph', provenance')
  <2>1. stack # <<>> /\ Top \in LowerFrame(call.prog, graph, provenance)
    BY LoweringType DEF IInv
  <2>2. Top \in Frame(call.prog, graph', provenance') /\ Top.kind = "lower"
    BY <2>1, Grown DEF IInv, Frame, LowerFrame
  <2> QED
    BY <2>1, <2>2 DEF Frame, MergeFrame
<1>2. /\ r.root \in 1..Len(graph') /\ r.prov \in 0..Len(provenance')
      /\ r.diags \in SUBSET Diagnostics /\ r.status \in Statuses
  BY DEF Results
<1>3. /\ Top.roots \in Seq(1..Len(graph')) /\ Top.inputs \in Seq(1..Len(provenance'))
      /\ Top.next \in Nat \ {0} /\ Top.diags \in SUBSET Diagnostics /\ Top.status \in Statuses
  BY <1>1 DEF LowerFrame
<1>4. /\ Append(Top.roots, r.root) \in Seq(1..Len(graph'))
      /\ r.prov # None => Append(Top.inputs, r.prov) \in Seq(1..Len(provenance'))
      /\ "partial" \in Statuses /\ Top.next + 1 \in Nat \ {0}
  BY SMTT(30), <1>2, <1>3, AppendProperties, Lengths DEF Statuses, Grows
<1>5. f \in LowerFrame(call.prog, graph', provenance')
  BY <1>1, <1>2, <1>3, <1>4 DEF LowerFrame
<1>6. f.query = Top.query /\ f.depth = Top.depth /\ f.kind = "lower"
  BY <1>1 DEF LowerFrame
<1>7. f \in Frame(call.prog, graph', provenance') /\ Held(provenance', f)
  BY <1>5, <1>6 DEF Frame, Held
<1>8. stack' = [stack EXCEPT ![Len(stack)] = f] /\ mode' = "run"
  BY DEF TakeInput, Replace
<1>9. Updates(f)
  BY <1>1, <1>6, <1>7, <1>8 DEF Updates
<1> QED
  BY <1>9

LEMMA BadOperandShape ==
  ASSUME IInv, BadOperand
  PROVE  \E f : Updates(f)
<1>1. /\ TypeOK /\ mode = "run" /\ Lowering /\ Top.type \in Types
      /\ UNCHANGED <<call, entering, returned, provenance, cache, answers>>
  BY LoweringType DEF BadOperand, IInv
<1>2. ASSUME NEW reason \in Reasons, NEW status \in Statuses, NEW diag \in Diagnostics,
             graph' = Append(graph, Leaf("unknown", Top.type, <<reason>>)),
             TakeInput(Result(NextNode, Top.type, None, status, {diag}))
      PROVE  \E f : Updates(f)
  <2> DEFINE note == <<reason>>
             node == Leaf("unknown", Top.type, note)
             r == Result(NextNode, Top.type, None, status, {diag})
  <2>1. note \in Notes /\ "unknown" \in NodeOps
    BY NoteTypes DEF NodeOps
  <2> HIDE DEF note
  <2>2. node \in Node
    BY <1>1, <2>1, LeafType
  <2>3. /\ graph' \in Seq(Node) /\ Len(graph') = Len(graph) + 1
        /\ Len(graph) \in Nat /\ NextNode \in 1..Len(graph')
    BY <1>1, <1>2, <2>2, NodeAdded DEF note
  <2>4. Grows
    BY <1>1, <2>3, Lengths DEF Grows, TypeOK
  <2>5. r \in Results(graph', provenance')
    BY <1>1, <2>3, Lengths DEF Result, Results
  <2>6. r.root # None
    BY <2>3 DEF Result
  <2> QED
    BY <1>1, <1>2, <2>4, <2>5, <2>6, TakeInputShape
<1>3. CASE /\ graph' = Append(graph, Leaf("unknown", Top.type,
                                        <<"semantic source operand is missing">>))
           /\ TakeInput(Result(NextNode, Top.type, None, "invalid_input", {"missing_operand"}))
  BY <1>2, <1>3 DEF Reasons, Statuses, Diagnostics
<1>4. CASE /\ graph' = Append(graph, Leaf("unknown", Top.type,
                                        <<"unsupported source operand">>))
           /\ TakeInput(Result(NextNode, Top.type, None, "unsupported", {"unsupported_operand"}))
  BY <1>2, <1>4 DEF Reasons, Statuses, Diagnostics
<1> QED
  BY <1>3, <1>4 DEF BadOperand

LEMMA MemoryOperandShape ==
  ASSUME IInv, MemoryOperand
  PROVE  \E f : Updates(f)
<1> DEFINE address == Operands[Input.operand].address
<1>1. /\ TypeOK /\ mode = "run" /\ Lowering /\ Top.type \in Types
      /\ provenance' = Append(provenance, Record("memory_boundary", NextNode, <<>>))
      /\ UNCHANGED <<call, entering, returned, cache, answers>>
  BY LoweringType DEF MemoryOperand, IInv
<1>2. address \in Address /\ Input.lane \in Nat
  <2>1. /\ MoreInputs /\ Input.operand \in DOMAIN Operands
        /\ Operands[Input.operand].kind = "memory"
    BY DEF MemoryOperand
  <2>2. Operands[Input.operand] \in Operand /\ Input \in LaneInput
    BY <1>1, <2>1, LoweringType
  <2> QED
    BY <2>1, <2>2 DEF Operand, LaneInput
<1>3. ASSUME NEW op \in NodeOps, NEW note \in Notes, NEW diags \in SUBSET Diagnostics,
             graph' = Append(graph, Leaf(op, Top.type, note)),
             TakeInput(Result(NextNode, Top.type, NextRecord, "partial", diags))
      PROVE  \E f : Updates(f)
  <2> DEFINE r == Result(NextNode, Top.type, NextRecord, "partial", diags)
  <2>1. Leaf(op, Top.type, note) \in Node
    BY <1>1, LeafType
  <2>2. /\ graph' \in Seq(Node) /\ Len(graph') = Len(graph) + 1
        /\ Len(graph) \in Nat /\ NextNode \in 1..Len(graph') /\ NextNode \in Nat
    BY <1>1, <1>3, <2>1, NodeAdded
  <2>3. "memory_boundary" \in Kinds /\ <<>> \in Seq(Nat)
    BY EmptySeq DEF Kinds, Boundaries
  <2>4. /\ provenance' \in Seq(RecordType) /\ Len(provenance') = Len(provenance) + 1
        /\ Len(provenance) \in Nat /\ NextRecord \in 1..Len(provenance')
        /\ \A p \in DOMAIN provenance : provenance'[p] = provenance[p]
    BY <1>1, <2>2, <2>3, RecordAdded
  <2>5. Grows
    BY <2>2, <2>4 DEF Grows
  <2>6. r \in Results(graph', provenance')
    BY <1>1, <2>2, <2>4 DEF Result, Results, Statuses
  <2>7. r.root # None
    BY <2>2 DEF Result
  <2> QED
    BY <1>1, <1>3, <2>5, <2>6, <2>7, TakeInputShape
<1>4. CASE /\ graph' = Append(graph, Leaf("unknown", Top.type,
                                <<"memory read may depend on an earlier store">>))
           /\ TakeInput(Result(NextNode, Top.type, NextRecord, "partial", {"store_barrier"}))
  <2>1. /\ "unknown" \in NodeOps /\ {"store_barrier"} \in SUBSET Diagnostics
        /\ "memory read may depend on an earlier store" \in Reasons
    BY DEF NodeOps, Diagnostics, Reasons
  <2> DEFINE note == <<"memory read may depend on an earlier store">>
  <2>2. note \in Notes
    BY <2>1, NoteTypes
  <2>3. graph' = Append(graph, Leaf("unknown", Top.type, note))
    BY <1>4
  <2> HIDE DEF note
  <2> QED
    BY <1>3, <1>4, <2>1, <2>2, <2>3
<1>5. CASE /\ graph' = Append(graph, Leaf("external", Top.type, <<"memory", address, Input.lane>>))
           /\ TakeInput(Result(NextNode, Top.type, NextRecord, "partial", {}))
  <2> DEFINE note == <<"memory", address, Input.lane>>
  <2>1. "external" \in NodeOps /\ {} \in SUBSET Diagnostics
    BY DEF NodeOps
  <2>2. note \in Notes
    BY <1>2, NoteTypes
  <2>3. graph' = Append(graph, Leaf("external", Top.type, note))
    BY <1>5
  <2> HIDE DEF note
  <2> QED
    BY <1>3, <1>5, <2>1, <2>2, <2>3
<1> QED
  BY <1>4, <1>5 DEF MemoryOperand

LEMMA InputReturnedShape ==
  ASSUME IInv, InputReturned
  PROVE  (\E f : Updates(f)) \/ (\E r : Pops(r))
<1>1. /\ TypeOK /\ mode = "return" /\ Lowering /\ Top.type \in Types /\ stack # <<>>
      /\ UNCHANGED <<call, entering, answers>>
      /\ returned \in Results(graph, provenance)
  BY LoweringType DEF InputReturned, IInv, TypeOK
<1>2. CASE returned.root = None
  <2>1. /\ FinishUnknown(Top.query, Top.type, "lane input recovery failed", "partial",
                         returned.diags)
        /\ stack' = Below
    BY <1>2 DEF InputReturned
  <2>2. /\ "lane input recovery failed" \in Reasons /\ "partial" \in Statuses
        /\ returned.diags \in SUBSET Diagnostics
    BY <1>1 DEF Reasons, Statuses, Results
  <2> QED
    BY <1>1, <2>1, <2>2, FinishUnknownGood DEF Pops
<1>3. CASE returned.root # None
  <2>1. TakeInput(returned) /\ UNCHANGED <<returned, graph, provenance, cache>>
    BY <1>3 DEF InputReturned
  <2>2. Grows
    BY <1>1, <2>1, Lengths DEF Grows, TypeOK
  <2>3. returned \in Results(graph', provenance')
    BY <1>1, <2>1
  <2> QED
    BY <1>1, <1>3, <2>1, <2>2, <2>3, TakeInputShape
<1> QED
  BY <1>2, <1>3

LEMMA LowerCopyShape ==
  ASSUME IInv, LowerCopy
  PROVE  \E r : Pops(r)
<1>1. /\ TypeOK /\ mode = "run" /\ Lowering /\ stack # <<>> /\ stack' = Below
      /\ Top \in LowerFrame(call.prog, graph, provenance)
      /\ UNCHANGED <<call, entering, answers>>
  BY LoweringType DEF LowerCopy, IInv
<1>2. /\ Top.type \in Types /\ Top.roots \in Seq(1..Len(graph))
      /\ Top.inputs \in Seq(1..Len(provenance))
      /\ Top.status \in Statuses /\ Top.diags \in SUBSET Diagnostics
  BY <1>1 DEF LowerFrame
<1>3. CASE Top.roots = <<>>
  <2>1. FinishEmpty(Top.query, Top.type, {"invalid_copy"})
    BY <1>3 DEF LowerCopy
  <2>2. {"invalid_copy"} \in SUBSET Diagnostics
    BY DEF Diagnostics
  <2> QED
    BY <1>1, <1>2, <2>1, <2>2, FinishEmptyGood DEF Pops
<1>4. CASE Top.roots # <<>>
  <2> DEFINE root == Top.roots[1]
             r == Result(root, Top.type, NextRecord, Top.status, Top.diags)
  <2>1. /\ provenance' = Append(provenance, Record("instruction_write", root, Top.inputs))
        /\ Finish(Top.query, r) /\ graph' = graph
    BY <1>4 DEF LowerCopy
  <2>2. root \in 1..Len(graph)
    BY <1>2, <1>4
  <2>3. root \in Nat /\ root \in 0..Len(graph) /\ "instruction_write" \in Kinds
    BY <2>2, <1>1, Lengths DEF Kinds
  <2>4. Top.inputs \in Seq(Nat)
    <3>1. 1..Len(provenance) \subseteq Nat
      BY <1>1, Lengths
    <3> QED
      BY <1>2, <3>1, SeqMonotonic
  <2> HIDE DEF root
  <2>5. /\ provenance' \in Seq(RecordType) /\ Len(provenance') = Len(provenance) + 1
        /\ Len(provenance) \in Nat /\ NextRecord \in 1..Len(provenance')
        /\ \A p \in DOMAIN provenance : provenance'[p] = provenance[p]
        /\ NextRecord \in DOMAIN provenance' /\ provenance'[NextRecord].node = root
    BY <1>1, <2>1, <2>3, <2>4, RecordAdded
  <2>6. Grows
    BY <1>1, <2>1, <2>5, Lengths DEF Grows, TypeOK
  <2>7. Good(r)
    BY SMTT(30), <1>1, <1>2, <2>1, <2>3, <2>5, <2>6, ResultGood
  <2> QED
    BY <1>1, <2>1, <2>6, <2>7 DEF Pops
<1> QED
  BY <1>3, <1>4

LEMMA LowerOperationShape ==
  ASSUME IInv, LowerOperation
  PROVE  \E r : Pops(r)
<1>1. /\ TypeOK /\ mode = "run" /\ Lowering /\ stack # <<>> /\ stack' = Below
      /\ Top \in LowerFrame(call.prog, graph, provenance) /\ Expression \in LaneExpr
      /\ UNCHANGED <<call, entering, answers>>
  BY LoweringType DEF LowerOperation, IInv
<1>2. /\ Top.type \in Types /\ Top.roots \in Seq(1..Len(graph))
      /\ Top.inputs \in Seq(1..Len(provenance))
      /\ Top.status \in Statuses /\ Top.diags \in SUBSET Diagnostics
  BY <1>1 DEF LowerFrame
<1>3. CASE FinishUnknown(Top.query, Top.type, "unsupported lane operation",
                         "unsupported", {"unsupported_lane_operation"})
  <2>1. /\ "unsupported lane operation" \in Reasons /\ "unsupported" \in Statuses
        /\ {"unsupported_lane_operation"} \in SUBSET Diagnostics
    BY DEF Reasons, Statuses, Diagnostics
  <2> QED
    BY <1>1, <1>2, <1>3, <2>1, FinishUnknownGood DEF Pops
<1>4. CASE FinishEmpty(Top.query, Top.type, {"apply"})
  <2>1. {"apply"} \in SUBSET Diagnostics
    BY DEF Diagnostics
  <2> QED
    BY <1>1, <1>2, <1>4, <2>1, FinishEmptyGood DEF Pops
<1>5. CASE FinishNode(Top.query, Apply(Expression.op, Top.type, Top.roots),
                      "instruction_write", Top.inputs, Top.status, Top.diags)
  <2> DEFINE node == Apply(Expression.op, Top.type, Top.roots)
  <2>1. Expression.op \in NodeOps /\ "instruction_write" \in Kinds /\ <<>> \in Notes
    BY <1>1, NoteTypes DEF LaneExpr, NodeOps, Kinds
  <2>2. Top.roots \in Seq(Nat) /\ Top.inputs \in Seq(Nat)
    <3>1. 1..Len(graph) \subseteq Nat /\ 1..Len(provenance) \subseteq Nat
      BY <1>1, Lengths
    <3> QED
      BY <1>2, <3>1, SeqMonotonic
  <2>3. node \in Node
    BY <1>2, <2>1, <2>2 DEF Apply, Node
  <2> HIDE DEF node
  <2>4. FinishNode(Top.query, node, "instruction_write", Top.inputs, Top.status, Top.diags)
    BY <1>5 DEF node
  <2> QED
    BY <1>1, <1>2, <2>1, <2>2, <2>3, <2>4, FinishNodeGood DEF Pops
<1> QED
  BY <1>3, <1>4, <1>5 DEF LowerOperation

-----------------------------------------------------------------------------
(* The actions: a merge and its predecessors.                              *)
LEMMA CombinedType ==
  \A s, t \in Statuses : CombinedStatus(s, t) \in Statuses
BY DEF CombinedStatus, Statuses

LEMMA MergingType ==
  ASSUME TypeOK, Merging
  PROVE  /\ stack # <<>> /\ Top \in MergeFrame(call.prog, graph, provenance)
         /\ Top.query \in Queries(call.prog) /\ Top.depth \in Nat /\ Top.next \in Nat \ {0}
         /\ Top.status \in Statuses /\ Top.diags \in SUBSET Diagnostics
         /\ Top.incoming \in Seq(Results(graph, provenance))
         /\ Top.inputs \in Seq(1..Len(provenance)) /\ Top.inputs \in Seq(Nat)
         /\ Top.query.type \in Types /\ Len(stack) \in DOMAIN stack
<1>1. stack # <<>> /\ Len(stack) \in DOMAIN stack
  BY Lengths DEF Merging, TypeOK
<1>2. Top \in Frame(call.prog, graph, provenance) /\ Top.kind = "merge"
  BY <1>1, Stacked DEF Merging
<1>3. Top \in MergeFrame(call.prog, graph, provenance)
  BY <1>2 DEF Frame, LowerFrame
<1>4. /\ Top.query \in Queries(call.prog) /\ Top.depth \in Nat /\ Top.next \in Nat \ {0}
      /\ Top.status \in Statuses /\ Top.diags \in SUBSET Diagnostics
      /\ Top.incoming \in Seq(Results(graph, provenance))
      /\ Top.inputs \in Seq(1..Len(provenance))
  BY <1>3 DEF MergeFrame
<1>5. Top.inputs \in Seq(Nat)
  <2>1. 1..Len(provenance) \subseteq Nat
    BY Lengths
  <2> QED
    BY <1>4, <2>1, SeqMonotonic
<1>6. Top.query.type \in Types
  BY <1>4 DEF Queries
<1> QED
  BY <1>1, <1>3, <1>4, <1>5, <1>6

LEMMA PredecessorType ==
  ASSUME TypeOK, Merging, MorePredecessors
  PROVE  /\ Predecessors[Top.next] \in DOMAIN call.prog.blocks
         /\ Predecessors[Top.next] \in Nat
<1> DEFINE b == Top.query.point.block
<1>1. call.prog.blocks \in Seq(Block) /\ b \in DOMAIN call.prog.blocks
  BY Lengths, MergingType DEF Program, Queries
<1>2. call.prog.blocks[b] \in Block
  BY <1>1
<1>3. Predecessors \in Seq(Nat)
  BY <1>2 DEF Predecessors, Block
<1>4. Top.next \in DOMAIN Predecessors
  BY <1>3, MergingType DEF MorePredecessors
<1>5. Predecessors[Top.next] \in DOMAIN call.prog.blocks
  BY <1>1, <1>4, Lengths DEF Program, Predecessors
<1> QED
  BY <1>3, <1>4, <1>5

LEMMA AskPredecessorShape ==
  ASSUME IInv, AskPredecessor
  PROVE  \E q, depth : Asks(q, depth)
<1>1. /\ TypeOK /\ mode = "run" /\ Merging /\ MorePredecessors
      /\ UNCHANGED <<call, returned, stack, graph, provenance, cache, answers>>
  BY DEF AskPredecessor, IInv
<1>2. PICK exit \in Exit : Enter(Query(Top.query.loc, exit, Top.query.type), Top.depth + 2)
  BY DEF AskPredecessor
<1>3. exit \in Points /\ exit.block \in DOMAIN call.prog.blocks
  <2> DEFINE b == Predecessors[Top.next]
             instrs == call.prog.blocks[b].instrs
  <2>1. b \in DOMAIN call.prog.blocks /\ b \in Nat
    BY <1>1, PredecessorType
  <2>2. call.prog.blocks[b] \in Block
    BY <1>1, <2>1, Lengths DEF Program
  <2>3. instrs \in Seq(Instruction)
    BY <2>2 DEF Block
  <2>4. PICK i \in DOMAIN instrs : exit = [block |-> b, pos |-> i, phase |-> "after"]
    BY DEF Exit, ExitPoint
  <2>5. i \in Nat
    <3> HIDE DEF instrs
    <3> QED
      BY <2>3
  <2> QED
    BY <2>1, <2>4, <2>5 DEF Points
<1>4. /\ Top.query.loc \in Slice /\ Top.query.type \in Types /\ Top.depth \in Nat
      /\ stack # <<>>
  BY <1>1, MergingType DEF Queries
<1> DEFINE q == Query(Top.query.loc, exit, Top.query.type)
<1>5. q \in Queries(call.prog)
  BY <1>3, <1>4 DEF Query, Queries
<1>6. Top.depth + 2 \in Nat /\ Top.depth + 2 >= Top.depth + 2
  BY <1>4
<1>7. Asks(q, Top.depth + 2)
  BY <1>1, <1>2, <1>4, <1>5, <1>6 DEF Asks
<1> QED
  BY <1>7

LEMMA EmptyPredecessorShape ==
  ASSUME IInv, EmptyPredecessor
  PROVE  \E f : Updates(f)
<1> DEFINE f == [Top EXCEPT !.next = @ + 1, !.diags = @ \cup {"empty_predecessor"},
                            !.status = CombinedStatus(@, "partial")]
<1>1. /\ TypeOK /\ mode = "run" /\ mode' = "run" /\ Merging /\ HeldProvenance
      /\ stack' = [stack EXCEPT ![Len(stack)] = f]
      /\ UNCHANGED <<call, entering, returned, graph, provenance, cache, answers>>
  BY DEF EmptyPredecessor, IInv, Replace
<1>2. Top.next + 1 \in Nat \ {0} /\ Top.diags \cup {"empty_predecessor"} \in SUBSET Diagnostics
  BY <1>1, MergingType DEF Diagnostics
<1>3. CombinedStatus(Top.status, "partial") \in Statuses
  BY <1>1, MergingType, CombinedType DEF Statuses
<1>4. f \in MergeFrame(call.prog, graph, provenance)
  BY <1>1, <1>2, <1>3, MergingType DEF MergeFrame
<1>5. /\ f.query = Top.query /\ f.depth = Top.depth /\ f.kind = Top.kind
      /\ f.incoming = Top.incoming
  BY <1>1, MergingType DEF MergeFrame
<1>6. Held(provenance, f)
  BY <1>1, <1>5, MergingType DEF Held, HeldProvenance, Top
<1>7. Grows
  BY <1>1, Lengths DEF Grows, TypeOK
<1>8. f \in Frame(call.prog, graph', provenance')
  BY <1>1, <1>4 DEF Frame
<1> HIDE DEF f
<1>9. Updates(f)
  BY <1>1, <1>5, <1>6, <1>7, <1>8, MergingType DEF Updates
<1> QED
  BY <1>9

LEMMA PredecessorReturnedShape ==
  ASSUME IInv, PredecessorReturned
  PROVE  \E f : Updates(f)
<1> DEFINE incoming == Append(Top.incoming, returned)
           inputs == IF returned.prov = None THEN Top.inputs
                     ELSE Append(Top.inputs, returned.prov)
           f == [Top EXCEPT !.next = @ + 1, !.diags = @ \cup returned.diags,
                            !.status = CombinedStatus(@, returned.status),
                            !.incoming = incoming, !.inputs = inputs]
<1>1. /\ TypeOK /\ mode = "return" /\ mode' = "run" /\ Merging /\ HeldProvenance
      /\ stack' = [stack EXCEPT ![Len(stack)] = f]
      /\ RecordOf(provenance, returned)
      /\ UNCHANGED <<call, entering, returned, graph, provenance, cache, answers>>
  BY DEF PredecessorReturned, IInv, Replace, ProvenanceMatches
<1>2. /\ returned \in Results(graph, provenance)
      /\ returned.prov \in 0..Len(provenance) /\ returned.status \in Statuses
      /\ returned.diags \in SUBSET Diagnostics
  BY <1>1 DEF TypeOK, Results
<1>3. /\ Top.next + 1 \in Nat \ {0} /\ Top.diags \cup returned.diags \in SUBSET Diagnostics
      /\ CombinedStatus(Top.status, returned.status) \in Statuses
  BY <1>1, <1>2, MergingType, CombinedType
<1>4. /\ incoming \in Seq(Results(graph, provenance))
      /\ Len(Top.incoming) \in Nat /\ DOMAIN Top.incoming = 1..Len(Top.incoming)
      /\ DOMAIN incoming = 1..(Len(Top.incoming) + 1)
      /\ \A k \in DOMAIN Top.incoming : incoming[k] = Top.incoming[k]
      /\ incoming[Len(Top.incoming) + 1] = returned
  BY <1>1, <1>2, MergingType, AppendProperties
<1>5. inputs \in Seq(1..Len(provenance))
  <2>1. returned.prov # None => returned.prov \in 1..Len(provenance)
    BY <1>1, <1>2, Lengths
  <2> QED
    BY <1>1, <2>1, MergingType, AppendProperties
<1> HIDE DEF incoming, inputs
<1>6. f \in MergeFrame(call.prog, graph, provenance)
  BY <1>1, <1>3, <1>4, <1>5, MergingType DEF MergeFrame
<1>7. /\ f.query = Top.query /\ f.depth = Top.depth /\ f.kind = "merge"
      /\ f.incoming = incoming
  BY <1>1, MergingType DEF MergeFrame
<1>8. Held(provenance, f)
  <2>1. \A k \in DOMAIN Top.incoming : RecordOf(provenance, Top.incoming[k])
    BY <1>1, MergingType DEF Held, HeldProvenance, Top, Merging
  <2> QED
    BY <1>1, <1>4, <1>7, <2>1 DEF Held
<1>9. Grows
  BY <1>1, Lengths DEF Grows, TypeOK
<1>10. f \in Frame(call.prog, graph', provenance')
  BY <1>1, <1>6 DEF Frame
<1> HIDE DEF f
<1>11. Updates(f)
  BY <1>1, <1>7, <1>8, <1>9, <1>10, MergingType DEF Updates
<1> QED
  BY <1>11

(* What the end of a merge has in common.                                  *)
LEMMA MergedType ==
  ASSUME IInv, Merged
  PROVE  /\ TypeOK /\ Merging /\ mode = "run"
         /\ Roots \in Seq(0..Len(graph)) /\ DOMAIN Roots = DOMAIN Top.incoming
         /\ DOMAIN Top.incoming = 1..Len(Top.incoming) /\ Len(Top.incoming) \in Nat
         /\ (\A k \in DOMAIN Roots : Roots[k] # None) =>
              /\ Roots \in Seq(Nat)
              /\ Len(Top.incoming) > 0 => MergeType \in Types
<1>1. TypeOK /\ Merging /\ mode = "run"
  BY DEF IInv, Merged
<1>2. /\ Top.incoming \in Seq(Results(graph, provenance)) /\ Top.query.type \in Types
      /\ DOMAIN Top.incoming = 1..Len(Top.incoming) /\ Len(Top.incoming) \in Nat
  BY <1>1, MergingType
<1>3. \A k \in DOMAIN Top.incoming : Top.incoming[k].root \in 0..Len(graph)
  <2>1. \A k \in DOMAIN Top.incoming : Top.incoming[k] \in Results(graph, provenance)
    BY <1>2
  <2> QED
    BY <2>1 DEF Results
<1>4. /\ Roots \in Seq(0..Len(graph)) /\ DOMAIN Roots = DOMAIN Top.incoming
      /\ Roots \in Seq(Nat)
  <2>1. /\ DOMAIN Roots = 1..Len(Top.incoming)
        /\ \A k \in DOMAIN Roots : Roots[k] \in 0..Len(graph)
        /\ Roots = [k \in 1..Len(Top.incoming) |-> Roots[k]]
    BY <1>2, <1>3 DEF Roots
  <2>2. Roots \in Seq(0..Len(graph))
    <3> DEFINE n == Len(Top.incoming)
    <3>1. Roots \in [1..n -> 0..Len(graph)] /\ n \in Nat
      BY <1>2, <2>1
    <3> HIDE DEF n
    <3> QED
      BY <3>1
  <2>3. 0..Len(graph) \subseteq Nat
    BY <1>1, Lengths
  <2> QED
    BY <1>2, <2>1, <2>2, <2>3, SeqMonotonic
<1>5. ASSUME \A k \in DOMAIN Roots : Roots[k] # None, Len(Top.incoming) > 0
      PROVE  MergeType \in Types
  <2>1. Roots[1] \in DOMAIN graph
    BY <1>1, <1>2, <1>4, <1>5, Lengths
  <2>2. graph[Roots[1]] \in Node
    BY <1>1, <2>1 DEF TypeOK
  <2> QED
    BY <1>2, <2>2 DEF MergeType, Node
<1> QED
  BY <1>1, <1>2, <1>4, <1>5

LEMMA MergeNothingShape ==
  ASSUME IInv, MergeNothing
  PROVE  \E r : Pops(r)
<1>1. /\ Merged /\ FinishBoundary(Top.query, Top.diags) /\ stack' = Below
      /\ UNCHANGED <<call, entering, answers>>
  BY DEF MergeNothing
<1> QED
  BY <1>1, MergedType, MergingType, FinishBoundaryGood DEF Pops

LEMMA MergeSameShape ==
  ASSUME IInv, MergeSame
  PROVE  \E r : Pops(r)
<1> DEFINE first == Top.incoming[1]
           r == [first EXCEPT !.status = CombinedStatus(@, Top.status), !.diags = Top.diags]
<1>1. /\ Merged /\ Len(Top.incoming) > 0 /\ stack' = Below
      /\ Finish(Top.query, r)
      /\ UNCHANGED <<call, entering, graph, provenance, answers>>
  BY DEF MergeSame
<1>2. first \in Results(graph, provenance) /\ RecordOf(provenance, first)
  <2>1. 1 \in DOMAIN Top.incoming
    BY <1>1, MergedType
  <2>2. Held(provenance, Top)
    BY <1>1, MergedType, MergingType DEF IInv, HeldProvenance, Top
  <2> QED
    BY <1>1, <2>1, <2>2, MergedType, MergingType DEF Held, Merging
<1>3. CombinedStatus(first.status, Top.status) \in Statuses
  <2>1. first.status \in Statuses
    BY <1>2 DEF Results
  <2> QED
    BY <1>1, <2>1, MergedType, MergingType, CombinedType
<1> HIDE DEF first
<1>4. /\ r \in Results(graph, provenance) /\ r.root = first.root /\ r.prov = first.prov
  BY <1>1, <1>2, <1>3, MergedType, MergingType DEF Results
<1>5. Grows
  BY <1>1, MergedType, Lengths DEF Grows, TypeOK
<1>6. Good(r)
  BY <1>1, <1>2, <1>4 DEF Good, RecordOf
<1> HIDE DEF r
<1> QED
  BY <1>1, <1>5, <1>6, MergedType, MergingType DEF Pops

LEMMA MergeWithoutRootShape ==
  ASSUME IInv, MergeWithoutRoot
  PROVE  \E r : Pops(r)
<1>1. /\ Merged /\ stack' = Below /\ UNCHANGED <<call, entering, answers>>
      /\ FinishUnknown(Top.query, Top.query.type, "control-flow predecessor recovery failed",
                       "partial", Top.diags)
  BY DEF MergeWithoutRoot
<1>2. "control-flow predecessor recovery failed" \in Reasons /\ "partial" \in Statuses
  BY DEF Reasons, Statuses
<1> QED
  BY <1>1, <1>2, MergedType, MergingType, FinishUnknownGood DEF Pops

LEMMA MergeTypeMismatchShape ==
  ASSUME IInv, MergeTypeMismatch
  PROVE  \E r : Pops(r)
<1>1. /\ Merged /\ stack' = Below /\ UNCHANGED <<call, entering, answers>>
      /\ \A k \in DOMAIN Roots : Roots[k] # None
      /\ FinishUnknown(Top.query, MergeType,
           "control-flow predecessor values have incompatible types",
           "partial", Top.diags \cup {"merge_type_mismatch"})
  BY DEF MergeTypeMismatch
<1>2. MergeType \in Types
  <2>1. Len(Top.incoming) \in Nat
    BY <1>1, MergedType
  <2>2. Len(Top.incoming) > 1
    BY DEF MergeTypeMismatch
  <2>3. Len(Top.incoming) > 0
    BY <2>1, <2>2
  <2> QED
    BY <1>1, <2>3, MergedType
<1>3. /\ "control-flow predecessor values have incompatible types" \in Reasons
      /\ "partial" \in Statuses /\ "merge_type_mismatch" \in Diagnostics
  BY DEF Reasons, Statuses, Diagnostics
<1>4. Top.diags \cup {"merge_type_mismatch"} \in SUBSET Diagnostics
  BY <1>1, <1>3, MergedType, MergingType
<1> QED
  BY <1>1, <1>2, <1>3, <1>4, MergedType, MergingType, FinishUnknownGood DEF Pops

LEMMA MergeDifferentShape ==
  ASSUME IInv, MergeDifferent
  PROVE  \E r : Pops(r)
<1> DEFINE node == Apply("merge", MergeType, Roots)
<1>1. /\ Merged /\ stack' = Below /\ UNCHANGED <<call, entering, answers>>
      /\ \A k \in DOMAIN Roots : Roots[k] # None
      /\ Len(Top.incoming) > 1
      /\ FinishNode(Top.query, node, "control_flow_merge", Top.inputs, Top.status, Top.diags)
  BY DEF MergeDifferent
<1>2. MergeType \in Types /\ Roots \in Seq(Nat)
  BY <1>1, MergedType
<1>3. /\ "merge" \in NodeOps /\ "control_flow_merge" \in Kinds /\ <<>> \in Notes
  BY NoteTypes DEF NodeOps, Kinds
<1>4. node \in Node
  BY <1>2, <1>3 DEF Apply, Node
<1> HIDE DEF node
<1> QED
  BY <1>1, <1>3, <1>4, MergedType, MergingType, FinishNodeGood DEF Pops

-----------------------------------------------------------------------------
(* The actions between queries, the cache and the cycle check.             *)
LEMMA RecoverKeeps ==
  ASSUME IInv, Recover
  PROVE  IInv'
<1> USE DEF IInv
<1>1. /\ mode = "idle" /\ call.queries # <<>> /\ mode' = "enter"
      /\ entering' = [query |-> Head(call.queries), depth |-> 0]
      /\ UNCHANGED <<call, returned, stack, graph, provenance, cache, answers>>
  BY DEF Recover, Enter
<1>2. stack = <<>>
  BY <1>1 DEF Pending
<1>3. Head(call.queries) \in Queries(call.prog)
  BY <1>1, HeadTailProperties DEF TypeOK, CallType
<1>4. TypeOK'
  BY <1>1, <1>3 DEF TypeOK
<1>5. NoQueryTwice' /\ Memoized' /\ HeldProvenance'
  BY <1>1 DEF NoQueryTwice, Memoized, HeldProvenance, Hits
<1>6. ProvenanceMatches'
  BY <1>1 DEF ProvenanceMatches
<1>7. Depths'
  BY <1>1, <1>2 DEF Depths
<1>8. Pending'
  BY <1>1, <1>2 DEF Pending
<1> QED
  BY <1>4, <1>5, <1>6, <1>7, <1>8

LEMMA AnswerKeeps ==
  ASSUME IInv, Answer
  PROVE  IInv'
<1> USE DEF IInv
<1> DEFINE entry == [query |-> Head(call.queries), result |-> returned]
<1>1. /\ mode = "return" /\ stack = <<>> /\ mode' = "idle"
      /\ answers' = Append(answers, entry)
      /\ call' = [call EXCEPT !.queries = Tail(@)]
      /\ UNCHANGED <<entering, returned, stack, graph, provenance, cache>>
  BY DEF Answer
<1>2. /\ call.queries # <<>>
      /\ \E c \in DOMAIN cache : cache[c] = entry
  BY <1>1 DEF Pending
<1>3. /\ call.prog \in Program /\ call.maxDepth \in Nat /\ call.mayBarrier \in BOOLEAN
      /\ call.queries \in Seq(Queries(call.prog))
      /\ call.queries \in Seq([loc : Slice, point : Points, type : Types])
  BY DEF TypeOK, CallType
<1>4. /\ call'.prog = call.prog /\ call'.maxDepth = call.maxDepth
      /\ call' \in CallType
  <2>1. /\ Tail(call.queries) \in Seq(Queries(call.prog))
        /\ Tail(call.queries) \in Seq([loc : Slice, point : Points, type : Types])
    BY <1>2, <1>3, HeadTailProperties
  <2>2. call' = [prog |-> call.prog, queries |-> Tail(call.queries),
                 maxDepth |-> call.maxDepth, mayBarrier |-> call.mayBarrier]
    BY <1>1 DEF TypeOK, CallType
  <2> QED
    BY <1>3, <2>1, <2>2 DEF CallType
<1>5. Head(call.queries) \in Queries(call.prog)
  BY <1>2, <1>3, HeadTailProperties
<1>6. entry \in CacheEntry(call.prog, graph, provenance)
  BY <1>5 DEF TypeOK, CacheEntry
<1>7. /\ answers' \in Seq(CacheEntry(call.prog, graph, provenance))
      /\ DOMAIN answers = 1..Len(answers) /\ Len(answers) \in Nat
      /\ DOMAIN answers' = 1..(Len(answers) + 1)
      /\ \A k \in DOMAIN answers : answers'[k] = answers[k]
      /\ answers'[Len(answers) + 1] = entry
  BY <1>1, <1>6, AppendProperties DEF TypeOK
<1>8. TypeOK'
  BY <1>1, <1>4, <1>7 DEF TypeOK
<1>9. NoQueryTwice' /\ HeldProvenance'
  BY <1>1 DEF NoQueryTwice, HeldProvenance, Hits
<1>10. Memoized'
  BY <1>1, <1>2, <1>7 DEF Memoized
<1>11. ProvenanceMatches'
  BY <1>1 DEF ProvenanceMatches
<1>12. Depths'
  BY <1>1, <1>4 DEF Depths
<1>13. Pending'
  BY <1>1 DEF Pending
<1> QED
  BY <1>8, <1>9, <1>10, <1>11, <1>12, <1>13

LEMMA CacheHitKeeps ==
  ASSUME IInv, CacheHit
  PROVE  IInv'
<1> USE DEF IInv
<1>1. PICK k \in Hits(entering.query) : mode' = "return" /\ returned' = cache[k].result
  BY DEF CacheHit, Return
<1>2. /\ mode = "enter"
      /\ UNCHANGED <<call, entering, stack, graph, provenance, cache, answers>>
  BY DEF CacheHit
<1>3. k \in DOMAIN cache /\ cache[k].query = entering.query
  BY <1>1 DEF Hits
<1>4. cache[k] \in CacheEntry(call.prog, graph, provenance)
  BY <1>3 DEF TypeOK
<1>5. TypeOK'
  <2>1. cache[k].result \in Results(graph, provenance)
    BY <1>4 DEF CacheEntry
  <2> QED
    BY <1>1, <1>2, <2>1 DEF TypeOK
<1>6. NoQueryTwice' /\ Memoized' /\ HeldProvenance'
  BY <1>2 DEF NoQueryTwice, Memoized, HeldProvenance, Hits
<1>7. ProvenanceMatches'
  BY <1>1, <1>2, <1>3 DEF ProvenanceMatches
<1>8. Depths'
  BY <1>1, <1>2 DEF Depths
<1>9. Pending'
  <2>1. stack = <<>> => entering.query = Head(call.queries)
    BY <1>2 DEF Pending
  <2>2. cache[k] = [query |-> cache[k].query, result |-> cache[k].result]
    BY <1>4 DEF CacheEntry
  <2> QED
    BY <1>1, <1>2, <1>3, <2>1, <2>2 DEF Pending
<1> QED
  BY <1>5, <1>6, <1>7, <1>8, <1>9

LEMMA CyclicKeeps ==
  ASSUME IInv, Cyclic
  PROVE  IInv'
<1> USE DEF IInv
<1> DEFINE type == entering.query.type
           note == <<"cyclic recovery query">>
           node == Leaf("unknown", type, note)
           r == Result(NextNode, type, NextRecord, "partial", {"loop.cycle"})
<1>1. /\ mode = "enter" /\ Active(entering.query) /\ mode' = "return" /\ returned' = r
      /\ graph' = Append(graph, node)
      /\ provenance' = Append(provenance, Record("unknown_boundary", NextNode, <<>>))
      /\ UNCHANGED <<call, entering, stack, cache, answers>>
  BY DEF Cyclic, Return
<1>2. type \in Types
  BY <1>1 DEF TypeOK, Queries
<1>3. note \in Notes /\ "unknown" \in NodeOps
  <2>1. "cyclic recovery query" \in Reasons
    BY DEF Reasons
  <2> QED
    BY <2>1, NoteTypes DEF NodeOps
<1> HIDE DEF note
<1>4. node \in Node
  BY <1>2, <1>3, LeafType
<1> HIDE DEF node
<1>5. /\ graph' \in Seq(Node) /\ Len(graph') = Len(graph) + 1
      /\ Len(graph) \in Nat /\ NextNode \in 1..Len(graph') /\ NextNode \in Nat
  BY <1>1, <1>4, NodeAdded
<1>6. /\ "unknown_boundary" \in Kinds /\ <<>> \in Seq(Nat)
      /\ "partial" \in Statuses /\ {"loop.cycle"} \in SUBSET Diagnostics
  BY EmptySeq DEF Kinds, Boundaries, Statuses, Diagnostics
<1>7. /\ provenance' \in Seq(RecordType) /\ Len(provenance') = Len(provenance) + 1
      /\ Len(provenance) \in Nat /\ NextRecord \in 1..Len(provenance')
      /\ \A p \in DOMAIN provenance : provenance'[p] = provenance[p]
      /\ NextRecord \in DOMAIN provenance' /\ provenance'[NextRecord].node = NextNode
  BY <1>1, <1>5, <1>6, RecordAdded
<1>8. Grows
  BY <1>5, <1>7 DEF Grows
<1>9. Good(r)
  BY <1>2, <1>5, <1>6, <1>7, <1>8, ResultGood
<1> HIDE DEF r
<1>10. TypeOK'
  <2>1. /\ cache \in Seq(CacheEntry(call.prog, graph', provenance'))
        /\ answers \in Seq(CacheEntry(call.prog, graph', provenance'))
        /\ stack \in Seq(Frame(call.prog, graph', provenance'))
    BY <1>8, Grown, SeqMonotonic DEF TypeOK
  <2> QED
    BY <1>1, <1>5, <1>7, <1>9, <2>1 DEF TypeOK, Good
<1>11. NoQueryTwice' /\ Memoized'
  BY <1>1 DEF NoQueryTwice, Memoized, Hits
<1>12. ProvenanceMatches'
  BY <1>1, <1>8, <1>9, Cached, Grown DEF ProvenanceMatches, Good
<1>13. Depths'
  BY <1>1 DEF Depths
<1>14. Pending'
  <2>1. stack # <<>>
    BY <1>1 DEF Active
  <2> QED
    BY <1>1, <2>1 DEF Pending
<1>15. HeldProvenance'
  <2>1. \A k \in DOMAIN stack : stack[k] \in Frame(call.prog, graph, provenance)
    BY DEF TypeOK
  <2> QED
    BY <1>1, <1>8, <2>1, Grown DEF HeldProvenance
<1> QED
  BY <1>10, <1>11, <1>12, <1>13, <1>14, <1>15

-----------------------------------------------------------------------------
LEMMA InitInvariant ==
  ASSUME Init
  PROVE  IInv
<1> USE DEF Init
<1>1. call \in CallType
  BY CallsAssumption
<1>2. returned \in Results(graph, provenance)
  BY TypesAssumption DEF Result, Results, Statuses
<1>3. TypeOK
  BY <1>1, <1>2, EmptySeq DEF TypeOK
<1>4. NoQueryTwice /\ Memoized /\ ProvenanceMatches /\ Depths /\ Pending /\ HeldProvenance
  BY DEF NoQueryTwice, Memoized, ProvenanceMatches, Depths, Pending, HeldProvenance
<1> QED
  BY <1>3, <1>4 DEF IInv

LEMMA StepInvariant ==
  ASSUME IInv, [Next]_vars
  PROVE  IInv'
<1>1. CASE Recover
  BY <1>1, RecoverKeeps
<1>2. CASE Answer
  BY <1>2, AnswerKeeps
<1>3. CASE CacheHit
  BY <1>3, CacheHitKeeps
<1>4. CASE Cyclic
  BY <1>4, CyclicKeeps
<1>5. CASE Compute
  <2>1. CASE DepthExhausted \/ InvalidLane \/ LowerZero \/ EntryBoundary
    BY <2>1, DepthExhaustedShape, InvalidLaneShape, LowerZeroShape, EntryBoundaryShape,
       ComputesKeeps
  <2>2. CASE StartLowering \/ StartMerge
    BY <2>2, StartLoweringShape, StartMergeShape, PushesKeeps
  <2> QED
    BY <1>5, <2>1, <2>2 DEF Compute
<1>6. CASE Lower
  <2>1. CASE OldDestination \/ RegisterOperand
    BY <2>1, OldDestinationShape, RegisterOperandShape, AsksKeeps
  <2>2. CASE BadOperand \/ MemoryOperand \/ InputReturned
    BY <2>2, BadOperandShape, MemoryOperandShape, InputReturnedShape, UpdatesKeeps, PopsKeeps
  <2>3. CASE LowerCopy \/ LowerOperation
    BY <2>3, LowerCopyShape, LowerOperationShape, PopsKeeps
  <2> QED
    BY <1>6, <2>1, <2>2, <2>3 DEF Lower
<1>7. CASE Merge
  <2>1. CASE AskPredecessor
    BY <2>1, AskPredecessorShape, AsksKeeps
  <2>2. CASE EmptyPredecessor \/ PredecessorReturned
    BY <2>2, EmptyPredecessorShape, PredecessorReturnedShape, UpdatesKeeps
  <2>3. CASE MergeNothing \/ MergeSame \/ MergeWithoutRoot \/ MergeTypeMismatch
              \/ MergeDifferent
    BY <2>3, MergeNothingShape, MergeSameShape, MergeWithoutRootShape, MergeTypeMismatchShape,
       MergeDifferentShape, PopsKeeps
  <2> QED
    BY <1>7, <2>1, <2>2, <2>3 DEF Merge
<1>8. CASE UNCHANGED vars
  <2>1. UNCHANGED <<call, mode, entering, returned, stack, graph, provenance, cache, answers>>
    BY <1>8 DEF vars
  <2>2. TypeOK'
    BY <2>1 DEF IInv, TypeOK
  <2>3. NoQueryTwice' /\ Memoized' /\ ProvenanceMatches'
    BY <2>1 DEF IInv, NoQueryTwice, Memoized, ProvenanceMatches, Hits
  <2>4. Depths' /\ Pending' /\ HeldProvenance'
    BY <2>1 DEF IInv, Depths, Pending, HeldProvenance
  <2> QED
    BY <2>2, <2>3, <2>4 DEF IInv
<1> QED
  BY <1>1, <1>2, <1>3, <1>4, <1>5, <1>6, <1>7, <1>8 DEF Next

LEMMA Invariance == Spec => []IInv
<1>1. Init => IInv
  BY InitInvariant
<1>2. IInv /\ [Next]_vars => IInv'
  BY StepInvariant
<1> QED
  BY <1>1, <1>2, PTL DEF Spec

(* The recursion of recover_with_cache keeps the type of every frame,      *)
(* result and cache entry.                                                 *)
THEOREM TypeCorrect == Spec => []TypeOK
<1>1. IInv => TypeOK
  BY DEF IInv
<1> QED
  BY <1>1, Invariance, PTL

(* m_active_queries and m_cache together: no query is computed twice, and  *)
(* no nested call answers a query that a caller is still computing.        *)
THEOREM NoQueryIsComputedTwice == Spec => []NoQueryTwice
<1>1. IInv => NoQueryTwice
  BY DEF IInv
<1> QED
  BY <1>1, Invariance, PTL

(* What recover() returned is what the cache holds, at any later time.     *)
THEOREM AnswersAreCached == Spec => []Memoized
<1>1. IInv => Memoized
  BY DEF IInv
<1> QED
  BY <1>1, Invariance, PTL

(* The C++ stack is bounded by maximum_depth for every program.            *)
THEOREM RecursionIsBounded == Spec => []RecursionBounded
<1>1. IInv => RecursionBounded
  <2> SUFFICES ASSUME IInv PROVE RecursionBounded
    OBVIOUS
  <2>1. Len(stack) \in Nat /\ DOMAIN stack = 1..Len(stack) /\ call.maxDepth \in Nat
    BY Lengths DEF IInv, TypeOK
  <2>2. CASE Len(stack) = 0
    BY <2>1, <2>2 DEF RecursionBounded
  <2>3. CASE Len(stack) # 0
    <3>1. /\ 2 * (Len(stack) - 1) <= stack[Len(stack)].depth
          /\ stack[Len(stack)].depth <= call.maxDepth
      BY <2>1, <2>3 DEF IInv, Depths
    <3>2. stack[Len(stack)].depth \in Nat
      <4>1. stack # <<>>
        BY <2>3
      <4> QED
        BY <4>1, Stacked DEF IInv, Top, Frame, LowerFrame, MergeFrame
    <3> QED
      BY <2>1, <3>1, <3>2 DEF RecursionBounded
  <2> QED
    BY <2>2, <2>3
<1> QED
  BY <1>1, Invariance, PTL

(* The provenance of a result is always the record of its own root.        *)
THEOREM ProvenanceIsOfTheRoot == Spec => []ProvenanceMatches
<1>1. IInv => ProvenanceMatches
  BY DEF IInv
<1> QED
  BY <1>1, Invariance, PTL

-----------------------------------------------------------------------------
(***************************************************************************)
(* What status and diagnostics of a recovered value say.                   *)
(***************************************************************************)
LEMMA LeastExists ==
  ASSUME NEW S \in SUBSET Nat, S # {}
  PROVE  \E x \in S : \A y \in S : x <= y
<1>1. PICK Less : Less = OpToRel(<, Nat)
  OBVIOUS
<1>2. IsWellFoundedOn(Less, Nat)
  BY <1>1, NatLessThanWellFounded
<1>3. \A j, k \in Nat : j < k => <<j, k>> \in Less
  BY <1>1 DEF OpToRel
<1>4. \E x \in S : \A y \in S : ~(<<y, x>> \in Less)
  BY <1>2, WFMin
<1>5. PICK x \in S : \A y \in S : ~(<<y, x>> \in Less)
  BY <1>4
<1>6. ASSUME NEW y \in S
      PROVE  x <= y
  <2>1. x \in Nat /\ y \in Nat /\ ~(y < x)
    BY <1>3, <1>5
  <2> QED
    BY <2>1
<1> QED
  BY <1>6

-----------------------------------------------------------------------------
(* Nodes and records come after what they are made of.                     *)
Ordered(g) == \A n \in DOMAIN g : \A k \in DOMAIN g[n].args : g[n].args[k] \in 1..(n - 1)
RecordsOrdered(records) ==
  \A p \in DOMAIN records : \A k \in DOMAIN records[p].inputs :
    records[p].inputs[k] \in 1..(p - 1)

(* A node is clean of some operations when a set of nodes without them     *)
(* has it, and with a node its operands.  What the recursive FreeOf says   *)
(* is thus said without recursion, and stays true when the graph grows.    *)
CleanSet(g, ops, S) ==
  /\ S \subseteq DOMAIN g
  /\ \A m \in S : g[m].op \notin ops /\ \A k \in DOMAIN g[m].args : g[m].args[k] \in S
Clean(g, ops, n) == \E S : n \in S /\ CleanSet(g, ops, S)

BackedSet(records, S) ==
  /\ S \subseteq DOMAIN records
  /\ \A p \in S : /\ records[p].kind \notin Boundaries
                  /\ \A k \in DOMAIN records[p].inputs : records[p].inputs[k] \in S
Backed(records, p) == \E S : p \in S /\ BackedSet(records, S)

(* What FreeOf is chosen to be.                                            *)
FreeMarked(g, ops, f) ==
  f = [n \in DOMAIN g |->
        g[n].op \notin ops /\ \A k \in DOMAIN g[n].args : f[g[n].args[k]]]

LEMMA CleanUnfolds ==
  ASSUME NEW g \in Seq(Node), Ordered(g), NEW ops, NEW n \in DOMAIN g
  PROVE  Clean(g, ops, n) <=>
           g[n].op \notin ops /\ \A k \in DOMAIN g[n].args : Clean(g, ops, g[n].args[k])
<1>1. ASSUME NEW m \in DOMAIN g, Clean(g, ops, m)
      PROVE  g[m].op \notin ops /\ \A k \in DOMAIN g[m].args : Clean(g, ops, g[m].args[k])
  BY <1>1 DEF Clean, CleanSet
<1>2. ASSUME g[n].op \notin ops, \A k \in DOMAIN g[n].args : Clean(g, ops, g[n].args[k])
      PROVE  Clean(g, ops, n)
  <2> DEFINE M == {m \in DOMAIN g : Clean(g, ops, m)}
             S == M \cup {n}
  <2>1. \A m \in DOMAIN g : \A k \in DOMAIN g[m].args : g[m].args[k] \in DOMAIN g
    BY DEF Ordered
  <2>2. CleanSet(g, ops, S)
    BY <1>1, <1>2, <2>1 DEF CleanSet
  <2> QED
    BY <2>2 DEF Clean
<1> QED
  BY <1>1, <1>2

LEMMA FreeMarkingExists ==
  ASSUME NEW g \in Seq(Node), Ordered(g), NEW ops
  PROVE  \E f : FreeMarked(g, ops, f)
<1> DEFINE f == [n \in DOMAIN g |-> Clean(g, ops, n)]
<1>1. \A n \in DOMAIN g : \A k \in DOMAIN g[n].args : g[n].args[k] \in DOMAIN g
  BY DEF Ordered
<1>2. ASSUME NEW n \in DOMAIN g
      PROVE  f[n] = (g[n].op \notin ops /\ \A k \in DOMAIN g[n].args : f[g[n].args[k]])
  <2>1. \A k \in DOMAIN g[n].args : f[g[n].args[k]] = Clean(g, ops, g[n].args[k])
    BY <1>1
  <2>2. f[n] = Clean(g, ops, n) /\ Clean(g, ops, n) \in BOOLEAN
    BY DEF Clean
  <2> HIDE DEF f
  <2> QED
    BY <2>1, <2>2, CleanUnfolds
<1>3. f = [n \in DOMAIN g |-> f[n]]
  OBVIOUS
<1> HIDE DEF f
<1>4. FreeMarked(g, ops, f)
  BY <1>2, <1>3, Zenon DEF FreeMarked
<1> QED
  BY <1>4

(* A clean node is free of the operations.                                 *)
LEMMA CleanIsFree ==
  ASSUME NEW g \in Seq(Node), Ordered(g), NEW ops, NEW n, Clean(g, ops, n)
  PROVE  FreeOf(g, ops)[n]
<1> DEFINE f == CHOOSE f : FreeMarked(g, ops, f)
<1>1. FreeMarked(g, ops, f)
  BY FreeMarkingExists
<1>2. FreeOf(g, ops) = f
  BY DEF FreeOf, FreeMarked
<1> HIDE DEF f
<1>3. PICK S : n \in S /\ CleanSet(g, ops, S)
  BY DEF Clean
<1> DEFINE Bad == {m \in S : ~f[m]}
<1>4. ASSUME Bad # {}
      PROVE  FALSE
  <2>1. Bad \in SUBSET Nat
    BY <1>3 DEF CleanSet
  <2>2. PICK m \in Bad : \A j \in Bad : m <= j
    BY <1>4, <2>1, LeastExists
  <2>3. m \in DOMAIN g /\ m \in Nat /\ m \in S
    BY <1>3 DEF CleanSet
  <2>4. \A k \in DOMAIN g[m].args : g[m].args[k] \in S /\ g[m].args[k] \in 1..(m - 1)
    BY <1>3, <2>3 DEF CleanSet, Ordered
  <2>5. \A k \in DOMAIN g[m].args : f[g[m].args[k]]
    BY <2>2, <2>3, <2>4
  <2>6. g[m].op \notin ops
    BY <1>3, <2>3 DEF CleanSet
  <2>7. f[m] = (g[m].op \notin ops /\ \A k \in DOMAIN g[m].args : f[g[m].args[k]])
    BY <1>1, <2>3, Zenon DEF FreeMarked
  <2> QED
    BY <2>5, <2>6, <2>7
<1> QED
  BY <1>2, <1>3, <1>4

(* The same for records: backed means that no boundary is behind a record. *)
BackMarked(records, f) ==
  f = [p \in DOMAIN records |->
        /\ records[p].kind \notin Boundaries
        /\ \A k \in DOMAIN records[p].inputs : f[records[p].inputs[k]]]

LEMMA BackedUnfolds ==
  ASSUME NEW records \in Seq(RecordType), RecordsOrdered(records), NEW p \in DOMAIN records
  PROVE  Backed(records, p) <=>
           /\ records[p].kind \notin Boundaries
           /\ \A k \in DOMAIN records[p].inputs : Backed(records, records[p].inputs[k])
<1>1. ASSUME NEW m \in DOMAIN records, Backed(records, m)
      PROVE  /\ records[m].kind \notin Boundaries
             /\ \A k \in DOMAIN records[m].inputs : Backed(records, records[m].inputs[k])
  BY <1>1 DEF Backed, BackedSet
<1>2. ASSUME records[p].kind \notin Boundaries,
             \A k \in DOMAIN records[p].inputs : Backed(records, records[p].inputs[k])
      PROVE  Backed(records, p)
  <2> DEFINE M == {m \in DOMAIN records : Backed(records, m)}
             S == M \cup {p}
  <2>1. \A m \in DOMAIN records : \A k \in DOMAIN records[m].inputs :
          records[m].inputs[k] \in DOMAIN records
    BY DEF RecordsOrdered
  <2>2. BackedSet(records, S)
    BY <1>1, <1>2, <2>1 DEF BackedSet
  <2> QED
    BY <2>2 DEF Backed
<1> QED
  BY <1>1, <1>2

LEMMA BackMarkingExists ==
  ASSUME NEW records \in Seq(RecordType), RecordsOrdered(records)
  PROVE  \E f : BackMarked(records, f)
<1> DEFINE f == [p \in DOMAIN records |-> Backed(records, p)]
<1>1. \A p \in DOMAIN records : \A k \in DOMAIN records[p].inputs :
        records[p].inputs[k] \in DOMAIN records
  BY DEF RecordsOrdered
<1>2. ASSUME NEW p \in DOMAIN records
      PROVE  f[p] = (/\ records[p].kind \notin Boundaries
                     /\ \A k \in DOMAIN records[p].inputs : f[records[p].inputs[k]])
  <2>1. \A k \in DOMAIN records[p].inputs :
          f[records[p].inputs[k]] = Backed(records, records[p].inputs[k])
    BY <1>1
  <2>2. f[p] = Backed(records, p) /\ Backed(records, p) \in BOOLEAN
    BY DEF Backed
  <2> HIDE DEF f
  <2> QED
    BY <2>1, <2>2, BackedUnfolds
<1>3. f = [p \in DOMAIN records |-> f[p]]
  OBVIOUS
<1> HIDE DEF f
<1>4. BackMarked(records, f)
  BY <1>2, <1>3, Zenon DEF BackMarked
<1> QED
  BY <1>4

(* A backed record is resolved.                                            *)
LEMMA BackedIsResolved ==
  ASSUME NEW records \in Seq(RecordType), RecordsOrdered(records), NEW p, Backed(records, p)
  PROVE  Resolved(records)[p]
<1> DEFINE f == CHOOSE f : BackMarked(records, f)
<1>1. BackMarked(records, f)
  BY BackMarkingExists
<1>2. Resolved(records) = f
  BY DEF Resolved, BackMarked
<1> HIDE DEF f
<1>3. PICK S : p \in S /\ BackedSet(records, S)
  BY DEF Backed
<1> DEFINE Bad == {m \in S : ~f[m]}
<1>4. ASSUME Bad # {}
      PROVE  FALSE
  <2>1. Bad \in SUBSET Nat
    BY <1>3 DEF BackedSet
  <2>2. PICK m \in Bad : \A j \in Bad : m <= j
    BY <1>4, <2>1, LeastExists
  <2>3. m \in DOMAIN records /\ m \in Nat /\ m \in S
    BY <1>3 DEF BackedSet
  <2>4. \A k \in DOMAIN records[m].inputs :
          records[m].inputs[k] \in S /\ records[m].inputs[k] \in 1..(m - 1)
    BY <1>3, <2>3 DEF BackedSet, RecordsOrdered
  <2>5. \A k \in DOMAIN records[m].inputs : f[records[m].inputs[k]]
    BY <2>2, <2>3, <2>4
  <2>6. records[m].kind \notin Boundaries
    BY <1>3, <2>3 DEF BackedSet
  <2>7. f[m] = (/\ records[m].kind \notin Boundaries
                /\ \A k \in DOMAIN records[m].inputs : f[records[m].inputs[k]])
    BY <1>1, <2>3, Zenon DEF BackMarked
  <2> QED
    BY <2>5, <2>6, <2>7
<1> QED
  BY <1>2, <1>3, <1>4

-----------------------------------------------------------------------------
(* A result is honest when its status and diagnostics hide nothing, a      *)
(* waiting frame when what it has collected so far is.                     *)
Unresolved == {"unknown", "external"}
Hidden == {"unknown"}

Honest(g, records, r) ==
  /\ r.status = "complete" =>
       /\ r.root # None /\ r.prov # None
       /\ Clean(g, Unresolved, r.root) /\ Backed(records, r.prov)
  /\ r.diags = {} => r.root # None /\ Clean(g, Hidden, r.root)

HonestLower(g, records, f) ==
  /\ f.status = "complete" =>
       /\ \A k \in DOMAIN f.roots : Clean(g, Unresolved, f.roots[k])
       /\ \A k \in DOMAIN f.inputs : Backed(records, f.inputs[k])
  /\ f.diags = {} => \A k \in DOMAIN f.roots : Clean(g, Hidden, f.roots[k])
HonestMerge(g, records, f) ==
  /\ \A k \in DOMAIN f.incoming :
       /\ Honest(g, records, f.incoming[k])
       /\ f.incoming[k].diags \subseteq f.diags
       /\ f.status = "complete" => f.incoming[k].status = "complete"
  /\ f.status = "complete" => \A k \in DOMAIN f.inputs : Backed(records, f.inputs[k])
HonestFrame(g, records, f) ==
  /\ f.kind = "lower" => HonestLower(g, records, f)
  /\ f.kind = "merge" => HonestMerge(g, records, f)

HonestInv ==
  /\ Ordered(graph) /\ RecordsOrdered(provenance)
  /\ \A c \in DOMAIN cache : Honest(graph, provenance, cache[c].result)
  /\ mode = "return" => Honest(graph, provenance, returned)
  /\ \A k \in DOMAIN stack : HonestFrame(graph, provenance, stack[k])

(* Graph and store only grow, and in order.                                *)
Extends ==
  /\ Ordered(graph') /\ RecordsOrdered(provenance')
  /\ DOMAIN graph \subseteq DOMAIN graph' /\ \A n \in DOMAIN graph : graph'[n] = graph[n]
  /\ DOMAIN provenance \subseteq DOMAIN provenance'
  /\ \A p \in DOMAIN provenance : provenance'[p] = provenance[p]

LEMMA CleanGrows ==
  ASSUME Extends
  PROVE  /\ \A ops, n : Clean(graph, ops, n) => Clean(graph', ops, n)
         /\ \A p : Backed(provenance, p) => Backed(provenance', p)
<1>1. ASSUME NEW ops, NEW n, Clean(graph, ops, n)
      PROVE  Clean(graph', ops, n)
  <2>1. PICK S : n \in S /\ CleanSet(graph, ops, S)
    BY <1>1 DEF Clean
  <2>2. CleanSet(graph', ops, S)
    BY <2>1 DEF CleanSet, Extends
  <2> QED
    BY <2>1, <2>2 DEF Clean
<1>2. ASSUME NEW p, Backed(provenance, p)
      PROVE  Backed(provenance', p)
  <2>1. PICK S : p \in S /\ BackedSet(provenance, S)
    BY <1>2 DEF Backed
  <2>2. BackedSet(provenance', S)
    BY <2>1 DEF BackedSet, Extends
  <2> QED
    BY <2>1, <2>2 DEF Backed
<1> QED
  BY <1>1, <1>2

LEMMA HonestGrows ==
  ASSUME Extends
  PROVE  /\ \A r : Honest(graph, provenance, r) => Honest(graph', provenance', r)
         /\ \A f : HonestFrame(graph, provenance, f) => HonestFrame(graph', provenance', f)
<1>1. \A r : Honest(graph, provenance, r) => Honest(graph', provenance', r)
  BY CleanGrows DEF Honest
<1>2. ASSUME NEW f, HonestFrame(graph, provenance, f)
      PROVE  HonestFrame(graph', provenance', f)
  <2>1. HonestLower(graph, provenance, f) => HonestLower(graph', provenance', f)
    BY CleanGrows DEF HonestLower
  <2>2. HonestMerge(graph, provenance, f) => HonestMerge(graph', provenance', f)
    BY <1>1, CleanGrows DEF HonestMerge
  <2> QED
    BY <1>2, <2>1, <2>2 DEF HonestFrame
<1> QED
  BY <1>1, <1>2

-----------------------------------------------------------------------------
(* A step delivers a result or goes on without one.                        *)
Delivers(r) ==
  /\ Extends /\ Honest(graph', provenance', r) /\ returned' = r
  /\ cache' = cache \/ \E q : cache' = Append(cache, [query |-> q, result |-> r])
  /\ stack' = stack \/ (stack # <<>> /\ stack' = Below)

GoesOn ==
  /\ Extends /\ mode' # "return" /\ UNCHANGED cache
  /\ \/ UNCHANGED stack
     \/ \E f : /\ HonestFrame(graph', provenance', f)
               /\ \/ stack' = Append(stack, f)
                  \/ stack # <<>> /\ stack' = [stack EXCEPT ![Len(stack)] = f]

LEMMA DeliversKeeps ==
  ASSUME TypeOK, HonestInv, NEW r, Delivers(r)
  PROVE  HonestInv'
<1>1. \A c \in DOMAIN cache : Honest(graph', provenance', cache[c].result)
  BY HonestGrows DEF HonestInv, Delivers
<1>2. ASSUME NEW c \in DOMAIN cache'
      PROVE  Honest(graph', provenance', cache'[c].result)
  <2>1. CASE cache' = cache
    BY <1>1, <2>1
  <2>2. CASE cache' # cache
    <3>1. PICK q : cache' = Append(cache, [query |-> q, result |-> r])
      BY <2>2 DEF Delivers
    <3>2. cache \in Seq(CacheEntry(call.prog, graph, provenance))
      BY DEF TypeOK
    <3>3. \/ c \in DOMAIN cache /\ cache'[c] = cache[c]
          \/ cache'[c] = [query |-> q, result |-> r]
      BY <3>1, <3>2
    <3> QED
      BY <1>1, <3>3 DEF Delivers
  <2> QED
    BY <2>1, <2>2
<1>3. ASSUME NEW k \in DOMAIN stack'
      PROVE  HonestFrame(graph', provenance', stack'[k])
  <2>1. k \in DOMAIN stack /\ stack'[k] = stack[k]
    <3>1. CASE stack' = stack
      BY <3>1
    <3>2. CASE stack # <<>> /\ stack' = Below
      <4>1. /\ DOMAIN stack = 1..Len(stack) /\ Len(stack) \in Nat
            /\ DOMAIN Below = 1..(Len(stack) - 1)
            /\ \A j \in 1..(Len(stack) - 1) : Below[j] = stack[j]
        BY <3>2, Stacked
      <4> QED
        BY <3>2, <4>1
    <3> QED
      BY <3>1, <3>2 DEF Delivers
  <2> QED
    BY <2>1, HonestGrows DEF HonestInv, Delivers
<1> QED
  BY <1>2, <1>3 DEF HonestInv, Delivers, Extends

LEMMA GoesOnKeeps ==
  ASSUME TypeOK, HonestInv, GoesOn
  PROVE  HonestInv'
<1>1. \A c \in DOMAIN cache : Honest(graph', provenance', cache'[c].result)
  BY HonestGrows DEF HonestInv, GoesOn
<1>2. \A k \in DOMAIN stack : HonestFrame(graph', provenance', stack[k])
  BY HonestGrows DEF HonestInv, GoesOn
<1>3. ASSUME NEW k \in DOMAIN stack'
      PROVE  HonestFrame(graph', provenance', stack'[k])
  <2>0. stack \in Seq(Frame(call.prog, graph, provenance))
    BY DEF TypeOK
  <2>1. CASE stack' = stack
    BY <1>2, <2>1
  <2>2. ASSUME NEW f, HonestFrame(graph', provenance', f), stack' = Append(stack, f)
        PROVE  HonestFrame(graph', provenance', stack'[k])
    <3>1. \/ k \in DOMAIN stack /\ stack'[k] = stack[k]
          \/ stack'[k] = f
      BY <2>0, <2>2
    <3> QED
      BY <1>2, <2>2, <3>1
  <2>3. ASSUME NEW f, HonestFrame(graph', provenance', f),
               stack' = [stack EXCEPT ![Len(stack)] = f]
        PROVE  HonestFrame(graph', provenance', stack'[k])
    <3>1. k \in DOMAIN stack /\ (stack'[k] = stack[k] \/ stack'[k] = f)
      BY <2>3
    <3> QED
      BY <1>2, <2>3, <3>1
  <2> QED
    BY <2>1, <2>2, <2>3 DEF GoesOn
<1> QED
  BY <1>1, <1>3 DEF HonestInv, GoesOn, Extends

-----------------------------------------------------------------------------
(* What is appended, and what the ends of recover_with_cache deliver.      *)
LEMMA Standing ==
  ASSUME TypeOK, HonestInv
  PROVE  UNCHANGED <<graph, provenance>> => Extends
BY DEF HonestInv, Extends

LEMMA NodeStands ==
  ASSUME TypeOK, HonestInv, NEW node,
         \A k \in DOMAIN node.args : node.args[k] \in 1..Len(graph),
         graph' = Append(graph, node)
  PROVE  /\ Ordered(graph') /\ DOMAIN graph \subseteq DOMAIN graph'
         /\ \A n \in DOMAIN graph : graph'[n] = graph[n]
         /\ NextNode \in DOMAIN graph' /\ graph'[NextNode] = node /\ NextNode # None
<1>1. /\ graph \in Seq(Node) /\ Len(graph) \in Nat /\ DOMAIN graph = 1..Len(graph)
      /\ Ordered(graph)
  BY Lengths DEF TypeOK, HonestInv
<1>2. /\ DOMAIN graph' = 1..(Len(graph) + 1)
      /\ \A n \in DOMAIN graph : graph'[n] = graph[n]
      /\ graph'[Len(graph) + 1] = node
  BY <1>1
<1>3. Ordered(graph')
  <2> SUFFICES ASSUME NEW n \in DOMAIN graph', NEW k \in DOMAIN graph'[n].args
               PROVE  graph'[n].args[k] \in 1..(n - 1)
    BY DEF Ordered
  <2>1. CASE n \in DOMAIN graph
    BY <1>1, <1>2, <2>1 DEF Ordered
  <2>2. CASE n = Len(graph) + 1
    BY <1>1, <1>2, <2>2
  <2> QED
    BY <1>1, <1>2, <2>1, <2>2
<1>4. DOMAIN graph \subseteq DOMAIN graph'
  BY <1>1, <1>2
<1>5. NextNode = Len(graph) + 1 /\ NextNode \in DOMAIN graph' /\ NextNode # None
  BY <1>1, <1>2 DEF NextNode, None
<1> QED
  BY <1>2, <1>3, <1>4, <1>5

LEMMA RecordStands ==
  ASSUME TypeOK, HonestInv, NEW kind, NEW node, NEW inputs,
         \A k \in DOMAIN inputs : inputs[k] \in 1..Len(provenance),
         provenance' = Append(provenance, Record(kind, node, inputs))
  PROVE  /\ RecordsOrdered(provenance') /\ DOMAIN provenance \subseteq DOMAIN provenance'
         /\ \A p \in DOMAIN provenance : provenance'[p] = provenance[p]
         /\ NextRecord \in DOMAIN provenance' /\ NextRecord # None
         /\ provenance'[NextRecord] = Record(kind, node, inputs)
<1>1. /\ provenance \in Seq(RecordType) /\ Len(provenance) \in Nat
      /\ DOMAIN provenance = 1..Len(provenance) /\ RecordsOrdered(provenance)
  BY Lengths DEF TypeOK, HonestInv
<1>2. /\ DOMAIN provenance' = 1..(Len(provenance) + 1)
      /\ \A p \in DOMAIN provenance : provenance'[p] = provenance[p]
      /\ provenance'[Len(provenance) + 1] = Record(kind, node, inputs)
  BY <1>1
<1>3. RecordsOrdered(provenance')
  <2> SUFFICES ASSUME NEW p \in DOMAIN provenance', NEW k \in DOMAIN provenance'[p].inputs
               PROVE  provenance'[p].inputs[k] \in 1..(p - 1)
    BY DEF RecordsOrdered
  <2>1. CASE p \in DOMAIN provenance
    BY <1>1, <1>2, <2>1 DEF RecordsOrdered
  <2>2. CASE p = Len(provenance) + 1
    BY <1>1, <1>2, <2>2 DEF Record
  <2> QED
    BY <1>1, <1>2, <2>1, <2>2
<1>4. DOMAIN provenance \subseteq DOMAIN provenance'
  BY <1>1, <1>2
<1>5. /\ NextRecord = Len(provenance) + 1
      /\ NextRecord \in DOMAIN provenance' /\ NextRecord # None
  BY <1>1, <1>2 DEF NextRecord, None
<1> QED
  BY <1>2, <1>3, <1>4, <1>5

LEMMA NodeClean ==
  ASSUME Ordered(graph'), graph' \in Seq(Node), NEW n \in DOMAIN graph', NEW ops,
         graph'[n].op \notin ops,
         \A k \in DOMAIN graph'[n].args : Clean(graph', ops, graph'[n].args[k])
  PROVE  Clean(graph', ops, n)
BY CleanUnfolds

(* A record is backed when its inputs are.                                 *)
LEMMA RecordBacked ==
  ASSUME TypeOK, HonestInv, Extends, NEW kind, NEW node, NEW inputs, kind \notin Boundaries,
         \A k \in DOMAIN inputs : inputs[k] \in 1..Len(provenance),
         \A k \in DOMAIN inputs : Backed(provenance, inputs[k]),
         provenance' = Append(provenance, Record(kind, node, inputs))
  PROVE  Backed(provenance', NextRecord)
<1> DEFINE M == {p \in DOMAIN provenance' : Backed(provenance', p)}
           S == M \cup {NextRecord}
<1>1. /\ DOMAIN provenance \subseteq DOMAIN provenance' /\ NextRecord \in DOMAIN provenance'
      /\ provenance'[NextRecord] = Record(kind, node, inputs)
  BY RecordStands
<1>2. \A k \in DOMAIN inputs : inputs[k] \in M
  <2>1. \A k \in DOMAIN inputs : inputs[k] \in DOMAIN provenance'
    BY <1>1, Lengths
  <2> QED
    BY <2>1, CleanGrows
<1>3. ASSUME NEW p \in M
      PROVE  /\ provenance'[p].kind \notin Boundaries
             /\ \A k \in DOMAIN provenance'[p].inputs : provenance'[p].inputs[k] \in M
  BY DEF Backed, BackedSet
<1>4. BackedSet(provenance', S)
  BY <1>1, <1>2, <1>3 DEF BackedSet, Record
<1> QED
  BY <1>4 DEF Backed

LEMMA FinishUnknownHonest ==
  ASSUME TypeOK, HonestInv, NEW q, NEW type, NEW reason, NEW status, NEW diags,
         FinishUnknown(q, type, reason, status, diags), status # "complete", diags # {},
         stack' = stack \/ (stack # <<>> /\ stack' = Below)
  PROVE  \E r : Delivers(r)
<1> DEFINE node == Leaf("unknown", type, <<reason>>)
           r == Result(NextNode, type, None, status, diags)
<1>1. graph' = Append(graph, node) /\ provenance' = provenance /\ Finish(q, r)
  BY DEF FinishUnknown
<1>2. \A k \in DOMAIN node.args : node.args[k] \in 1..Len(graph)
  BY DEF Leaf
<1> HIDE DEF node
<1>3. Extends
  BY <1>1, <1>2, NodeStands DEF Extends, HonestInv
<1>4. Honest(graph', provenance', r)
  BY DEF Honest, Result
<1> HIDE DEF r
<1>5. Delivers(r)
  BY <1>1, <1>3, <1>4 DEF Delivers, Finish, Return
<1> QED
  BY <1>5

LEMMA FinishEmptyHonest ==
  ASSUME TypeOK, HonestInv, NEW q, NEW type, NEW diags,
         FinishEmpty(q, type, diags), diags # {},
         stack' = stack \/ (stack # <<>> /\ stack' = Below)
  PROVE  \E r : Delivers(r)
<1> DEFINE r == Result(None, type, None, "invalid_input", diags)
<1>1. UNCHANGED <<graph, provenance>> /\ Finish(q, r)
  BY DEF FinishEmpty
<1>2. Extends
  BY <1>1, Standing
<1>3. Honest(graph', provenance', r)
  BY DEF Honest, Result
<1> HIDE DEF r
<1>4. Delivers(r)
  BY <1>1, <1>2, <1>3 DEF Delivers, Finish, Return
<1> QED
  BY <1>4

(* A new node is as clean as its operands, its record as well backed as    *)
(* the inputs.                                                             *)
LEMMA FinishNodeHonest ==
  ASSUME TypeOK, HonestInv, NEW q, NEW node \in Node, NEW kind, NEW inputs,
         NEW status, NEW diags, FinishNode(q, node, kind, inputs, status, diags),
         \A k \in DOMAIN node.args : node.args[k] \in 1..Len(graph),
         \A k \in DOMAIN inputs : inputs[k] \in 1..Len(provenance),
         status = "complete" =>
           /\ node.op \notin Unresolved /\ kind \notin Boundaries
           /\ \A k \in DOMAIN node.args : Clean(graph, Unresolved, node.args[k])
           /\ \A k \in DOMAIN inputs : Backed(provenance, inputs[k]),
         diags = {} =>
           node.op \notin Hidden /\ \A k \in DOMAIN node.args : Clean(graph, Hidden, node.args[k]),
         stack' = stack \/ (stack # <<>> /\ stack' = Below)
  PROVE  \E r : Delivers(r)
<1> DEFINE r == Result(NextNode, node.type, NextRecord, status, diags)
<1>1. /\ graph' = Append(graph, node)
      /\ provenance' = Append(provenance, Record(kind, NextNode, inputs))
      /\ Finish(q, r)
  BY DEF FinishNode
<1>2. /\ Ordered(graph') /\ DOMAIN graph \subseteq DOMAIN graph'
      /\ \A n \in DOMAIN graph : graph'[n] = graph[n]
      /\ NextNode \in DOMAIN graph' /\ graph'[NextNode] = node /\ NextNode # None
  BY <1>1, NodeStands
<1>3. /\ RecordsOrdered(provenance') /\ DOMAIN provenance \subseteq DOMAIN provenance'
      /\ \A p \in DOMAIN provenance : provenance'[p] = provenance[p]
      /\ NextRecord \in DOMAIN provenance' /\ NextRecord # None
      /\ provenance'[NextRecord] = Record(kind, NextNode, inputs)
  BY <1>1, RecordStands
<1>4. Extends
  BY <1>2, <1>3 DEF Extends
<1>5. graph' \in Seq(Node)
  BY <1>1 DEF TypeOK
<1>6. ASSUME NEW ops, node.op \notin ops, \A k \in DOMAIN node.args : Clean(graph, ops, node.args[k])
      PROVE  Clean(graph', ops, NextNode)
  BY <1>2, <1>4, <1>5, <1>6, CleanGrows, NodeClean
<1>7. ASSUME kind \notin Boundaries, \A k \in DOMAIN inputs : Backed(provenance, inputs[k])
      PROVE  Backed(provenance', NextRecord)
  BY <1>1, <1>4, <1>7, RecordBacked
<1>8. Honest(graph', provenance', r)
  BY <1>2, <1>3, <1>6, <1>7 DEF Honest, Result
<1> HIDE DEF r
<1>9. Delivers(r)
  BY <1>1, <1>4, <1>8 DEF Delivers, Finish, Return
<1> QED
  BY <1>9

LEMMA FinishBoundaryHonest ==
  ASSUME TypeOK, HonestInv, NEW q \in Queries(call.prog), NEW diags, FinishBoundary(q, diags),
         stack' = stack \/ (stack # <<>> /\ stack' = Below)
  PROVE  \E r : Delivers(r)
<1> DEFINE note == <<"entry", q.loc.reg, q.loc.off>>
           node == Leaf("external", q.type, note)
<1>1. q.loc.reg \in Registers /\ q.loc.off \in Nat /\ q.type \in Types
  BY DEF Queries, Slice
<1>2. note \in Notes
  BY <1>1, NoteTypes
<1> HIDE DEF note
<1>3. node \in Node
  BY <1>1, <1>2, LeafType DEF NodeOps
<1>4. node.op \notin Hidden /\ DOMAIN node.args = {}
  BY DEF Leaf, Hidden
<1>5. FinishNode(q, node, "external_input", <<>>, "partial", diags)
  BY DEF FinishBoundary, note
<1> HIDE DEF node
<1> QED
  BY <1>3, <1>4, <1>5, FinishNodeHonest

-----------------------------------------------------------------------------
(* The actions: queries that are answered at once or start to wait.        *)
LEMMA ComputeHonest ==
  ASSUME IInv, HonestInv, Compute
  PROVE  GoesOn \/ \E r : Delivers(r)
<1> USE DEF IInv
<1>1. CASE DepthExhausted
  <2>1. FinishUnknown(Asked, Asked.type, "recovery recursion budget exhausted",
                      "resource_exhausted", {"depth_exhausted"}) /\ UNCHANGED stack
    BY <1>1 DEF DepthExhausted
  <2> QED
    BY <2>1, FinishUnknownHonest
<1>2. CASE InvalidLane
  <2>1. FinishUnknown(Asked, Asked.type, "requested lane is outside semantic value",
                      "invalid_input", {"invalid_lane"}) /\ UNCHANGED stack
    BY <1>2 DEF InvalidLane
  <2> QED
    BY <2>1, FinishUnknownHonest
<1>3. CASE LowerZero
  <2>1. PICK d \in Found :
          LET type == ResultType(Asked, Effect(call.prog, d).value)
          IN IF type \in ScalarTypes
             THEN FinishNode(Asked, Leaf("zero", type, <<>>), "instruction_write",
                             <<>>, "complete", {})
             ELSE FinishEmpty(Asked, type, {"constant"})
    BY <1>3 DEF LowerZero
  <2> DEFINE type == ResultType(Asked, Effect(call.prog, d).value)
             node == Leaf("zero", type, <<>>)
  <2>2. TypeOK /\ Computing /\ UNCHANGED stack
    BY <1>3 DEF LowerZero, Searching
  <2>3. type \in Types
    BY <2>2, AskedType, FoundType, LaneType
  <2>4. node \in Node
    BY <2>3, LeafType, NoteTypes DEF NodeOps
  <2>5. node.op = "zero" /\ DOMAIN node.args = {}
    BY DEF Leaf
  <2> HIDE DEF node, type
  <2>6. CASE FinishNode(Asked, node, "instruction_write", <<>>, "complete", {})
    BY <2>2, <2>4, <2>5, <2>6, FinishNodeHonest DEF Unresolved, Hidden, Boundaries
  <2>7. CASE FinishEmpty(Asked, type, {"constant"})
    BY <2>2, <2>7, FinishEmptyHonest
  <2> QED
    BY <2>1, <2>6, <2>7 DEF type, node
<1>4. CASE EntryBoundary
  <2>1. TypeOK /\ Computing /\ FinishBoundary(Asked, {}) /\ UNCHANGED stack
    BY <1>4 DEF EntryBoundary, Searching
  <2> QED
    BY <2>1, AskedType, FinishBoundaryHonest
<1>5. CASE StartLowering
  <2>1. PICK d \in Found :
          stack' = Append(stack,
            [kind |-> "lower", query |-> Asked, depth |-> entering.depth, next |-> 1,
             def |-> d, type |-> ResultType(Asked, Effect(call.prog, d).value),
             status |-> "complete", diags |-> {}, roots |-> <<>>, inputs |-> <<>>])
    BY <1>5 DEF StartLowering
  <2> DEFINE f == [kind |-> "lower", query |-> Asked, depth |-> entering.depth, next |-> 1,
             def |-> d, type |-> ResultType(Asked, Effect(call.prog, d).value),
             status |-> "complete", diags |-> {}, roots |-> <<>>, inputs |-> <<>>]
  <2>2. HonestFrame(graph', provenance', f)
    BY DEF HonestFrame, HonestLower
  <2>3. mode' = "run" /\ UNCHANGED <<graph, provenance, cache>>
    BY <1>5 DEF StartLowering
  <2> QED
    BY <2>1, <2>2, <2>3, Standing DEF GoesOn
<1>6. CASE StartMerge
  <2> DEFINE f == [kind |-> "merge", query |-> Asked, depth |-> entering.depth, next |-> 1,
                   status |-> "complete", diags |-> {}, incoming |-> <<>>, inputs |-> <<>>]
  <2>1. stack' = Append(stack, f)
    BY <1>6 DEF StartMerge
  <2>2. HonestFrame(graph', provenance', f)
    BY DEF HonestFrame, HonestMerge
  <2>3. mode' = "run" /\ UNCHANGED <<graph, provenance, cache>>
    BY <1>6 DEF StartMerge
  <2> QED
    BY <2>1, <2>2, <2>3, Standing DEF GoesOn
<1> QED
  BY <1>1, <1>2, <1>3, <1>4, <1>5, <1>6 DEF Compute

-----------------------------------------------------------------------------
(* The actions: a lowering and its inputs.                                 *)
LEMMA TopHonest ==
  ASSUME TypeOK, HonestInv, stack # <<>>
  PROVE  HonestFrame(graph, provenance, Top)
BY Stacked DEF HonestInv, Top

LEMMA TakeInputHonest ==
  ASSUME TypeOK, HonestInv, Lowering, Extends, NEW r, Honest(graph', provenance', r),
         TakeInput(r), UNCHANGED cache
  PROVE  GoesOn
<1> DEFINE f == [Top EXCEPT !.next = @ + 1,
                            !.roots = Append(@, r.root),
                            !.inputs = IF r.prov = None THEN @ ELSE Append(@, r.prov),
                            !.diags = @ \cup r.diags,
                            !.status = IF r.status = "complete" THEN @ ELSE "partial"]
<1>1. /\ stack # <<>> /\ stack' = [stack EXCEPT ![Len(stack)] = f]
      /\ mode' = "run" /\ Top.kind = "lower"
  BY LoweringType DEF TakeInput, Replace, Lowering
<1>2. Top \in LowerFrame(call.prog, graph, provenance)
  BY LoweringType
<1>3. /\ f.kind = "lower" /\ f.roots = Append(Top.roots, r.root)
      /\ f.inputs = IF r.prov = None THEN Top.inputs ELSE Append(Top.inputs, r.prov)
      /\ f.diags = Top.diags \cup r.diags
      /\ f.status = IF r.status = "complete" THEN Top.status ELSE "partial"
  BY <1>1, <1>2 DEF LowerFrame
<1> HIDE DEF f
<1>4. Top.roots \in Seq(1..Len(graph)) /\ Top.inputs \in Seq(1..Len(provenance))
  BY <1>2 DEF LowerFrame
<1>5. HonestLower(graph', provenance', Top)
  BY <1>1, TopHonest, HonestGrows DEF HonestFrame
<1>6. \A k \in DOMAIN f.roots :
        (k \in DOMAIN Top.roots /\ f.roots[k] = Top.roots[k]) \/ f.roots[k] = r.root
  BY <1>3, <1>4
<1>7. ASSUME f.status = "complete"
      PROVE  /\ \A k \in DOMAIN f.roots : Clean(graph', Unresolved, f.roots[k])
             /\ \A k \in DOMAIN f.inputs : Backed(provenance', f.inputs[k])
  <2>1. r.status = "complete" /\ Top.status = "complete"
    BY <1>3, <1>7
  <2>2. r.prov # None /\ Clean(graph', Unresolved, r.root) /\ Backed(provenance', r.prov)
    BY <2>1 DEF Honest
  <2>3. f.inputs = Append(Top.inputs, r.prov)
    BY <1>3, <2>2
  <2>4. \A k \in DOMAIN f.inputs :
          (k \in DOMAIN Top.inputs /\ f.inputs[k] = Top.inputs[k]) \/ f.inputs[k] = r.prov
    BY <1>4, <2>3
  <2> QED
    BY <1>5, <1>6, <2>1, <2>2, <2>4 DEF HonestLower
<1>8. ASSUME f.diags = {}
      PROVE  \A k \in DOMAIN f.roots : Clean(graph', Hidden, f.roots[k])
  <2>1. r.diags = {} /\ Top.diags = {}
    BY <1>3, <1>8
  <2> QED
    BY <1>5, <1>6, <2>1 DEF HonestLower, Honest
<1>9. HonestFrame(graph', provenance', f)
  BY <1>3, <1>7, <1>8 DEF HonestFrame, HonestLower
<1> QED
  BY <1>1, <1>9 DEF GoesOn

LEMMA AskInputHonest ==
  ASSUME TypeOK, HonestInv, NEW slice, AskInput(slice)
  PROVE  GoesOn
<1>1. mode' = "enter" /\ UNCHANGED <<graph, provenance, cache, stack>>
  BY DEF AskInput, Enter
<1> QED
  BY <1>1, Standing DEF GoesOn

(* A new unknown, with a reason that is not the empty one.                 *)
LEMMA BadOperandHonest ==
  ASSUME TypeOK, HonestInv, BadOperand
  PROVE  GoesOn
<1>1. Lowering /\ UNCHANGED <<provenance, cache>>
  BY DEF BadOperand
<1>2. PICK reason, status, diags :
        /\ graph' = Append(graph, Leaf("unknown", Top.type, <<reason>>))
        /\ TakeInput(Result(NextNode, Top.type, None, status, diags))
        /\ status # "complete" /\ diags # {}
  <2>1. CASE /\ graph' = Append(graph, Leaf("unknown", Top.type, <<"semantic source operand is missing">>))
             /\ TakeInput(Result(NextNode, Top.type, None, "invalid_input", {"missing_operand"}))
    BY <2>1
  <2>2. CASE /\ graph' = Append(graph, Leaf("unknown", Top.type, <<"unsupported source operand">>))
             /\ TakeInput(Result(NextNode, Top.type, None, "unsupported", {"unsupported_operand"}))
    BY <2>2
  <2> QED
    BY <2>1, <2>2 DEF BadOperand
<1> DEFINE node == Leaf("unknown", Top.type, <<reason>>)
           r == Result(NextNode, Top.type, None, status, diags)
<1>3. \A k \in DOMAIN node.args : node.args[k] \in 1..Len(graph)
  BY DEF Leaf
<1> HIDE DEF node
<1>4. Extends
  BY <1>1, <1>2, <1>3, NodeStands DEF Extends, HonestInv, node
<1>5. Honest(graph', provenance', r)
  BY <1>2 DEF Honest, Result
<1> HIDE DEF r
<1> QED
  BY <1>1, <1>2, <1>4, <1>5, TakeInputHonest DEF r

(* A memory read is a node with its record; an external one hides nothing. *)
LEMMA MemoryOperandHonest ==
  ASSUME TypeOK, HonestInv, MemoryOperand
  PROVE  GoesOn
<1>1. /\ Lowering /\ UNCHANGED cache
      /\ provenance' = Append(provenance, Record("memory_boundary", NextNode, <<>>))
  BY DEF MemoryOperand
<1> DEFINE address == Operands[Input.operand].address
<1>2. PICK op, note, diags :
        /\ graph' = Append(graph, Leaf(op, Top.type, note))
        /\ TakeInput(Result(NextNode, Top.type, NextRecord, "partial", diags))
        /\ diags = {} => op = "external"
        /\ Leaf(op, Top.type, note) \in Node
  <2>0. /\ Top.type \in Types /\ Input \in LaneInput /\ Operands \in Seq(Operand)
        /\ Input.operand \in DOMAIN Operands /\ Operands[Input.operand].kind = "memory"
    BY <1>1, LoweringType DEF MemoryOperand
  <2>1. CASE Barrier(address, Point(Top.def, "before"))
    <3>1. /\ graph' = Append(graph, Leaf("unknown", Top.type,
                                     <<"memory read may depend on an earlier store">>))
          /\ TakeInput(Result(NextNode, Top.type, NextRecord, "partial", {"store_barrier"}))
      BY <2>1 DEF MemoryOperand
    <3>2. Leaf("unknown", Top.type, <<"memory read may depend on an earlier store">>) \in Node
      BY <2>0, LeafType, NoteTypes DEF NodeOps, Reasons
    <3> QED
      BY <3>1, <3>2
  <2>2. CASE ~Barrier(address, Point(Top.def, "before"))
    <3>1. /\ graph' = Append(graph, Leaf("external", Top.type, <<"memory", address, Input.lane>>))
          /\ TakeInput(Result(NextNode, Top.type, NextRecord, "partial", {}))
      BY <2>2 DEF MemoryOperand
    <3>2. address \in Address /\ Input.lane \in Nat
      BY <2>0 DEF Operand, LaneInput
    <3>3. Leaf("external", Top.type, <<"memory", address, Input.lane>>) \in Node
      <4> HIDE DEF address
      <4> QED
        BY <2>0, <3>2, LeafType, NoteTypes DEF NodeOps
    <3> QED
      BY <3>1, <3>3
  <2> QED
    BY <2>1, <2>2
<1> DEFINE node == Leaf(op, Top.type, note)
           r == Result(NextNode, Top.type, NextRecord, "partial", diags)
<1>3. node.op = op /\ DOMAIN node.args = {} /\ node \in Node
  BY <1>2 DEF Leaf
<1> HIDE DEF node
<1>4. /\ Ordered(graph') /\ DOMAIN graph \subseteq DOMAIN graph'
      /\ \A n \in DOMAIN graph : graph'[n] = graph[n]
      /\ NextNode \in DOMAIN graph' /\ graph'[NextNode] = node /\ NextNode # None
  BY <1>2, <1>3, NodeStands DEF node
<1>5. /\ RecordsOrdered(provenance') /\ DOMAIN provenance \subseteq DOMAIN provenance'
      /\ \A p \in DOMAIN provenance : provenance'[p] = provenance[p]
  BY <1>1, RecordStands
<1>6. Extends
  BY <1>4, <1>5 DEF Extends
<1>7. graph' \in Seq(Node)
  BY <1>2 DEF TypeOK
<1>8. op = "external" => Clean(graph', Hidden, NextNode)
  BY <1>3, <1>4, <1>7, NodeClean DEF Hidden
<1>9. Honest(graph', provenance', r)
  BY <1>2, <1>4, <1>8 DEF Honest, Result
<1> HIDE DEF r
<1> QED
  BY <1>1, <1>2, <1>6, <1>9, TakeInputHonest DEF r

LEMMA InputReturnedHonest ==
  ASSUME TypeOK, HonestInv, InputReturned
  PROVE  GoesOn \/ \E r : Delivers(r)
<1>1. Lowering /\ mode = "return" /\ Honest(graph, provenance, returned) /\ stack # <<>>
  BY LoweringType DEF InputReturned, HonestInv
<1>2. CASE returned.root = None
  <2>1. /\ FinishUnknown(Top.query, Top.type, "lane input recovery failed",
                         "partial", returned.diags)
        /\ stack' = Below
    BY <1>2 DEF InputReturned
  <2>2. returned.diags # {}
    BY <1>1, <1>2 DEF Honest
  <2> QED
    BY <1>1, <2>1, <2>2, FinishUnknownHonest
<1>3. CASE returned.root # None
  <2>1. TakeInput(returned) /\ UNCHANGED <<graph, provenance, cache>>
    BY <1>3 DEF InputReturned
  <2>2. Extends
    BY <2>1, Standing
  <2>3. Honest(graph', provenance', returned)
    BY <1>1, <2>2, HonestGrows
  <2> QED
    BY <1>1, <2>1, <2>2, <2>3, TakeInputHonest
<1> QED
  BY <1>2, <1>3

LEMMA LowerCopyHonest ==
  ASSUME TypeOK, HonestInv, LowerCopy
  PROVE  \E r : Delivers(r)
<1>1. Lowering /\ stack # <<>> /\ stack' = Below
  BY LoweringType DEF LowerCopy
<1>2. CASE Top.roots = <<>>
  <2>1. FinishEmpty(Top.query, Top.type, {"invalid_copy"})
    BY <1>2 DEF LowerCopy
  <2> QED
    BY <1>1, <2>1, FinishEmptyHonest
<1>3. CASE Top.roots # <<>>
  <2> DEFINE r == Result(Top.roots[1], Top.type, NextRecord, Top.status, Top.diags)
  <2>1. /\ provenance' = Append(provenance, Record("instruction_write", Top.roots[1], Top.inputs))
        /\ Finish(Top.query, r) /\ UNCHANGED graph
    BY <1>3 DEF LowerCopy
  <2>2. Top.roots \in Seq(1..Len(graph)) /\ Top.inputs \in Seq(1..Len(provenance))
    BY <1>1, LoweringType DEF LowerFrame
  <2>3. HonestLower(graph, provenance, Top)
    BY <1>1, TopHonest DEF HonestFrame, Lowering
  <2>4. \A k \in DOMAIN Top.inputs : Top.inputs[k] \in 1..Len(provenance)
    BY <2>2
  <2>5. /\ RecordsOrdered(provenance') /\ DOMAIN provenance \subseteq DOMAIN provenance'
        /\ \A p \in DOMAIN provenance : provenance'[p] = provenance[p]
        /\ NextRecord # None
    BY <2>1, <2>4, RecordStands
  <2>6. Extends
    BY <2>1, <2>5 DEF Extends, HonestInv
  <2>7. 1 \in DOMAIN Top.roots /\ Top.roots[1] # None
    BY <1>3, <2>2, Lengths DEF None
  <2>8. ASSUME Top.status = "complete"
        PROVE  Backed(provenance', NextRecord) /\ Clean(graph', Unresolved, Top.roots[1])
    <3>1. "instruction_write" \notin Boundaries
      BY DEF Boundaries
    <3>2. Backed(provenance', NextRecord)
      BY <2>1, <2>3, <2>6, <2>8, <2>4, <3>1, RecordBacked DEF HonestLower
    <3> QED
      BY <2>1, <2>3, <2>7, <2>8, <3>2 DEF HonestLower
  <2>9. Honest(graph', provenance', r)
    BY <2>1, <2>3, <2>5, <2>7, <2>8 DEF Honest, HonestLower, Result
  <2> HIDE DEF r
  <2>10. Delivers(r)
    BY <1>1, <2>1, <2>6, <2>9 DEF Delivers, Finish, Return
  <2> QED
    BY <2>10
<1> QED
  BY <1>2, <1>3

LEMMA LowerOperationHonest ==
  ASSUME TypeOK, HonestInv, LowerOperation
  PROVE  \E r : Delivers(r)
<1>1. Lowering /\ stack # <<>> /\ stack' = Below
  BY LoweringType DEF LowerOperation
<1>2. CASE Expression.op \notin Lowerable
  <2>1. FinishUnknown(Top.query, Top.type, "unsupported lane operation",
                      "unsupported", {"unsupported_lane_operation"})
    BY <1>2 DEF LowerOperation
  <2> QED
    BY <1>1, <2>1, FinishUnknownHonest
<1>3. CASE FinishEmpty(Top.query, Top.type, {"apply"})
  BY <1>1, <1>3, FinishEmptyHonest
<1>4. CASE FinishNode(Top.query, Apply(Expression.op, Top.type, Top.roots),
                      "instruction_write", Top.inputs, Top.status, Top.diags)
  <2> DEFINE node == Apply(Expression.op, Top.type, Top.roots)
  <2>1. /\ Top.roots \in Seq(1..Len(graph)) /\ Top.inputs \in Seq(1..Len(provenance))
        /\ Top.type \in Types /\ Expression.op \in LaneOps
    BY <1>1, LoweringType DEF LowerFrame, LaneExpr
  <2>2. HonestLower(graph, provenance, Top)
    BY <1>1, TopHonest DEF HonestFrame, Lowering
  <2>3. node.op = Expression.op /\ node.args = Top.roots
    BY DEF Apply
  <2>4. node \in Node
    <3>1. Top.roots \in Seq(Nat) /\ <<>> \in Notes
      BY <2>1, NoteTypes
    <3> QED
      BY <2>1, <3>1 DEF Apply, Node, NodeOps
  <2>5. node.op \notin Unresolved /\ node.op \notin Hidden /\ "instruction_write" \notin Boundaries
    BY <2>1, <2>3, LaneOpsAssumption DEF Unresolved, Hidden, Boundaries
  <2>6. FinishNode(Top.query, node, "instruction_write", Top.inputs, Top.status, Top.diags)
    BY <1>4
  <2> HIDE DEF node
  <2>7. /\ \A k \in DOMAIN Top.roots : Top.roots[k] \in 1..Len(graph)
        /\ \A k \in DOMAIN Top.inputs : Top.inputs[k] \in 1..Len(provenance)
    BY <2>1
  <2>8. /\ Top.status = "complete" =>
              /\ \A k \in DOMAIN node.args : Clean(graph, Unresolved, node.args[k])
              /\ \A k \in DOMAIN Top.inputs : Backed(provenance, Top.inputs[k])
        /\ Top.diags = {} => \A k \in DOMAIN node.args : Clean(graph, Hidden, node.args[k])
    BY <2>2, <2>3 DEF HonestLower
  <2> QED
    BY <1>1, <2>3, <2>4, <2>5, <2>6, <2>7, <2>8, FinishNodeHonest
<1> QED
  BY <1>2, <1>3, <1>4 DEF LowerOperation

LEMMA LowerHonest ==
  ASSUME IInv, HonestInv, Lower
  PROVE  GoesOn \/ \E r : Delivers(r)
<1>1. TypeOK
  BY DEF IInv
<1>2. CASE OldDestination \/ RegisterOperand
  BY <1>1, <1>2, AskInputHonest DEF OldDestination, RegisterOperand
<1> QED
  BY <1>1, <1>2, BadOperandHonest, MemoryOperandHonest, InputReturnedHonest, LowerCopyHonest,
     LowerOperationHonest DEF Lower

-----------------------------------------------------------------------------
(* The actions: a merge and its predecessors.                              *)
LEMMA CombinedComplete ==
  \A s, t : CombinedStatus(s, t) = "complete" => s = "complete" /\ t = "complete"
BY DEF CombinedStatus

LEMMA MergingHonest ==
  ASSUME TypeOK, HonestInv, Merging
  PROVE  HonestMerge(graph, provenance, Top)
BY MergingType, TopHonest DEF HonestFrame, Merging

LEMMA EmptyPredecessorHonest ==
  ASSUME TypeOK, HonestInv, EmptyPredecessor
  PROVE  GoesOn
<1> DEFINE f == [Top EXCEPT !.next = @ + 1, !.diags = @ \cup {"empty_predecessor"},
                            !.status = CombinedStatus(@, "partial")]
<1>1. /\ Merging /\ mode = "run" /\ stack' = [stack EXCEPT ![Len(stack)] = f]
      /\ UNCHANGED <<mode, graph, provenance, cache>>
  BY DEF EmptyPredecessor, Replace
<1>2. stack # <<>> /\ Top \in MergeFrame(call.prog, graph, provenance)
  BY <1>1, MergingType
<1>3. /\ f.kind = "merge" /\ f.incoming = Top.incoming /\ f.inputs = Top.inputs
      /\ f.diags = Top.diags \cup {"empty_predecessor"}
      /\ f.status = CombinedStatus(Top.status, "partial")
  BY <1>2 DEF MergeFrame
<1> HIDE DEF f
<1>4. f.status # "complete"
  BY <1>3, CombinedComplete
<1>5. HonestMerge(graph', provenance', f)
  BY <1>1, <1>3, <1>4, MergingHonest DEF HonestMerge
<1>6. HonestFrame(graph', provenance', f)
  BY <1>3, <1>5 DEF HonestFrame
<1> QED
  BY <1>1, <1>2, <1>6, Standing DEF GoesOn

LEMMA PredecessorReturnedHonest ==
  ASSUME TypeOK, HonestInv, PredecessorReturned
  PROVE  GoesOn
<1> DEFINE f == [Top EXCEPT !.next = @ + 1, !.diags = @ \cup returned.diags,
                         !.status = CombinedStatus(@, returned.status),
                         !.incoming = Append(@, returned),
                         !.inputs = IF returned.prov = None THEN @ ELSE Append(@, returned.prov)]
<1>1. /\ Merging /\ mode = "return" /\ stack' = [stack EXCEPT ![Len(stack)] = f]
      /\ mode' = "run" /\ UNCHANGED <<graph, provenance, cache>>
  BY DEF PredecessorReturned, Replace
<1>2. /\ stack # <<>> /\ Top \in MergeFrame(call.prog, graph, provenance)
      /\ Honest(graph, provenance, returned)
  BY <1>1, MergingType DEF HonestInv
<1>3. /\ f.kind = "merge" /\ f.incoming = Append(Top.incoming, returned)
      /\ f.inputs = IF returned.prov = None THEN Top.inputs ELSE Append(Top.inputs, returned.prov)
      /\ f.diags = Top.diags \cup returned.diags
      /\ f.status = CombinedStatus(Top.status, returned.status)
  BY <1>2 DEF MergeFrame
<1> HIDE DEF f
<1>4. /\ Top.incoming \in Seq(Results(graph, provenance))
      /\ Top.inputs \in Seq(1..Len(provenance))
  BY <1>1, MergingType
<1>5. HonestMerge(graph, provenance, Top)
  BY <1>1, MergingHonest
<1>6. f.status = "complete" => Top.status = "complete" /\ returned.status = "complete"
  BY <1>3, CombinedComplete
<1>7. ASSUME NEW k \in DOMAIN f.incoming
      PROVE  /\ Honest(graph, provenance, f.incoming[k])
             /\ f.incoming[k].diags \subseteq f.diags
             /\ f.status = "complete" => f.incoming[k].status = "complete"
  <2>1. (k \in DOMAIN Top.incoming /\ f.incoming[k] = Top.incoming[k]) \/ f.incoming[k] = returned
    BY <1>3, <1>4
  <2> QED
    BY <1>2, <1>3, <1>5, <1>6, <2>1 DEF HonestMerge
<1>8. ASSUME f.status = "complete", NEW k \in DOMAIN f.inputs
      PROVE  Backed(provenance, f.inputs[k])
  <2>1. f.inputs = Append(Top.inputs, returned.prov) /\ Backed(provenance, returned.prov)
    BY <1>2, <1>3, <1>6, <1>8 DEF Honest
  <2>2. (k \in DOMAIN Top.inputs /\ f.inputs[k] = Top.inputs[k]) \/ f.inputs[k] = returned.prov
    BY <1>4, <2>1
  <2> QED
    BY <1>5, <1>6, <1>8, <2>1, <2>2 DEF HonestMerge
<1>9. HonestFrame(graph', provenance', f)
  BY <1>1, <1>3, <1>7, <1>8 DEF HonestFrame, HonestMerge
<1> QED
  BY <1>1, <1>2, <1>9, Standing DEF GoesOn

LEMMA MergeSameHonest ==
  ASSUME IInv, HonestInv, MergeSame
  PROVE  \E r : Delivers(r)
<1> DEFINE r == [Top.incoming[1] EXCEPT !.status = CombinedStatus(@, Top.status), !.diags = Top.diags]
<1>1. /\ TypeOK /\ Merged /\ Merging /\ Len(Top.incoming) > 0 /\ Finish(Top.query, r)
      /\ stack' = Below /\ UNCHANGED <<graph, provenance>>
  BY DEF MergeSame, Merged, IInv
<1>2. /\ stack # <<>> /\ Top.incoming \in Seq(Results(graph, provenance))
      /\ HonestMerge(graph, provenance, Top)
  BY <1>1, MergingType, MergingHonest
<1>3. 1 \in DOMAIN Top.incoming /\ Top.incoming[1] \in Results(graph, provenance)
  BY <1>1, <1>2
<1>4. /\ r.root = Top.incoming[1].root /\ r.prov = Top.incoming[1].prov
      /\ r.status = CombinedStatus(Top.incoming[1].status, Top.status) /\ r.diags = Top.diags
  BY <1>3 DEF Results
<1> HIDE DEF r
<1>5. Honest(graph, provenance, Top.incoming[1]) /\ Top.incoming[1].diags \subseteq Top.diags
  BY <1>2, <1>3 DEF HonestMerge
<1>6. r.status = "complete" => Top.incoming[1].status = "complete"
  BY <1>4, CombinedComplete
<1>7. r.diags = {} => Top.incoming[1].diags = {}
  BY <1>4, <1>5
<1>8. Honest(graph', provenance', r)
  BY <1>1, <1>4, <1>5, <1>6, <1>7 DEF Honest
<1>9. Delivers(r)
  BY <1>1, <1>2, <1>8, Standing DEF Delivers, Finish, Return
<1> QED
  BY <1>9

LEMMA MergeWithoutRootHonest ==
  ASSUME IInv, HonestInv, MergeWithoutRoot
  PROVE  \E r : Delivers(r)
<1>1. /\ TypeOK /\ Merged /\ Merging /\ stack' = Below
      /\ FinishUnknown(Top.query, Top.query.type, "control-flow predecessor recovery failed",
                       "partial", Top.diags)
  BY DEF MergeWithoutRoot, Merged, IInv
<1>2. PICK k \in DOMAIN Top.incoming : Top.incoming[k].root = None
  BY DEF MergeWithoutRoot, Roots
<1>3. stack # <<>> /\ HonestMerge(graph, provenance, Top)
  BY <1>1, MergingType, MergingHonest
<1>4. Top.diags # {}
  BY <1>2, <1>3 DEF HonestMerge, Honest
<1> QED
  BY <1>1, <1>3, <1>4, FinishUnknownHonest

(* The roots of a merge are as clean as its status and diagnostics say.    *)
LEMMA MergeDifferentHonest ==
  ASSUME IInv, HonestInv, MergeDifferent
  PROVE  \E r : Delivers(r)
<1> DEFINE node == Apply("merge", MergeType, Roots)
<1>1. /\ Merged /\ Len(Top.incoming) > 1 /\ \A k \in DOMAIN Roots : Roots[k] # None
      /\ FinishNode(Top.query, node, "control_flow_merge", Top.inputs, Top.status, Top.diags)
      /\ stack' = Below
  BY DEF MergeDifferent
<1>2. /\ TypeOK /\ Merging /\ Roots \in Seq(0..Len(graph)) /\ Roots \in Seq(Nat)
      /\ DOMAIN Roots = DOMAIN Top.incoming /\ MergeType \in Types
  BY <1>1, MergedType
<1>3. /\ stack # <<>> /\ Top.inputs \in Seq(1..Len(provenance))
      /\ HonestMerge(graph, provenance, Top)
  BY <1>2, MergingType, MergingHonest
<1>4. node.op = "merge" /\ node.args = Roots
  BY DEF Apply
<1>5. node \in Node
  BY <1>2, NoteTypes DEF Apply, Node, NodeOps
<1>6. \A k \in DOMAIN Roots : Roots[k] \in 1..Len(graph) /\ Roots[k] = Top.incoming[k].root
  <2>1. \A k \in DOMAIN Roots : Roots[k] \in 0..Len(graph)
    BY <1>2
  <2>2. \A k \in DOMAIN Roots : Roots[k] \in 1..Len(graph)
    BY <1>1, <1>2, <2>1, Lengths DEF None
  <2> QED
    BY <2>2 DEF Roots
<1>7. \A k \in DOMAIN Top.inputs : Top.inputs[k] \in 1..Len(provenance)
  BY <1>3
<1>8. Top.status = "complete" =>
        /\ \A k \in DOMAIN node.args : Clean(graph, Unresolved, node.args[k])
        /\ \A k \in DOMAIN Top.inputs : Backed(provenance, Top.inputs[k])
  BY <1>2, <1>3, <1>4, <1>6 DEF HonestMerge, Honest
<1>9. Top.diags = {} => \A k \in DOMAIN node.args : Clean(graph, Hidden, node.args[k])
  <2>1. Top.diags = {} => \A k \in DOMAIN Top.incoming : Top.incoming[k].diags = {}
    BY <1>3 DEF HonestMerge
  <2> QED
    BY <1>2, <1>3, <1>4, <1>6, <2>1 DEF HonestMerge, Honest
<1>10. "merge" \notin Unresolved /\ "merge" \notin Hidden /\ "control_flow_merge" \notin Boundaries
  BY DEF Unresolved, Hidden, Boundaries
<1> HIDE DEF node
<1> QED
  BY <1>1, <1>2, <1>3, <1>4, <1>5, <1>6, <1>7, <1>8, <1>9, <1>10, FinishNodeHonest

LEMMA MergeHonest ==
  ASSUME IInv, HonestInv, Merge
  PROVE  GoesOn \/ \E r : Delivers(r)
<1>1. TypeOK
  BY DEF IInv
<1>2. CASE AskPredecessor
  <2>1. mode' = "enter" /\ UNCHANGED <<graph, provenance, cache, stack>>
    BY <1>2 DEF AskPredecessor, Enter
  <2> QED
    BY <1>1, <2>1, Standing DEF GoesOn
<1>3. CASE MergeNothing
  <2>1. Merging /\ FinishBoundary(Top.query, Top.diags) /\ stack' = Below
    BY <1>3 DEF MergeNothing, Merged
  <2>2. stack # <<>> /\ Top.query \in Queries(call.prog)
    BY <1>1, <2>1, MergingType
  <2> QED
    BY <1>1, <2>1, <2>2, FinishBoundaryHonest
<1>4. CASE MergeTypeMismatch
  <2>1. /\ Merging /\ stack' = Below /\ stack # <<>>
        /\ FinishUnknown(Top.query, MergeType,
                         "control-flow predecessor values have incompatible types",
                         "partial", Top.diags \cup {"merge_type_mismatch"})
    BY <1>1, <1>4, MergingType DEF MergeTypeMismatch, Merged
  <2> QED
    BY <1>1, <2>1, FinishUnknownHonest
<1> QED
  BY <1>1, <1>2, <1>3, <1>4, EmptyPredecessorHonest, PredecessorReturnedHonest, MergeSameHonest,
     MergeWithoutRootHonest, MergeDifferentHonest DEF Merge

-----------------------------------------------------------------------------
(* The remaining actions, and the theorem.                                 *)
LEMMA CacheHitHonest ==
  ASSUME TypeOK, HonestInv, CacheHit
  PROVE  \E r : Delivers(r)
<1>1. PICK k \in Hits(entering.query) : Return(cache[k].result)
  BY DEF CacheHit
<1>2. UNCHANGED <<stack, graph, provenance, cache>>
  BY DEF CacheHit
<1>3. Honest(graph', provenance', cache[k].result)
  BY <1>1, <1>2 DEF HonestInv, Hits
<1>4. Delivers(cache[k].result)
  BY <1>1, <1>2, <1>3, Standing DEF Delivers, Return
<1> QED
  BY <1>4

LEMMA CyclicHonest ==
  ASSUME TypeOK, HonestInv, Cyclic
  PROVE  \E r : Delivers(r)
<1> DEFINE type == entering.query.type
           node == Leaf("unknown", type, <<"cyclic recovery query">>)
           r == Result(NextNode, type, NextRecord, "partial", {"loop.cycle"})
<1>1. /\ graph' = Append(graph, node) /\ Return(r) /\ UNCHANGED <<stack, cache>>
      /\ provenance' = Append(provenance, Record("unknown_boundary", NextNode, <<>>))
  BY DEF Cyclic
<1>2. \A k \in DOMAIN node.args : node.args[k] \in 1..Len(graph)
  BY DEF Leaf
<1> HIDE DEF node
<1>3. Extends
  BY <1>1, <1>2, NodeStands, RecordStands DEF Extends
<1>4. Honest(graph', provenance', r)
  BY DEF Honest, Result
<1> HIDE DEF r
<1>5. Delivers(r)
  BY <1>1, <1>3, <1>4 DEF Delivers, Return
<1> QED
  BY <1>5

LEMMA HonestInit ==
  ASSUME Init
  PROVE  HonestInv
BY DEF Init, HonestInv, Ordered, RecordsOrdered

LEMMA HonestStep ==
  ASSUME IInv, HonestInv, [Next]_vars
  PROVE  HonestInv'
<1>1. TypeOK
  BY DEF IInv
<1>2. CASE Recover \/ Answer \/ UNCHANGED vars
  <2>1. UNCHANGED <<stack, graph, provenance, cache>>
    BY <1>2 DEF Recover, Answer, vars
  <2>2. mode' # "return" \/ UNCHANGED <<mode, returned>>
    BY <1>2 DEF Recover, Answer, Enter, vars
  <2> QED
    BY <2>1, <2>2 DEF HonestInv
<1>3. CASE GoesOn \/ \E r : Delivers(r)
  BY <1>1, <1>3, GoesOnKeeps, DeliversKeeps
<1>4. CASE CacheHit \/ Cyclic \/ Compute \/ Lower \/ Merge
  BY <1>1, <1>3, <1>4, CacheHitHonest, CyclicHonest, ComputeHonest, LowerHonest, MergeHonest
<1> QED
  BY <1>2, <1>4 DEF Next

LEMMA HonestInvariance == Spec => []HonestInv
<1>1. Init => HonestInv
  BY HonestInit
<1>2. IInv /\ HonestInv /\ [Next]_vars => HonestInv'
  BY HonestStep
<1> QED
  BY <1>1, <1>2, Invariance, PTL DEF Spec

LEMMA HonestMeansResolved ==
  ASSUME TypeOK, HonestInv
  PROVE  StatusHonest
<1>1. graph \in Seq(Node) /\ Ordered(graph)
  BY DEF TypeOK, HonestInv
<1>2. provenance \in Seq(RecordType) /\ RecordsOrdered(provenance)
  BY DEF TypeOK, HonestInv
<1>3. \A c \in DOMAIN cache : Honest(graph, provenance, cache[c].result)
  BY DEF HonestInv
<1>4. CompleteIsResolved
  BY <1>1, <1>2, <1>3, CleanIsFree, BackedIsResolved DEF CompleteIsResolved, Honest, Unresolved
<1>5. UnknownsExplained
  BY <1>1, <1>3, CleanIsFree DEF UnknownsExplained, Honest, Hidden
<1> QED
  BY <1>4, <1>5 DEF StatusHonest

(* What status and diagnostics of an answer promise, for every program,    *)
(* catalogue and budget: a complete value rests nowhere on a boundary, a   *)
(* barrier, a cut cycle or a cut depth, neither in its expression nor in   *)
(* its provenance, and one without a diagnostic hides no unknown.          *)
THEOREM StatusIsHonest == Spec => []StatusHonest
<1>1. IInv /\ HonestInv => StatusHonest
  BY HonestMeansResolved DEF IInv
<1> QED
  BY <1>1, Invariance, HonestInvariance, PTL
=============================================================================
