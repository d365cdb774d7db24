---------------------------- MODULE PipelineProofs ----------------------------
(***************************************************************************)
(* Proofs about Pipeline, for inputs of any length, chunks of any size and *)
(* queues of any capacity.  A task's part of the state is described by     *)
(* constant-level operators, so that what an operation does to it is a     *)
(* lemma about sequences.                                                  *)
(***************************************************************************)
EXTENDS Pipeline, DataLemmas

AllItems == UNION {ToSet(s) : s \in ServerInputs \cup ClientInputs}
Points   == [item : AllItems, keys : SUBSET {"ks", "kc"}]
Chunks   == [begin : Nat, values : Seq(Points)]
States   == {"run", "sleep", "exit"}

\* A chunk of a layer, with chunks of cs elements before next.
InChunk(cs, c, i) == c.begin < i /\ i <= c.begin + cs
Span(c) == c.begin + 1..c.begin + Len(c.values)
ChunkOK(cs, lay, nx, c) ==
  /\ c \in Chunks
  /\ c.begin + cs <= nx
  /\ \A i \in DOMAIN lay : InChunk(cs, c, i) <=> i \in Span(c)
  /\ \A i \in Span(c) : i \in DOMAIN lay /\ c.values[i - c.begin] = lay[i]

\* The chunks under way follow each other, the consumer's before the queue's.
ChunksOK(cs, lay, nx, q, ch) ==
  /\ q \in Seq(Chunks) /\ nx \in Nat
  /\ \A k \in 1..Len(q) : ChunkOK(cs, lay, nx, q[k])
  /\ \A j, k \in 1..Len(q) : j < k => q[j].begin + cs <= q[k].begin
  /\ \/ ch = << >>
     \/ \E c : /\ ch = <<c>> /\ ChunkOK(cs, lay, nx, c)
               /\ \A k \in 1..Len(q) : c.begin + cs <= q[k].begin

\* A position is computed, under way, or not yet reached: one of the three.
Under(cs, q, ch, i) ==
  (\E k \in 1..Len(q) : InChunk(cs, q[k], i)) \/ (ch # << >> /\ InChunk(cs, ch[1], i))
CoverOK(cs, out, nx, q, ch) ==
  \A i \in DOMAIN out : /\ Under(cs, q, ch, i) => i <= nx /\ out[i] = None
                        /\ i <= nx /\ out[i] = None => Under(cs, q, ch, i)
                        /\ out[i] # None => i <= nx

\* What is computed is computed from its own element.
OutputOK(lay, out, key) ==
  /\ lay \in Seq(Points)
  /\ DOMAIN out = DOMAIN lay /\ out = [i \in DOMAIN lay |-> out[i]]
  /\ \A i \in DOMAIN lay : out[i] \in {None, Raise(lay[i], key)}

\* Producer and consumer: who sleeps has reason to, and who left had done all.
QueueOK(len, nx, q, cl, ch, th) ==
  /\ Len(q) <= Capacity
  /\ cl \in BOOLEAN
  /\ ch # << >> => th["consumer"] = "run"
  /\ th["producer"] = "exit" <=> cl
  /\ cl => nx >= len
  /\ th["consumer"] = "exit" => cl /\ q = << >> /\ ch = << >>
  /\ th["consumer"] = "sleep" => ~cl /\ q = << >>
  /\ th["producer"] = "sleep" => Len(q) >= Capacity

PipeOK(cs, lay, out, nx, q, cl, ch, th) ==
  /\ ChunksOK(cs, lay, nx, q, ch)
  /\ CoverOK(cs, out, nx, q, ch)
  /\ QueueOK(Len(lay), nx, q, cl, ch, th)

\* The other kernels: a loop, and no queue.
LoopOK(out, ch, th) ==
  /\ ch = << >>
  /\ th["producer"] = "exit" /\ th["consumer"] \in {"run", "exit"}
  /\ th["consumer"] = "exit" => \A i \in DOMAIN out : out[i] # None

TaskOK(kernel, cs, lay, out, nx, q, cl, ch, th, key) ==
  /\ th \in [Side -> States]
  /\ OutputOK(lay, out, key)
  /\ kernel = "ChunkedPipeline" => PipeOK(cs, lay, out, nx, q, cl, ch, th)
  /\ kernel # "ChunkedPipeline" => LoopOK(out, ch, th)
-----------------------------------------------------------------------------
\* A raised point is a point, and never the blank one.
LEMMA RaiseFacts ==
  ASSUME NEW p \in Points, NEW key \in {"ks", "kc"}
  PROVE  /\ Raise(p, key) \in Points /\ Raise(p, key) # None
         /\ Raise(p, key) = [item |-> p.item, keys |-> p.keys \cup {key}]
<1>1. Raise(p, key) = [item |-> p.item, keys |-> p.keys \cup {key}]
  BY DEF Raise, Points
<1>2. p.item \in AllItems /\ p.keys \cup {key} \in SUBSET {"ks", "kc"}
  BY DEF Points
<1>3. Raise(p, key).keys # {}
  BY <1>1
<1>4. None.keys = {}
  BY DEF None, Hash
<1>5. QED
  BY <1>1, <1>2, <1>3, <1>4 DEF Points

\* notify wakes the other side and nothing else.
LEMMA NotifyFacts ==
  ASSUME NEW th \in [Side -> States], NEW side \in Side
  PROVE  /\ Notify(th, side) \in [Side -> States]
         /\ Notify(th, side)[side] = IF th[side] = "sleep" THEN "run" ELSE th[side]
         /\ \A other \in Side : other # side => Notify(th, side)[other] = th[other]
BY DEF Notify, States

\* A sequence without its first element.
LEMMA TailFacts ==
  ASSUME NEW C, NEW q \in Seq(C), q # << >>
  PROVE  /\ Head(q) = q[1] /\ 1 \in 1..Len(q) /\ q[1] \in C
         /\ Tail(q) \in Seq(C) /\ Len(q) \in Nat /\ Len(Tail(q)) = Len(q) - 1
         /\ \A k \in 1..Len(q) - 1 : Tail(q)[k] = q[k + 1]
<1>1. Len(q) \in Nat /\ Len(q) # 0
  BY EmptySeq
<1>2. QED
  BY <1>1, HeadTailProperties
-----------------------------------------------------------------------------
\* A task starts well.
LEMMA FreshOK ==
  ASSUME NEW kernel \in Kernels, NEW cs \in Nat \ {0}, NEW lay \in Seq(Points),
         NEW th, NEW key,
         th = [producer |-> IF kernel = "ChunkedPipeline" THEN "run" ELSE "exit", consumer |-> "run"]
  PROVE  TaskOK(kernel, cs, lay, Blank(lay), 0, << >>, FALSE, << >>, th, key)
<1>1. /\ th \in [Side -> States] /\ th["consumer"] = "run"
      /\ th["producer"] = IF kernel = "ChunkedPipeline" THEN "run" ELSE "exit"
  BY DEF Side, States
<1>2. OutputOK(lay, Blank(lay), key)
  BY DEF OutputOK, Blank
<1>3. LoopOK(Blank(lay), << >>, th) \/ kernel = "ChunkedPipeline"
  BY <1>1 DEF LoopOK
<1>4. << >> \in Seq(Chunks) /\ Len(<< >>) = 0
  OBVIOUS
<1>5. ChunksOK(cs, lay, 0, << >>, << >>)
  BY <1>4 DEF ChunksOK
<1>6. CoverOK(cs, Blank(lay), 0, << >>, << >>)
  <2>1. \A i \in DOMAIN lay : i \in Nat /\ ~(i <= 0) /\ Blank(lay)[i] = None
    BY DEF Blank
  <2>2. \A i : ~Under(cs, << >>, << >>, i)
    BY <1>4 DEF Under
  <2>3. QED
    BY <2>1, <2>2 DEF CoverOK, Blank
<1>7. kernel = "ChunkedPipeline" => QueueOK(Len(lay), 0, << >>, FALSE, << >>, th)
  BY <1>1, <1>4, PipelineAssumption DEF QueueOK
<1>8. QED
  BY <1>1, <1>2, <1>3, <1>5, <1>6, <1>7 DEF TaskOK, PipeOK
-----------------------------------------------------------------------------
\* An iteration of a loop, ...
LEMMA ComputeOK ==
  ASSUME NEW kernel, kernel # "ChunkedPipeline", NEW cs, NEW lay, NEW out, NEW nx, NEW q, NEW cl, NEW ch,
         NEW th, NEW key \in {"ks", "kc"}, TaskOK(kernel, cs, lay, out, nx, q, cl, ch, th, key),
         th["consumer"] = "run", NEW i \in DOMAIN out
  PROVE  TaskOK(kernel, cs, lay, [out EXCEPT ![i] = Raise(lay[i], key)], nx, q, cl, ch, th, key)
<1> DEFINE o == [out EXCEPT ![i] = Raise(lay[i], key)]
<1>1. OutputOK(lay, o, key)
  BY DEF TaskOK, OutputOK
<1>2. LoopOK(o, ch, th)
  BY DEF TaskOK, LoopOK
<1>3. QED
  BY <1>1, <1>2 DEF TaskOK

\* ... its end, ...
LEMMA LoopEndsOK ==
  ASSUME NEW kernel, kernel # "ChunkedPipeline", NEW cs, NEW lay, NEW out, NEW nx, NEW q, NEW cl, NEW ch,
         NEW th, NEW key, TaskOK(kernel, cs, lay, out, nx, q, cl, ch, th, key),
         \A i \in DOMAIN out : out[i] # None
  PROVE  TaskOK(kernel, cs, lay, out, nx, q, cl, ch, [th EXCEPT !["consumer"] = "exit"], key)
BY DEF TaskOK, LoopOK, Side, States

\* ... and the chunk that the producer cuts off next.
LEMMA NextChunk ==
  ASSUME NEW cs \in Nat \ {0}, NEW lay \in Seq(Points), NEW nx \in Nat, nx < Len(lay)
  PROVE  LET size == Min({cs, Len(lay) - nx})
             c == [begin |-> nx, values |-> SubSeq(lay, nx + 1, nx + size)]
         IN  ChunkOK(cs, lay, nx + cs, c)
<1> DEFINE size == Min({cs, Len(lay) - nx})
           v == SubSeq(lay, nx + 1, nx + size)
           c == [begin |-> nx, values |-> v]
<1>1. PICK n \in Nat : n = Len(lay) /\ DOMAIN lay = 1..n
  <2>1. Len(lay) \in Nat /\ DOMAIN lay = 1..Len(lay)
    OBVIOUS
  <2>2. QED
    BY <2>1
<1>2. size = IF cs <= n - nx THEN cs ELSE n - nx
  BY <1>1, MinOfTwo
<1>3. size \in 1..n - nx /\ size \in Nat
  BY <1>1, <1>2
<1> HIDE DEF size
<1>4. \A i \in nx + 1..nx + size : lay[i] \in Points
  BY <1>1, <1>3
<1>5. /\ v \in Seq(Points) /\ Len(v) = size
      /\ \A i \in 1..size : v[i] = lay[nx + i]
  <2>1. PICK a \in Int, b \in Int : a = nx + 1 /\ b = nx + size
    BY <1>3
  <2>2. \A i \in a..b : lay[i] \in Points
    BY <1>4, <2>1
  <2>3. v = SubSeq(lay, a, b)
    BY <2>1
  <2> HIDE DEF v
  <2>4. /\ v \in Seq(Points)
        /\ Len(v) = IF a <= b THEN b - a + 1 ELSE 0
        /\ \A i \in 1..b - a + 1 : v[i] = lay[a + i - 1]
    BY <2>2, <2>3, SubSeqProperties
  <2>5. b - a + 1 = size /\ a <= b
    BY <1>3, <2>1
  <2>6. \A i \in 1..size : v[i] = lay[nx + i]
    <3>1. TAKE i \in 1..size
    <3>2. v[i] = lay[a + i - 1]
      BY <2>4, <2>5
    <3>3. a + i - 1 = nx + i
      BY <2>1
    <3>4. QED
      BY <3>2, <3>3
  <2>7. QED
    BY <2>4, <2>5, <2>6
<1> HIDE DEF v
<1>6. c \in Chunks /\ c.begin = nx /\ c.values = v
  BY <1>5 DEF Chunks
<1> HIDE DEF c
<1>7. \A i \in DOMAIN lay : InChunk(cs, c, i) <=> i \in Span(c)
  BY <1>1, <1>2, <1>3, <1>5, <1>6 DEF InChunk, Span
<1>8. \A i \in Span(c) : i \in DOMAIN lay /\ c.values[i - c.begin] = lay[i]
  <2>1. TAKE i \in Span(c)
  <2>2. i \in nx + 1..nx + size
    BY <1>5, <1>6 DEF Span
  <2>3. i - nx \in 1..size /\ nx + (i - nx) = i
    BY <1>3, <2>2
  <2>4. QED
    BY <1>1, <1>3, <1>5, <1>6, <2>2, <2>3
<1>9. ChunkOK(cs, lay, nx + cs, c)
  BY <1>6, <1>7, <1>8 DEF ChunkOK
<1>10. QED
  BY <1>9 DEF c, v, size

\* push: the chunk goes to the end of the queue, ...
LEMMA PushOK ==
  ASSUME NEW cs \in Nat \ {0}, NEW lay, NEW out, NEW nx, NEW q, NEW cl, NEW ch, NEW th, NEW key,
         TaskOK("ChunkedPipeline", cs, lay, out, nx, q, cl, ch, th, key),
         th["producer"] = "run", nx < Len(lay), Len(q) < Capacity,
         NEW c, c = [begin |-> nx, values |-> SubSeq(lay, nx + 1, nx + Min({cs, Len(lay) - nx}))]
  PROVE  TaskOK("ChunkedPipeline", cs, lay, out, nx + cs, Append(q, c), cl, ch, Notify(th, "consumer"), key)
<1> DEFINE r == Append(q, c)
           t2 == Notify(th, "consumer")
<1>1. /\ OutputOK(lay, out, key) /\ ChunksOK(cs, lay, nx, q, ch) /\ CoverOK(cs, out, nx, q, ch)
      /\ QueueOK(Len(lay), nx, q, cl, ch, th) /\ th \in [Side -> States]
  BY DEF TaskOK, PipeOK
<1>2. lay \in Seq(Points) /\ nx \in Nat /\ q \in Seq(Chunks) /\ DOMAIN out = DOMAIN lay
  BY <1>1 DEF OutputOK, ChunksOK
<1>3. ChunkOK(cs, lay, nx + cs, c) /\ c \in Chunks /\ c.begin = nx
  <2>1. ChunkOK(cs, lay, nx + cs,
                [begin |-> nx, values |-> SubSeq(lay, nx + 1, nx + Min({cs, Len(lay) - nx}))])
    BY <1>2, NextChunk
  <2>2. ChunkOK(cs, lay, nx + cs, c)
    BY <2>1, Zenon
  <2>3. QED
    BY <2>2 DEF ChunkOK
<1>4. PICK m \in Nat : m = Len(q)
  BY <1>2
<1>5. /\ r \in Seq(Chunks) /\ Len(r) = m + 1 /\ r[m + 1] = c
      /\ \A k \in 1..m : r[k] = q[k]
  BY <1>2, <1>3, <1>4
<1> HIDE DEF r
<1>6. \A d : ChunkOK(cs, lay, nx, d) => ChunkOK(cs, lay, nx + cs, d)
  BY <1>2 DEF ChunkOK, Chunks
<1>7. \A d : ChunkOK(cs, lay, nx, d) => d.begin + cs <= c.begin
  BY <1>3 DEF ChunkOK
<1>8. ChunksOK(cs, lay, nx + cs, r, ch)
  <2>1. \A k \in 1..m + 1 : ChunkOK(cs, lay, nx + cs, r[k])
    <3>1. TAKE k \in 1..m + 1
    <3>2. CASE k = m + 1
      BY <1>3, <1>5, <3>2
    <3>3. CASE k \in 1..m
      BY <1>1, <1>4, <1>5, <1>6, <3>3 DEF ChunksOK
    <3>4. QED
      BY <3>2, <3>3
  <2>2. \A j, k \in 1..m + 1 : j < k => r[j].begin + cs <= r[k].begin
    <3>1. SUFFICES ASSUME NEW j \in 1..m + 1, NEW k \in 1..m + 1, j < k
                   PROVE  r[j].begin + cs <= r[k].begin
      OBVIOUS
    <3>2. j \in 1..m /\ ChunkOK(cs, lay, nx, q[j]) /\ r[j] = q[j]
      BY <1>1, <1>4, <1>5, <3>1 DEF ChunksOK
    <3>3. CASE k = m + 1
      BY <1>5, <1>7, <3>2, <3>3
    <3>4. CASE k \in 1..m
      BY <1>1, <1>4, <1>5, <3>1, <3>2, <3>4 DEF ChunksOK
    <3>5. QED
      BY <3>3, <3>4
  <2>3. ASSUME NEW d, ch = <<d>>, ChunkOK(cs, lay, nx, d), \A k \in 1..m : d.begin + cs <= q[k].begin
        PROVE  ChunkOK(cs, lay, nx + cs, d) /\ \A k \in 1..m + 1 : d.begin + cs <= r[k].begin
    <3>1. \A k \in 1..m + 1 : k = m + 1 \/ k \in 1..m
      OBVIOUS
    <3>2. QED
      BY <1>5, <1>6, <1>7, <2>3, <3>1
  <2>4. nx + cs \in Nat
    BY <1>2
  <2>5. QED
    BY <1>1, <1>4, <1>5, <2>1, <2>2, <2>3, <2>4 DEF ChunksOK
<1>9. CoverOK(cs, out, nx + cs, r, ch)
  <2> SUFFICES ASSUME NEW i \in DOMAIN out
               PROVE  /\ Under(cs, r, ch, i) => i <= nx + cs /\ out[i] = None
                      /\ i <= nx + cs /\ out[i] = None => Under(cs, r, ch, i)
                      /\ out[i] # None => i <= nx + cs
    BY DEF CoverOK
  <2>1. i \in Nat
    BY <1>2
  <2>2. /\ Under(cs, q, ch, i) => i <= nx /\ out[i] = None
        /\ i <= nx /\ out[i] = None => Under(cs, q, ch, i)
        /\ out[i] # None => i <= nx
    BY <1>1 DEF CoverOK
  <2>3. Under(cs, r, ch, i) <=> Under(cs, q, ch, i) \/ InChunk(cs, c, i)
    <3>1. \A k \in 1..m + 1 : k = m + 1 \/ k \in 1..m
      OBVIOUS
    <3>2. (\E k \in 1..m + 1 : InChunk(cs, r[k], i)) <=> (\E k \in 1..m : InChunk(cs, q[k], i)) \/ InChunk(cs, c, i)
      BY <1>5, <3>1
    <3>3. QED
      BY <1>4, <1>5, <3>2 DEF Under
  <2>4. InChunk(cs, c, i) <=> nx < i /\ i <= nx + cs
    BY <1>3 DEF InChunk
  <2>5. QED
    BY <1>2, <2>1, <2>2, <2>3, <2>4
<1>10. QueueOK(Len(lay), nx + cs, r, cl, ch, t2)
  <2>1. /\ t2["consumer"] = IF th["consumer"] = "sleep" THEN "run" ELSE th["consumer"]
        /\ t2["producer"] = "run"
    BY <1>1, NotifyFacts DEF Side
  <2>2. m + 1 <= Capacity /\ ~cl
    BY <1>1, <1>4, PipelineAssumption DEF QueueOK
  <2>3. t2["consumer"] # "exit" /\ t2["consumer"] # "sleep"
    BY <1>1, <2>1, <2>2 DEF QueueOK
  <2>4. QED
    BY <1>1, <1>5, <2>1, <2>2, <2>3 DEF QueueOK
<1>11. t2 \in [Side -> States]
  BY <1>1, NotifyFacts DEF Side
<1>12. QED
  BY <1>1, <1>8, <1>9, <1>10, <1>11 DEF TaskOK, PipeOK, r

\* ... unless the queue is full: then the producer sleeps.
LEMMA PushSleepsOK ==
  ASSUME NEW cs, NEW lay, NEW out, NEW nx, NEW q, NEW cl, NEW ch, NEW th, NEW key,
         TaskOK("ChunkedPipeline", cs, lay, out, nx, q, cl, ch, th, key),
         th["producer"] = "run", ~(Len(q) < Capacity)
  PROVE  TaskOK("ChunkedPipeline", cs, lay, out, nx, q, cl, ch, [th EXCEPT !["producer"] = "sleep"], key)
<1> DEFINE t2 == [th EXCEPT !["producer"] = "sleep"]
<1>1. /\ ChunksOK(cs, lay, nx, q, ch) /\ QueueOK(Len(lay), nx, q, cl, ch, th) /\ th \in [Side -> States]
      /\ CoverOK(cs, out, nx, q, ch) /\ OutputOK(lay, out, key)
  BY DEF TaskOK, PipeOK
<1>2. t2 \in [Side -> States] /\ t2["producer"] = "sleep" /\ t2["consumer"] = th["consumer"]
  BY <1>1 DEF Side, States
<1>3. Len(q) \in Nat /\ Len(q) >= Capacity
  BY <1>1, PipelineAssumption DEF ChunksOK
<1> HIDE DEF t2
<1>4. QueueOK(Len(lay), nx, q, cl, ch, t2)
  BY <1>1, <1>2, <1>3 DEF QueueOK
<1>5. TaskOK("ChunkedPipeline", cs, lay, out, nx, q, cl, ch, t2, key)
  BY <1>1, <1>2, <1>4 DEF TaskOK, PipeOK
<1>6. QED
  BY <1>5 DEF t2

\* close() wakes a consumer that sleeps.
LEMMA CloseOK ==
  ASSUME NEW cs, NEW lay, NEW out, NEW nx, NEW q, NEW cl, NEW ch, NEW th, NEW key,
         TaskOK("ChunkedPipeline", cs, lay, out, nx, q, cl, ch, th, key),
         th["producer"] = "run", nx >= Len(lay)
  PROVE  TaskOK("ChunkedPipeline", cs, lay, out, nx, q, TRUE, ch,
                Notify([th EXCEPT !["producer"] = "exit"], "consumer"), key)
<1> DEFINE t1 == [th EXCEPT !["producer"] = "exit"]
           t2 == Notify(t1, "consumer")
<1>1. /\ ChunksOK(cs, lay, nx, q, ch) /\ QueueOK(Len(lay), nx, q, cl, ch, th) /\ th \in [Side -> States]
      /\ CoverOK(cs, out, nx, q, ch) /\ OutputOK(lay, out, key)
  BY DEF TaskOK, PipeOK
<1>2. t1 \in [Side -> States] /\ t1["producer"] = "exit" /\ t1["consumer"] = th["consumer"]
  BY <1>1 DEF Side, States
<1> HIDE DEF t1
<1>3. /\ t2 \in [Side -> States] /\ t2["producer"] = "exit"
      /\ t2["consumer"] = IF th["consumer"] = "sleep" THEN "run" ELSE th["consumer"]
  BY <1>2, NotifyFacts DEF Side
<1> HIDE DEF t2
<1>4. QueueOK(Len(lay), nx, q, TRUE, ch, t2)
  BY <1>1, <1>3 DEF QueueOK
<1>5. TaskOK("ChunkedPipeline", cs, lay, out, nx, q, TRUE, ch, t2, key)
  BY <1>1, <1>3, <1>4 DEF TaskOK, PipeOK
<1>6. QED
  BY <1>5 DEF t1, t2

\* pop: the consumer takes the head of the queue, ...
LEMMA PopTakesOK ==
  ASSUME NEW cs \in Nat \ {0}, NEW lay, NEW out, NEW nx, NEW q, NEW cl, NEW th, NEW key,
         TaskOK("ChunkedPipeline", cs, lay, out, nx, q, cl, << >>, th, key),
         th["consumer"] = "run", q # << >>
  PROVE  TaskOK("ChunkedPipeline", cs, lay, out, nx, Tail(q), cl, << Head(q) >>, Notify(th, "producer"), key)
<1>1. /\ ChunksOK(cs, lay, nx, q, << >>) /\ QueueOK(Len(lay), nx, q, cl, << >>, th) /\ th \in [Side -> States]
      /\ CoverOK(cs, out, nx, q, << >>) /\ OutputOK(lay, out, key)
  BY DEF TaskOK, PipeOK
<1>2. q \in Seq(Chunks) /\ nx \in Nat
  BY <1>1 DEF ChunksOK
<1>3. PICK r, c, m : r = Tail(q) /\ c = Head(q) /\ m = Len(r)
  OBVIOUS
<1>4. /\ r \in Seq(Chunks) /\ m \in Nat /\ Len(q) = m + 1 /\ c = q[1] /\ c \in Chunks
      /\ \A k \in 1..m : r[k] = q[k + 1]
  BY <1>2, <1>3, TailFacts
<1>5. ChunksOK(cs, lay, nx, r, <<c>>)
  <2>1. \A k \in 1..m : k + 1 \in 1..m + 1 /\ 1 \in 1..m + 1 /\ 1 < k + 1
    BY <1>4
  <2>2. /\ \A k \in 1..m + 1 : ChunkOK(cs, lay, nx, q[k])
        /\ \A j, k \in 1..m + 1 : j < k => q[j].begin + cs <= q[k].begin
    BY <1>1, <1>4 DEF ChunksOK
  <2>3. \A k \in 1..m : ChunkOK(cs, lay, nx, r[k]) /\ c.begin + cs <= r[k].begin
    BY <1>4, <2>1, <2>2
  <2>4. \A j, k \in 1..m : j < k => r[j].begin + cs <= r[k].begin
    <3>1. SUFFICES ASSUME NEW j \in 1..m, NEW k \in 1..m, j < k
                   PROVE  r[j].begin + cs <= r[k].begin
      OBVIOUS
    <3>2. j + 1 < k + 1
      BY <3>1
    <3>3. QED
      BY <1>4, <2>1, <2>2, <3>2
  <2>5. ChunkOK(cs, lay, nx, c)
    <3>1. 1 \in 1..m + 1
      BY <1>4
    <3>2. QED
      BY <1>4, <2>2, <3>1
  <2>6. QED
    BY <1>2, <1>3, <1>4, <2>3, <2>4, <2>5 DEF ChunksOK
<1>6. ASSUME NEW i
      PROVE  Under(cs, r, <<c>>, i) <=> Under(cs, q, << >>, i)
  <2>1. \A k \in 1..m + 1 : k = 1 \/ (k - 1 \in 1..m /\ (k - 1) + 1 = k)
    BY <1>4
  <2>2. \A k \in 1..m : k + 1 \in 1..m + 1
    BY <1>4
  <2>3. 1 \in 1..m + 1
    BY <1>4
  <2>4. ((\E k \in 1..m : InChunk(cs, r[k], i)) \/ InChunk(cs, c, i)) <=> \E k \in 1..m + 1 : InChunk(cs, q[k], i)
    <3> DEFINE P(d) == InChunk(cs, d, i)
    <3> HIDE DEF P
    <3>1. ((\E k \in 1..m : P(r[k])) \/ P(c)) <=> \E k \in 1..m + 1 : P(q[k])
      <4>1. P(c) => P(q[1])
        BY <1>4
      <4>2. \A k \in 1..m : P(r[k]) => P(q[k + 1])
        BY <1>4
      <4>3. \A k \in 1..m + 1 : P(q[k]) => (\E j \in 1..m : P(r[j])) \/ P(c)
        <5>1. SUFFICES ASSUME NEW k \in 1..m + 1, P(q[k])
                       PROVE  (\E j \in 1..m : P(r[j])) \/ P(c)
          OBVIOUS
        <5>2. CASE k = 1
          BY <1>4, <5>1, <5>2
        <5>3. CASE k # 1
          <6>1. k - 1 \in 1..m /\ (k - 1) + 1 = k
            BY <2>1, <5>3
          <6>2. r[k - 1] = q[k]
            BY <1>4, <6>1
          <6>3. QED
            BY <5>1, <6>1, <6>2
        <5>4. QED
          BY <5>2, <5>3
      <4>4. QED
        BY <2>2, <2>3, <4>1, <4>2, <4>3
    <3>2. QED
      BY <3>1 DEF P
  <2>5. <<c>> # << >> /\ <<c>>[1] = c
    OBVIOUS
  <2>6. QED
    BY <1>3, <1>4, <2>4, <2>5 DEF Under
<1>7. CoverOK(cs, out, nx, r, <<c>>)
  BY <1>1, <1>6, Zenon DEF CoverOK
<1>8. /\ Notify(th, "producer") \in [Side -> States]
      /\ Notify(th, "producer")["consumer"] = "run"
      /\ Notify(th, "producer")["producer"] = IF th["producer"] = "sleep" THEN "run" ELSE th["producer"]
  BY <1>1, NotifyFacts DEF Side
<1>9. QueueOK(Len(lay), nx, r, cl, <<c>>, Notify(th, "producer"))
  <2>1. m <= Capacity
    BY <1>1, <1>4, PipelineAssumption DEF QueueOK
  <2> DEFINE t2 == Notify(th, "producer")
  <2>2. t2["consumer"] = "run" /\ t2["producer"] # "sleep" /\ (t2["producer"] = "exit" <=> th["producer"] = "exit")
    BY <1>8
  <2> HIDE DEF t2
  <2>3. QueueOK(Len(lay), nx, r, cl, <<c>>, t2)
    BY <1>1, <1>3, <2>1, <2>2 DEF QueueOK
  <2>4. QED
    BY <2>3 DEF t2
<1>10. QED
  BY <1>1, <1>3, <1>5, <1>7, <1>8, <1>9 DEF TaskOK, PipeOK

\* ... or leaves when it is empty for good, ...
LEMMA PopLeavesOK ==
  ASSUME NEW cs, NEW lay, NEW out, NEW nx, NEW cl, NEW th, NEW key,
         TaskOK("ChunkedPipeline", cs, lay, out, nx, << >>, cl, << >>, th, key), cl
  PROVE  TaskOK("ChunkedPipeline", cs, lay, out, nx, << >>, cl, << >>, [th EXCEPT !["consumer"] = "exit"], key)
BY DEF TaskOK, PipeOK, QueueOK, Side, States

\* ... or sleeps until something comes.
LEMMA PopSleepsOK ==
  ASSUME NEW cs, NEW lay, NEW out, NEW nx, NEW cl, NEW th, NEW key,
         TaskOK("ChunkedPipeline", cs, lay, out, nx, << >>, cl, << >>, th, key), ~cl
  PROVE  TaskOK("ChunkedPipeline", cs, lay, out, nx, << >>, cl, << >>, [th EXCEPT !["consumer"] = "sleep"], key)
BY DEF TaskOK, PipeOK, QueueOK, Side, States

\* A sleeper may wake for no reason: it tests again.
LEMMA WakeUpOK ==
  ASSUME NEW kernel, NEW cs, NEW lay, NEW out, NEW nx, NEW q, NEW cl, NEW ch, NEW th, NEW key,
         TaskOK(kernel, cs, lay, out, nx, q, cl, ch, th, key), NEW side \in Side, th[side] = "sleep"
  PROVE  TaskOK(kernel, cs, lay, out, nx, q, cl, ch, [th EXCEPT ![side] = "run"], key)
<1> DEFINE t2 == [th EXCEPT ![side] = "run"]
<1>1. t2 \in [Side -> States] /\ t2[side] = "run" /\ \A other \in Side : other # side => t2[other] = th[other]
  BY DEF TaskOK, Side, States
<1>2. kernel = "ChunkedPipeline"
  BY DEF TaskOK, LoopOK, Side
<1>3. QueueOK(Len(lay), nx, q, cl, ch, th)
  BY <1>2 DEF TaskOK, PipeOK
<1> HIDE DEF t2
<1>4. QueueOK(Len(lay), nx, q, cl, ch, t2)
  BY <1>1, <1>3 DEF QueueOK, Side
<1>5. TaskOK(kernel, cs, lay, out, nx, q, cl, ch, t2, key)
  BY <1>1, <1>2, <1>4 DEF TaskOK, PipeOK
<1>6. QED
  BY <1>5 DEF t2

\* The points once the consumer has raised chunk c.
Raised(out, c, key) ==
  [i \in DOMAIN out |-> IF i \in Span(c) THEN Raise(c.values[i - c.begin], key) ELSE out[i]]

\* The consumer raises its chunk, and no position of another one.
LEMMA ConsumeOK ==
  ASSUME NEW kernel, NEW cs \in Nat \ {0}, NEW lay, NEW out, NEW nx, NEW q, NEW cl, NEW ch, NEW th,
         NEW key \in {"ks", "kc"},
         TaskOK(kernel, cs, lay, out, nx, q, cl, ch, th, key), ch # << >>,
         NEW o, o = Raised(out, ch[1], key)
  PROVE  TaskOK(kernel, cs, lay, o, nx, q, cl, << >>, th, key)
<1>1. kernel = "ChunkedPipeline"
  BY DEF TaskOK, LoopOK
<1>2. /\ ChunksOK(cs, lay, nx, q, ch) /\ QueueOK(Len(lay), nx, q, cl, ch, th) /\ th \in [Side -> States]
      /\ CoverOK(cs, out, nx, q, ch) /\ OutputOK(lay, out, key)
  BY <1>1 DEF TaskOK, PipeOK
<1>3. PICK c : /\ ch = <<c>> /\ ChunkOK(cs, lay, nx, c)
               /\ \A k \in 1..Len(q) : c.begin + cs <= q[k].begin
  BY <1>2 DEF ChunksOK
<1>4. /\ o = [i \in DOMAIN out |-> IF i \in Span(c) THEN Raise(c.values[i - c.begin], key) ELSE out[i]]
      /\ ch[1] = c
  BY <1>3 DEF Raised
<1>5. /\ DOMAIN o = DOMAIN lay /\ o = [i \in DOMAIN lay |-> o[i]] /\ DOMAIN out = DOMAIN lay
      /\ DOMAIN lay \subseteq Nat /\ nx \in Nat
  BY <1>2, <1>4 DEF OutputOK, ChunksOK
<1>6. \A i \in DOMAIN lay : o[i] = IF InChunk(cs, c, i) THEN Raise(lay[i], key) ELSE out[i]
  BY <1>3, <1>4, <1>5 DEF ChunkOK
<1>7. \A i \in DOMAIN lay : lay[i] \in Points /\ Raise(lay[i], key) # None
  BY <1>2, RaiseFacts DEF OutputOK
<1>8. OutputOK(lay, o, key)
  BY <1>2, <1>5, <1>6 DEF OutputOK
<1>9. ChunksOK(cs, lay, nx, q, << >>)
  BY <1>2 DEF ChunksOK
<1>10. c \in Chunks /\ c.begin \in Nat /\ c.begin + cs <= nx
  BY <1>3 DEF ChunkOK, Chunks
<1>11. CoverOK(cs, o, nx, q, << >>)
  <2> SUFFICES ASSUME NEW i \in DOMAIN o
               PROVE  /\ Under(cs, q, << >>, i) => i <= nx /\ o[i] = None
                      /\ i <= nx /\ o[i] = None => Under(cs, q, << >>, i)
                      /\ o[i] # None => i <= nx
    BY DEF CoverOK
  <2>1. i \in DOMAIN lay /\ i \in DOMAIN out /\ i \in Nat
    BY <1>5
  <2>2. /\ Under(cs, q, ch, i) => i <= nx /\ out[i] = None
        /\ i <= nx /\ out[i] = None => Under(cs, q, ch, i)
        /\ out[i] # None => i <= nx
    BY <1>2, <2>1 DEF CoverOK
  <2>3. Under(cs, q, ch, i) <=> Under(cs, q, << >>, i) \/ InChunk(cs, c, i)
    BY <1>3, <1>4 DEF Under
  <2>4. CASE InChunk(cs, c, i)
    <3>1. i <= c.begin + cs
      BY <2>4 DEF InChunk
    <3>2. \A k \in 1..Len(q) : ~InChunk(cs, q[k], i)
      <4>1. SUFFICES ASSUME NEW k \in 1..Len(q), q[k].begin < i PROVE FALSE
        BY DEF InChunk
      <4>2. q[k].begin \in Nat /\ c.begin + cs <= q[k].begin
        <5>1. q[k] \in Chunks
          BY <1>2 DEF ChunksOK
        <5>2. QED
          BY <1>3, <5>1 DEF Chunks
      <4>3. QED
        BY <1>10, <2>1, <3>1, <4>1, <4>2
    <3>3. ~Under(cs, q, << >>, i)
      BY <3>2 DEF Under
    <3>4. i <= nx
      BY <1>5, <1>10, <2>1, <3>1
    <3>5. o[i] # None
      BY <1>6, <1>7, <2>1, <2>4
    <3>6. QED
      BY <3>3, <3>4, <3>5
  <2>5. CASE ~InChunk(cs, c, i)
    <3>1. o[i] = out[i]
      BY <1>6, <2>1, <2>5
    <3>2. QED
      BY <2>2, <2>3, <2>5, <3>1
  <2>6. QED
    BY <2>4, <2>5
<1>12. QueueOK(Len(lay), nx, q, cl, << >>, th)
  BY <1>2 DEF QueueOK
<1>13. QED
  BY <1>1, <1>2, <1>8, <1>9, <1>11, <1>12 DEF TaskOK, PipeOK
-----------------------------------------------------------------------------
(***************************************************************************)
(* The state as a whole.                                                   *)
(***************************************************************************)
Other(t) == IF t = "server" THEN "client" ELSE "server"
Input(t) == IF t = "server" THEN param.server ELSE param.client
SecondLayer(t) == [i \in DOMAIN Input(Other(t)) |-> Raise(Hash(Input(Other(t))[i]), Key(Other(t)))]

\* What run() is given stays as it was.
ParamInv ==
  /\ param.server \in ServerInputs /\ param.client \in ClientInputs
  /\ param.kernel \in Kernels /\ param.chunk_size \in ChunkSizes
  /\ param.stray \subseteq ToSet(param.client) \ ToSet(param.server)

\* A stage starts from the hashed inputs or from the other side's points.
LayerInv == layer = [t \in Tasks |-> IF stage = "first" THEN HashAll(Input(t)) ELSE SecondLayer(t)]

PerTask ==
  /\ output = [t \in Tasks |-> output[t]] /\ thread = [t \in Tasks |-> thread[t]]
  /\ next = [t \in Tasks |-> next[t]] /\ queue = [t \in Tasks |-> queue[t]]
  /\ closed = [t \in Tasks |-> closed[t]] /\ chunk = [t \in Tasks |-> chunk[t]]

TaskInv(t) ==
  TaskOK(param.kernel, param.chunk_size, layer[t], output[t], next[t], queue[t], closed[t], chunk[t],
         thread[t], Key(t))

\* The inductive invariant.
PipelineInv ==
  /\ ParamInv /\ LayerInv /\ PerTask
  /\ \A t \in Tasks : TaskInv(t)
  /\ MatchesExact

\* The inputs are lists of items, no item twice, and so are the points.
LEMMA InputFacts ==
  ASSUME ParamInv
  PROVE  /\ \A t \in Tasks : /\ Input(t) \in Seq(AllItems) /\ IsInjective(Input(t))
                             /\ DOMAIN Input(t) = 1..Len(Input(t)) /\ Len(Input(t)) \in Nat
                             /\ HashAll(Input(t)) \in Seq(Points)
                             /\ SecondLayer(t) \in Seq(Points)
         /\ param.chunk_size \in Nat \ {0} /\ param.kernel \in Kernels
         /\ \A t \in Tasks : Key(t) \in {"ks", "kc"} /\ Other(t) \in Tasks /\ Other(t) # t
                             /\ Key(Other(t)) # Key(t) /\ Other(Other(t)) = t
<1>1. \A t \in Tasks : Input(t) \in ServerInputs \cup ClientInputs
  BY DEF ParamInv, Tasks, Input
<1>2. ASSUME NEW s \in ServerInputs \cup ClientInputs
      PROVE  s \in Seq(AllItems) /\ IsInjective(s) /\ DOMAIN s = 1..Len(s) /\ Len(s) \in Nat
  <2>1. s \in Seq(ToSet(s)) /\ IsInjective(s)
    BY PipelineAssumption
  <2>2. DOMAIN s = 1..Len(s) /\ Len(s) \in Nat
    BY <2>1
  <2>3. ToSet(s) \subseteq AllItems
    BY DEF AllItems
  <2>4. s \in [1..Len(s) -> AllItems]
    BY <2>1, <2>2, <2>3
  <2>5. QED
    BY <2>1, <2>2, <2>4
<1>3. \A item \in AllItems : Hash(item) \in Points
  BY DEF Hash, Points
<1>4. \A t \in Tasks : Key(t) \in {"ks", "kc"} /\ Other(t) \in Tasks /\ Other(t) # t
                       /\ Key(Other(t)) # Key(t) /\ Other(Other(t)) = t
  BY DEF Key, Other, Tasks
<1>5. param.chunk_size \in Nat \ {0} /\ param.kernel \in Kernels
  BY PipelineAssumption DEF ParamInv
<1>6. ASSUME NEW t \in Tasks
      PROVE  HashAll(Input(t)) \in Seq(Points) /\ SecondLayer(t) \in Seq(Points)
  <2>1. PICK s : s = Input(t) /\ s \in Seq(AllItems)
    BY <1>1, <1>2
  <2>2. PICK u : u = Input(Other(t)) /\ u \in Seq(AllItems)
    BY <1>1, <1>2, <1>4
  <2>3. PICK k \in {"ks", "kc"} : k = Key(Other(t))
    BY <1>4
  <2>4. \A i \in DOMAIN s : Hash(s[i]) \in Points
    BY <1>3, <2>1
  <2>5. \A i \in DOMAIN u : Raise(Hash(u[i]), k) \in Points
    BY <1>3, <2>2, RaiseFacts
  <2>6. HashAll(s) \in Seq(Points)
    BY <2>1, <2>4 DEF HashAll
  <2>7. [i \in DOMAIN u |-> Raise(Hash(u[i]), k)] \in Seq(Points)
    BY <2>2, <2>5
  <2>8. QED
    BY <2>1, <2>2, <2>3, <2>6, <2>7 DEF SecondLayer
<1>7. QED
  BY <1>1, <1>2, <1>4, <1>5, <1>6

\* Tasks that start fresh are well.
LEMMA AllFresh ==
  ASSUME ParamInv, NEW layers, \A t \in Tasks : layers[t] \in Seq(Points),
         NEW t \in Tasks
  PROVE  TaskOK(param.kernel, param.chunk_size, layers[t], Blank(layers[t]), 0, << >>, FALSE, << >>,
                Fresh, Key(t))
<1>1. PICK kernel, cs, lay, th, key :
        /\ kernel = param.kernel /\ cs = param.chunk_size /\ lay = layers[t] /\ th = Fresh /\ key = Key(t)
  OBVIOUS
<1>2. /\ kernel \in Kernels /\ cs \in Nat \ {0} /\ lay \in Seq(Points)
      /\ th = [producer |-> IF kernel = "ChunkedPipeline" THEN "run" ELSE "exit", consumer |-> "run"]
  BY <1>1, InputFacts DEF Fresh
<1>3. TaskOK(kernel, cs, lay, Blank(lay), 0, << >>, FALSE, << >>, th, key)
  BY <1>2, FreshOK
<1>4. QED
  BY <1>1, <1>3

LEMMA InitInv == Init => PipelineInv
<1> SUFFICES ASSUME Init PROVE PipelineInv
  OBVIOUS
<1>1. ParamInv
  BY DEF Init, ParamInv
<1>2. /\ stage = "first" /\ layer = [t \in Tasks |-> HashAll(Input(t))]
      /\ output = [t \in Tasks |-> Blank(layer[t])]
      /\ next = [t \in Tasks |-> 0] /\ queue = [t \in Tasks |-> << >>]
      /\ closed = [t \in Tasks |-> FALSE] /\ chunk = [t \in Tasks |-> << >>]
      /\ thread = [t \in Tasks |-> Fresh]
  BY DEF Init, Input
<1>3. LayerInv
  BY <1>2 DEF LayerInv
<1>4. \A t \in Tasks : layer[t] \in Seq(Points)
  BY <1>1, <1>2, InputFacts
<1>5. PerTask
  BY <1>2 DEF PerTask
<1>6. ASSUME NEW t \in Tasks PROVE TaskInv(t)
  <2>1. TaskOK(param.kernel, param.chunk_size, layer[t], Blank(layer[t]), 0, << >>, FALSE, << >>, Fresh, Key(t))
    BY <1>1, <1>4, AllFresh
  <2>2. /\ output[t] = Blank(layer[t]) /\ next[t] = 0 /\ queue[t] = << >> /\ closed[t] = FALSE
        /\ chunk[t] = << >> /\ thread[t] = Fresh
    BY <1>2
  <2>3. QED
    BY <2>1, <2>2 DEF TaskInv
<1>7. MatchesExact
  BY <1>2 DEF MatchesExact
<1>8. QED
  BY <1>1, <1>3, <1>5, <1>6, <1>7 DEF PipelineInv

\* A step that changes one task's part of the state.
Becomes(t, o, n, q, cl, ch, th) ==
  /\ UNCHANGED <<param, stage, layer, matches>>
  /\ output' = [output EXCEPT ![t] = o] /\ next' = [next EXCEPT ![t] = n]
  /\ queue' = [queue EXCEPT ![t] = q] /\ closed' = [closed EXCEPT ![t] = cl]
  /\ chunk' = [chunk EXCEPT ![t] = ch] /\ thread' = [thread EXCEPT ![t] = th]

\* A step of one task leaves the other's part of the state alone.
LEMMA OneTask ==
  ASSUME PipelineInv, NEW t \in Tasks,
         NEW o, NEW n, NEW q, NEW cl, NEW ch, NEW th, Becomes(t, o, n, q, cl, ch, th),
         TaskOK(param.kernel, param.chunk_size, layer[t], o, n, q, cl, ch, th, Key(t))
  PROVE  PipelineInv'
<1> USE DEF Becomes
<1>1. ParamInv' /\ MatchesExact'
  BY DEF PipelineInv, ParamInv, MatchesExact
<1>2. LayerInv'
  <2>1. LayerInv
    BY DEF PipelineInv
  <2>2. \A u \in Tasks : HashAll(Input(u))' = HashAll(Input(u)) /\ SecondLayer(u)' = SecondLayer(u)
    BY DEF HashAll, SecondLayer, Input
  <2>3. QED
    BY <2>1, <2>2 DEF LayerInv
<1>3. PerTask
  BY DEF PipelineInv
<1>4. PerTask'
  BY <1>3 DEF PerTask
<1>5. /\ output'[t] = o /\ next'[t] = n /\ queue'[t] = q /\ closed'[t] = cl /\ chunk'[t] = ch
      /\ thread'[t] = th
  BY <1>3 DEF PerTask
<1>6. TaskInv(t)'
  BY <1>5 DEF TaskInv, Key
<1>7. ASSUME NEW u \in Tasks, u # t PROVE TaskInv(u)'
  <2>1. /\ output'[u] = output[u] /\ next'[u] = next[u] /\ queue'[u] = queue[u]
        /\ closed'[u] = closed[u] /\ chunk'[u] = chunk[u] /\ thread'[u] = thread[u]
    BY <1>3, <1>7 DEF PerTask
  <2>2. TaskInv(u)
    BY DEF PipelineInv
  <2>3. QED
    BY <2>1, <2>2 DEF TaskInv, Key
<1>8. QED
  BY <1>1, <1>2, <1>4, <1>6, <1>7 DEF PipelineInv

\* A component that a step leaves alone is what it was, for each task.
LEMMA Alone ==
  ASSUME PerTask, NEW t \in Tasks
  PROVE  /\ output = [output EXCEPT ![t] = output[t]] /\ next = [next EXCEPT ![t] = next[t]]
         /\ queue = [queue EXCEPT ![t] = queue[t]] /\ closed = [closed EXCEPT ![t] = closed[t]]
         /\ chunk = [chunk EXCEPT ![t] = chunk[t]] /\ thread = [thread EXCEPT ![t] = thread[t]]
BY DEF PerTask
-----------------------------------------------------------------------------
(***************************************************************************)
(* Each step of a task: its own part of the state changes as the lemmas    *)
(* above say.                                                              *)
(***************************************************************************)
\* One iteration of a loop.
LEMMA ComputeOneStep ==
  ASSUME PipelineInv, NEW t \in Tasks, NEW i \in DOMAIN output[t], ComputeOne(t, i)
  PROVE  PipelineInv'
<1>1. PICK kernel, cs, lay, out, nx, q, cl, ch, th, key :
        /\ kernel = param.kernel /\ cs = param.chunk_size /\ lay = layer[t] /\ out = output[t]
        /\ nx = next[t] /\ q = queue[t] /\ cl = closed[t] /\ ch = chunk[t] /\ th = thread[t] /\ key = Key(t)
  OBVIOUS
<1>2. /\ TaskOK(kernel, cs, lay, out, nx, q, cl, ch, th, key)
      /\ kernel \in Kernels /\ cs \in Nat \ {0} /\ key \in {"ks", "kc"} /\ th \in [Side -> States]
  BY <1>1, InputFacts DEF PipelineInv, TaskInv, TaskOK
<1>3. /\ output = [output EXCEPT ![t] = out] /\ next = [next EXCEPT ![t] = nx]
      /\ queue = [queue EXCEPT ![t] = q] /\ closed = [closed EXCEPT ![t] = cl]
      /\ chunk = [chunk EXCEPT ![t] = ch] /\ thread = [thread EXCEPT ![t] = th]
  BY <1>1, Alone DEF PipelineInv
<1>4. (th["producer"] # "exit" \/ ch # << >>) => kernel = "ChunkedPipeline"
  BY <1>2 DEF TaskOK, LoopOK
<1>5. kernel # "ChunkedPipeline" /\ th["consumer"] = "run" /\ i \in DOMAIN out
  BY <1>1 DEF ComputeOne
<1>6. PICK o : o = [out EXCEPT ![i] = Raise(lay[i], key)]
  OBVIOUS
<1>7. TaskOK(kernel, cs, lay, o, nx, q, cl, ch, th, key)
  <2>1. TaskOK(kernel, cs, lay, [out EXCEPT ![i] = Raise(lay[i], key)], nx, q, cl, ch, th, key)
    BY <1>2, <1>5, ComputeOK
  <2>2. QED
    BY <1>6, <2>1, Zenon
<1>8. output' = [output EXCEPT ![t] = o]
  BY <1>1, <1>6 DEF ComputeOne
<1>9. UNCHANGED <<param, stage, layer, next, queue, closed, chunk, thread, matches>>
  BY DEF ComputeOne, pipes
<1>10. Becomes(t, o, nx, q, cl, ch, th)
  BY <1>3, <1>8, <1>9 DEF Becomes
<1>11. QED
  BY <1>1, <1>7, <1>10, OneTask

\* The end of a loop.
LEMMA LoopEndsStep ==
  ASSUME PipelineInv, NEW t \in Tasks, LoopEnds(t)
  PROVE  PipelineInv'
<1>1. PICK kernel, cs, lay, out, nx, q, cl, ch, th, key :
        /\ kernel = param.kernel /\ cs = param.chunk_size /\ lay = layer[t] /\ out = output[t]
        /\ nx = next[t] /\ q = queue[t] /\ cl = closed[t] /\ ch = chunk[t] /\ th = thread[t] /\ key = Key(t)
  OBVIOUS
<1>2. /\ TaskOK(kernel, cs, lay, out, nx, q, cl, ch, th, key)
      /\ kernel \in Kernels /\ cs \in Nat \ {0} /\ key \in {"ks", "kc"} /\ th \in [Side -> States]
  BY <1>1, InputFacts DEF PipelineInv, TaskInv, TaskOK
<1>3. /\ output = [output EXCEPT ![t] = out] /\ next = [next EXCEPT ![t] = nx]
      /\ queue = [queue EXCEPT ![t] = q] /\ closed = [closed EXCEPT ![t] = cl]
      /\ chunk = [chunk EXCEPT ![t] = ch] /\ thread = [thread EXCEPT ![t] = th]
  BY <1>1, Alone DEF PipelineInv
<1>4. (th["producer"] # "exit" \/ ch # << >>) => kernel = "ChunkedPipeline"
  BY <1>2 DEF TaskOK, LoopOK
<1>5. kernel # "ChunkedPipeline" /\ \A i \in DOMAIN out : out[i] # None
  BY <1>1 DEF LoopEnds, Pending
<1>6. PICK w : w = [th EXCEPT !["consumer"] = "exit"]
  OBVIOUS
<1>7. TaskOK(kernel, cs, lay, out, nx, q, cl, ch, w, key)
  BY <1>2, <1>5, <1>6, LoopEndsOK
<1>8. thread' = [thread EXCEPT ![t] = w]
  BY <1>1, <1>6 DEF LoopEnds
<1>9. UNCHANGED <<param, stage, layer, output, next, queue, closed, chunk, matches>>
  BY DEF LoopEnds, pipes
<1>10. Becomes(t, out, nx, q, cl, ch, w)
  BY <1>3, <1>8, <1>9 DEF Becomes
<1>11. QED
  BY <1>1, <1>7, <1>10, OneTask

\* push: the queue has room, or the producer sleeps.
LEMMA PushStep ==
  ASSUME PipelineInv, NEW t \in Tasks, Push(t)
  PROVE  PipelineInv'
<1>1. PICK kernel, cs, lay, out, nx, q, cl, ch, th, key :
        /\ kernel = param.kernel /\ cs = param.chunk_size /\ lay = layer[t] /\ out = output[t]
        /\ nx = next[t] /\ q = queue[t] /\ cl = closed[t] /\ ch = chunk[t] /\ th = thread[t] /\ key = Key(t)
  OBVIOUS
<1>2. /\ TaskOK(kernel, cs, lay, out, nx, q, cl, ch, th, key)
      /\ kernel \in Kernels /\ cs \in Nat \ {0} /\ key \in {"ks", "kc"} /\ th \in [Side -> States]
  BY <1>1, InputFacts DEF PipelineInv, TaskInv, TaskOK
<1>3. /\ output = [output EXCEPT ![t] = out] /\ next = [next EXCEPT ![t] = nx]
      /\ queue = [queue EXCEPT ![t] = q] /\ closed = [closed EXCEPT ![t] = cl]
      /\ chunk = [chunk EXCEPT ![t] = ch] /\ thread = [thread EXCEPT ![t] = th]
  BY <1>1, Alone DEF PipelineInv
<1>4. (th["producer"] # "exit" \/ ch # << >>) => kernel = "ChunkedPipeline"
  BY <1>2 DEF TaskOK, LoopOK
<1>5. /\ th["producer"] = "run" /\ nx < Len(lay) /\ kernel = "ChunkedPipeline"
      /\ UNCHANGED <<param, stage, layer, output, closed, chunk, matches>>
  BY <1>1, <1>4 DEF Push
<1>6. ~cl /\ q \in Seq(Chunks) /\ Len(q) \in Nat
  <2>1. QueueOK(Len(lay), nx, q, cl, ch, th) /\ q \in Seq(Chunks)
    BY <1>2, <1>5 DEF TaskOK, PipeOK, ChunksOK
  <2>2. QED
    BY <1>5, <2>1 DEF QueueOK
<1>7. CASE Len(q) < Capacity
  <2>1. PICK c : c = [begin |-> nx, values |-> SubSeq(lay, nx + 1, nx + Min({cs, Len(lay) - nx}))]
    OBVIOUS
  <2>2. c = ChunkAt(t)
    BY <1>1, <2>1 DEF ChunkAt
  <2>3. PICK n, r, w : n = nx + cs /\ r = Append(q, c) /\ w = Notify(th, "consumer")
    OBVIOUS
  <2>4. TaskOK(kernel, cs, lay, out, n, r, cl, ch, w, key)
    BY <1>2, <1>5, <1>7, <2>1, <2>3, PushOK
  <2>5. /\ next' = [next EXCEPT ![t] = @ + param.chunk_size]
        /\ queue' = [queue EXCEPT ![t] = Append(@, ChunkAt(t))]
        /\ thread' = [thread EXCEPT ![t] = Notify(@, "consumer")]
    BY <1>1, <1>6, <1>7 DEF Push
  <2>6. next' = [next EXCEPT ![t] = n] /\ queue' = [queue EXCEPT ![t] = r] /\ thread' = [thread EXCEPT ![t] = w]
    BY <1>1, <2>2, <2>3, <2>5
  <2>7. Becomes(t, out, n, r, cl, ch, w)
    BY <1>3, <1>5, <2>6 DEF Becomes
  <2>8. QED
    BY <1>1, <2>4, <2>7, OneTask
<1>8. CASE ~(Len(q) < Capacity)
  <2>1. PICK w : w = [th EXCEPT !["producer"] = "sleep"]
    OBVIOUS
  <2>2. TaskOK(kernel, cs, lay, out, nx, q, cl, ch, w, key)
    BY <1>2, <1>5, <1>8, <2>1, PushSleepsOK
  <2>3. Sleep(t, "producer") /\ UNCHANGED <<next, queue>>
    BY <1>1, <1>6, <1>8 DEF Push
  <2>4. thread' = [thread EXCEPT ![t] = w]
    BY <1>1, <2>1, <2>3 DEF Sleep
  <2>5. Becomes(t, out, nx, q, cl, ch, w)
    BY <1>3, <1>5, <2>3, <2>4 DEF Becomes
  <2>6. QED
    BY <1>1, <2>2, <2>5, OneTask
<1>9. QED
  BY <1>7, <1>8

\* close().
LEMMA CloseStep ==
  ASSUME PipelineInv, NEW t \in Tasks, Close(t)
  PROVE  PipelineInv'
<1>1. PICK kernel, cs, lay, out, nx, q, cl, ch, th, key :
        /\ kernel = param.kernel /\ cs = param.chunk_size /\ lay = layer[t] /\ out = output[t]
        /\ nx = next[t] /\ q = queue[t] /\ cl = closed[t] /\ ch = chunk[t] /\ th = thread[t] /\ key = Key(t)
  OBVIOUS
<1>2. /\ TaskOK(kernel, cs, lay, out, nx, q, cl, ch, th, key)
      /\ kernel \in Kernels /\ cs \in Nat \ {0} /\ key \in {"ks", "kc"} /\ th \in [Side -> States]
  BY <1>1, InputFacts DEF PipelineInv, TaskInv, TaskOK
<1>3. /\ output = [output EXCEPT ![t] = out] /\ next = [next EXCEPT ![t] = nx]
      /\ queue = [queue EXCEPT ![t] = q] /\ closed = [closed EXCEPT ![t] = cl]
      /\ chunk = [chunk EXCEPT ![t] = ch] /\ thread = [thread EXCEPT ![t] = th]
  BY <1>1, Alone DEF PipelineInv
<1>4. (th["producer"] # "exit" \/ ch # << >>) => kernel = "ChunkedPipeline"
  BY <1>2 DEF TaskOK, LoopOK
<1>5. /\ th["producer"] = "run" /\ nx >= Len(lay) /\ kernel = "ChunkedPipeline"
      /\ closed' = [closed EXCEPT ![t] = TRUE]
      /\ thread' = [thread EXCEPT ![t] = Notify([@ EXCEPT !.producer = "exit"], "consumer")]
      /\ UNCHANGED <<param, stage, layer, output, next, queue, chunk, matches>>
  BY <1>1, <1>4 DEF Close
<1>6. PICK w : w = Notify([th EXCEPT !["producer"] = "exit"], "consumer")
  OBVIOUS
<1>7. TaskOK(kernel, cs, lay, out, nx, q, TRUE, ch, w, key)
  BY <1>2, <1>5, <1>6, CloseOK
<1>8. thread' = [thread EXCEPT ![t] = w]
  BY <1>1, <1>5, <1>6
<1>9. Becomes(t, out, nx, q, TRUE, ch, w)
  BY <1>3, <1>5, <1>8 DEF Becomes
<1>10. QED
  BY <1>1, <1>7, <1>9, OneTask

\* pop: a chunk, the end, or sleep.
LEMMA PopStep ==
  ASSUME PipelineInv, NEW t \in Tasks, Pop(t)
  PROVE  PipelineInv'
<1>1. PICK kernel, cs, lay, out, nx, q, cl, ch, th, key :
        /\ kernel = param.kernel /\ cs = param.chunk_size /\ lay = layer[t] /\ out = output[t]
        /\ nx = next[t] /\ q = queue[t] /\ cl = closed[t] /\ ch = chunk[t] /\ th = thread[t] /\ key = Key(t)
  OBVIOUS
<1>2. /\ TaskOK(kernel, cs, lay, out, nx, q, cl, ch, th, key)
      /\ kernel \in Kernels /\ cs \in Nat \ {0} /\ key \in {"ks", "kc"} /\ th \in [Side -> States]
  BY <1>1, InputFacts DEF PipelineInv, TaskInv, TaskOK
<1>3. /\ output = [output EXCEPT ![t] = out] /\ next = [next EXCEPT ![t] = nx]
      /\ queue = [queue EXCEPT ![t] = q] /\ closed = [closed EXCEPT ![t] = cl]
      /\ chunk = [chunk EXCEPT ![t] = ch] /\ thread = [thread EXCEPT ![t] = th]
  BY <1>1, Alone DEF PipelineInv
<1>4. (th["producer"] # "exit" \/ ch # << >>) => kernel = "ChunkedPipeline"
  BY <1>2 DEF TaskOK, LoopOK
<1>5. /\ kernel = "ChunkedPipeline" /\ th["consumer"] = "run" /\ ch = << >>
      /\ UNCHANGED <<param, stage, layer, output, next, closed, matches>>
  BY <1>1 DEF Pop
<1>6. CASE q # << >>
  <2>1. PICK r, h, w : r = Tail(q) /\ h = << Head(q) >> /\ w = Notify(th, "producer")
    OBVIOUS
  <2>2. TaskOK(kernel, cs, lay, out, nx, r, cl, h, w, key)
    BY <1>2, <1>5, <1>6, <2>1, PopTakesOK
  <2>3. /\ chunk' = [chunk EXCEPT ![t] = << Head(queue[t]) >>]
        /\ queue' = [queue EXCEPT ![t] = Tail(@)]
        /\ thread' = [thread EXCEPT ![t] = Notify(@, "producer")]
    BY <1>1, <1>6 DEF Pop
  <2>4. chunk' = [chunk EXCEPT ![t] = h] /\ queue' = [queue EXCEPT ![t] = r] /\ thread' = [thread EXCEPT ![t] = w]
    BY <1>1, <2>1, <2>3
  <2>5. Becomes(t, out, nx, r, cl, h, w)
    BY <1>3, <1>5, <2>4 DEF Becomes
  <2>6. QED
    BY <1>1, <2>2, <2>5, OneTask
<1>7. CASE q = << >> /\ cl
  <2>1. PICK w : w = [th EXCEPT !["consumer"] = "exit"]
    OBVIOUS
  <2>2. TaskOK(kernel, cs, lay, out, nx, q, cl, ch, w, key)
    BY <1>2, <1>5, <1>7, <2>1, PopLeavesOK
  <2>3. thread' = [thread EXCEPT ![t].consumer = "exit"] /\ UNCHANGED <<queue, chunk>>
    BY <1>1, <1>7 DEF Pop
  <2>4. thread' = [thread EXCEPT ![t] = w]
    BY <1>1, <2>1, <2>3
  <2>5. Becomes(t, out, nx, q, cl, ch, w)
    BY <1>3, <1>5, <2>3, <2>4 DEF Becomes
  <2>6. QED
    BY <1>1, <2>2, <2>5, OneTask
<1>8. CASE q = << >> /\ ~cl
  <2>1. PICK w : w = [th EXCEPT !["consumer"] = "sleep"]
    OBVIOUS
  <2>2. TaskOK(kernel, cs, lay, out, nx, q, cl, ch, w, key)
    BY <1>2, <1>5, <1>8, <2>1, PopSleepsOK
  <2>3. Sleep(t, "consumer") /\ UNCHANGED <<queue, chunk>>
    BY <1>1, <1>8 DEF Pop
  <2>4. thread' = [thread EXCEPT ![t] = w]
    BY <1>1, <2>1, <2>3 DEF Sleep
  <2>5. Becomes(t, out, nx, q, cl, ch, w)
    BY <1>3, <1>5, <2>3, <2>4 DEF Becomes
  <2>6. QED
    BY <1>1, <2>2, <2>5, OneTask
<1>9. QED
  BY <1>6, <1>7, <1>8

\* The consumer raises its chunk.
LEMMA ConsumeStep ==
  ASSUME PipelineInv, NEW t \in Tasks, Consume(t)
  PROVE  PipelineInv'
<1>1. PICK kernel, cs, lay, out, nx, q, cl, ch, th, key :
        /\ kernel = param.kernel /\ cs = param.chunk_size /\ lay = layer[t] /\ out = output[t]
        /\ nx = next[t] /\ q = queue[t] /\ cl = closed[t] /\ ch = chunk[t] /\ th = thread[t] /\ key = Key(t)
  OBVIOUS
<1>2. /\ TaskOK(kernel, cs, lay, out, nx, q, cl, ch, th, key)
      /\ kernel \in Kernels /\ cs \in Nat \ {0} /\ key \in {"ks", "kc"} /\ th \in [Side -> States]
  BY <1>1, InputFacts DEF PipelineInv, TaskInv, TaskOK
<1>3. /\ output = [output EXCEPT ![t] = out] /\ next = [next EXCEPT ![t] = nx]
      /\ queue = [queue EXCEPT ![t] = q] /\ closed = [closed EXCEPT ![t] = cl]
      /\ chunk = [chunk EXCEPT ![t] = ch] /\ thread = [thread EXCEPT ![t] = th]
  BY <1>1, Alone DEF PipelineInv
<1>4. (th["producer"] # "exit" \/ ch # << >>) => kernel = "ChunkedPipeline"
  BY <1>2 DEF TaskOK, LoopOK
<1>5. ch # << >> /\ UNCHANGED <<param, stage, layer, next, queue, closed, thread, matches>>
  BY <1>1 DEF Consume
<1>6. PICK o : o = Raised(out, ch[1], key)
  OBVIOUS
<1>7. PICK h : h = << >>
  OBVIOUS
<1>8. TaskOK(kernel, cs, lay, o, nx, q, cl, h, th, key)
  <2>1. TaskOK(kernel, cs, lay, o, nx, q, cl, << >>, th, key)
    BY <1>2, <1>5, <1>6, ConsumeOK
  <2>2. QED
    BY <1>7, <2>1, Zenon
<1>9. chunk' = [chunk EXCEPT ![t] = h]
  BY <1>7 DEF Consume
<1>10. output' = [output EXCEPT ![t] = o]
  BY <1>1, <1>6 DEF Consume, Raised, Span
<1>11. Becomes(t, o, nx, q, cl, h, th)
  BY <1>3, <1>5, <1>9, <1>10 DEF Becomes
<1>12. QED
  BY <1>1, <1>8, <1>11, OneTask

\* A sleeper wakes.
LEMMA WakeUpStep ==
  ASSUME PipelineInv, NEW t \in Tasks, NEW side \in Side, WakeUp(t, side)
  PROVE  PipelineInv'
<1>1. PICK kernel, cs, lay, out, nx, q, cl, ch, th, key :
        /\ kernel = param.kernel /\ cs = param.chunk_size /\ lay = layer[t] /\ out = output[t]
        /\ nx = next[t] /\ q = queue[t] /\ cl = closed[t] /\ ch = chunk[t] /\ th = thread[t] /\ key = Key(t)
  OBVIOUS
<1>2. /\ TaskOK(kernel, cs, lay, out, nx, q, cl, ch, th, key)
      /\ kernel \in Kernels /\ cs \in Nat \ {0} /\ key \in {"ks", "kc"} /\ th \in [Side -> States]
  BY <1>1, InputFacts DEF PipelineInv, TaskInv, TaskOK
<1>3. /\ output = [output EXCEPT ![t] = out] /\ next = [next EXCEPT ![t] = nx]
      /\ queue = [queue EXCEPT ![t] = q] /\ closed = [closed EXCEPT ![t] = cl]
      /\ chunk = [chunk EXCEPT ![t] = ch] /\ thread = [thread EXCEPT ![t] = th]
  BY <1>1, Alone DEF PipelineInv
<1>4. (th["producer"] # "exit" \/ ch # << >>) => kernel = "ChunkedPipeline"
  BY <1>2 DEF TaskOK, LoopOK
<1>5. th[side] = "sleep" /\ UNCHANGED <<param, stage, layer, output, next, queue, closed, chunk, matches>>
  BY <1>1 DEF WakeUp, pipes
<1>6. PICK w : w = [th EXCEPT ![side] = "run"]
  OBVIOUS
<1>7. TaskOK(kernel, cs, lay, out, nx, q, cl, ch, w, key)
  BY <1>2, <1>5, <1>6, WakeUpOK
<1>8. thread' = [thread EXCEPT ![t] = w]
  BY <1>1, <1>6 DEF WakeUp
<1>9. Becomes(t, out, nx, q, cl, ch, w)
  BY <1>3, <1>5, <1>8 DEF Becomes
<1>10. QED
  BY <1>1, <1>7, <1>9, OneTask
-----------------------------------------------------------------------------
\* What joined is computed.
LEMMA JoinedFacts ==
  ASSUME PipelineInv, Joined, NEW t \in Tasks
  PROVE  /\ layer[t] \in Seq(Points) /\ DOMAIN output[t] = DOMAIN layer[t]
         /\ output[t] = [i \in DOMAIN layer[t] |-> Raise(layer[t][i], Key(t))]
<1>1. PICK kernel, cs, lay, out, nx, q, cl, ch, th, key :
        /\ kernel = param.kernel /\ cs = param.chunk_size /\ lay = layer[t] /\ out = output[t]
        /\ nx = next[t] /\ q = queue[t] /\ cl = closed[t] /\ ch = chunk[t] /\ th = thread[t] /\ key = Key(t)
  OBVIOUS
<1>2. TaskOK(kernel, cs, lay, out, nx, q, cl, ch, th, key)
  BY <1>1 DEF PipelineInv, TaskInv
<1>3. th["producer"] = "exit" /\ th["consumer"] = "exit"
  BY <1>1 DEF Joined, Side
<1>4. lay \in Seq(Points) /\ OutputOK(lay, out, key)
  BY <1>2 DEF TaskOK, OutputOK
<1>5. \A i \in DOMAIN lay : out[i] # None
  <2>1. CASE kernel = "ChunkedPipeline"
    <3>1. /\ QueueOK(Len(lay), nx, q, cl, ch, th) /\ CoverOK(cs, out, nx, q, ch)
          /\ ChunksOK(cs, lay, nx, q, ch) /\ DOMAIN out = DOMAIN lay
      BY <1>2, <2>1 DEF TaskOK, PipeOK, OutputOK
    <3>2. q = << >> /\ ch = << >> /\ nx >= Len(lay) /\ nx \in Nat
      BY <1>3, <3>1 DEF QueueOK, ChunksOK
    <3>3. \A i : ~Under(cs, q, ch, i)
      <4>1. Len(<< >>) = 0
        OBVIOUS
      <4>2. QED
        BY <3>2, <4>1 DEF Under
    <3>4. \A i \in DOMAIN lay : i <= nx
      <4>1. Len(lay) \in Nat /\ DOMAIN lay = 1..Len(lay)
        BY <1>4
      <4>2. QED
        BY <3>2, <4>1
    <3>5. QED
      BY <3>1, <3>3, <3>4 DEF CoverOK
  <2>2. CASE kernel # "ChunkedPipeline"
    BY <1>2, <1>3, <2>2 DEF TaskOK, LoopOK, OutputOK
  <2>3. QED
    BY <2>1, <2>2
<1>6. DOMAIN out = DOMAIN lay /\ out = [i \in DOMAIN lay |-> Raise(lay[i], key)]
  BY <1>4, <1>5 DEF OutputOK
<1>7. QED
  BY <1>1, <1>4, <1>6

\* The layers change hands, and the tasks start again.
LEMMA CompositeStep ==
  ASSUME PipelineInv, CompositeStage
  PROVE  PipelineInv'
<1>1. ParamInv /\ ParamInv'
  BY DEF PipelineInv, ParamInv, CompositeStage
<1>2. PICK layers : layers = [t \in Tasks |-> output[Other(t)]]
  OBVIOUS
<1>3. StartTasks(layers) /\ stage' = "composite" /\ UNCHANGED <<param, matches>>
  BY <1>2 DEF CompositeStage, Other
<1>4. ASSUME NEW t \in Tasks PROVE output[Other(t)] = SecondLayer(t)
  <2>1. PICK u \in Tasks : u = Other(t)
    BY <1>1, InputFacts
  <2>2. output[u] = [i \in DOMAIN layer[u] |-> Raise(layer[u][i], Key(u))]
    BY JoinedFacts DEF CompositeStage
  <2>3. layer[u] = HashAll(Input(u))
    BY DEF PipelineInv, LayerInv, CompositeStage
  <2>4. PICK s : s = Input(u)
    OBVIOUS
  <2>5. DOMAIN layer[u] = DOMAIN s /\ \A i \in DOMAIN s : layer[u][i] = Hash(s[i])
    BY <2>3, <2>4 DEF HashAll
  <2>6. output[u] = [i \in DOMAIN s |-> Raise(Hash(s[i]), Key(u))]
    BY <2>2, <2>5
  <2>7. QED
    BY <2>1, <2>4, <2>6 DEF SecondLayer
<1>5. \A t \in Tasks : layers[t] = SecondLayer(t) /\ layers[t] \in Seq(Points)
  BY <1>1, <1>2, <1>4, InputFacts
<1>6. /\ layer' = layers /\ output' = [t \in Tasks |-> Blank(layers[t])]
      /\ next' = [t \in Tasks |-> 0] /\ queue' = [t \in Tasks |-> << >>]
      /\ closed' = [t \in Tasks |-> FALSE] /\ chunk' = [t \in Tasks |-> << >>]
      /\ thread' = [t \in Tasks |-> Fresh]
  BY <1>3 DEF StartTasks
<1>7. LayerInv'
  <2>1. \A t \in Tasks : SecondLayer(t)' = SecondLayer(t)
    BY <1>3 DEF SecondLayer, Input
  <2>2. layer' = [t \in Tasks |-> SecondLayer(t)]
    BY <1>2, <1>4, <1>6
  <2>3. QED
    BY <1>3, <2>1, <2>2 DEF LayerInv
<1>8. PerTask'
  BY <1>6 DEF PerTask
<1>9. ASSUME NEW t \in Tasks PROVE TaskInv(t)'
  <2>1. TaskOK(param.kernel, param.chunk_size, layers[t], Blank(layers[t]), 0, << >>, FALSE, << >>, Fresh, Key(t))
    BY <1>1, <1>5, AllFresh
  <2>2. /\ layer'[t] = layers[t] /\ output'[t] = Blank(layers[t]) /\ next'[t] = 0 /\ queue'[t] = << >>
        /\ closed'[t] = FALSE /\ chunk'[t] = << >> /\ thread'[t] = Fresh
    BY <1>6
  <2>3. QED
    BY <1>3, <2>1, <2>2 DEF TaskInv, Key
<1>10. MatchesExact'
  BY <1>3 DEF MatchesExact
<1>11. QED
  BY <1>1, <1>7, <1>8, <1>9, <1>10 DEF PipelineInv

\* The point of an item that both sides have raised.
Both(item) == [item |-> item, keys |-> {"ks", "kc"}]

\* After the second stage each task has the points of the other's items.
LEMMA DoubleFacts ==
  ASSUME PipelineInv, Joined, stage = "composite", NEW t \in Tasks
  PROVE  /\ DOMAIN output[t] = DOMAIN Input(Other(t))
         /\ \A i \in DOMAIN output[t] : output[t][i] = Both(Input(Other(t))[i])
<1>1. ParamInv
  BY DEF PipelineInv
<1>2. PICK s, k, l : s = Input(Other(t)) /\ k = Key(t) /\ l = Key(Other(t))
  OBVIOUS
<1>3. k \in {"ks", "kc"} /\ l \in {"ks", "kc"} /\ k # l
  BY <1>1, <1>2, InputFacts
<1>4. layer[t] = [i \in DOMAIN s |-> Raise(Hash(s[i]), l)]
  BY <1>2 DEF PipelineInv, LayerInv, SecondLayer
<1>5. DOMAIN output[t] = DOMAIN s /\ \A i \in DOMAIN s : output[t][i] = Raise(Raise(Hash(s[i]), l), k)
  <2>1. output[t] = [i \in DOMAIN layer[t] |-> Raise(layer[t][i], k)]
    BY <1>2, JoinedFacts
  <2>2. PICK lay, out : lay = layer[t] /\ out = output[t]
    OBVIOUS
  <2>3. DOMAIN lay = DOMAIN s /\ \A i \in DOMAIN s : lay[i] = Raise(Hash(s[i]), l)
    BY <1>4, <2>2
  <2>4. out = [i \in DOMAIN lay |-> Raise(lay[i], k)]
    BY <2>1, <2>2
  <2>5. DOMAIN out = DOMAIN s /\ \A i \in DOMAIN s : out[i] = Raise(Raise(Hash(s[i]), l), k)
    BY <2>3, <2>4
  <2>6. QED
    BY <2>2, <2>5
<1>6. \A e : Raise(Raise(Hash(e), l), k) = Both(e)
  <2> TAKE e
  <2>1. Raise(Hash(e), l) = [item |-> e, keys |-> {l}]
    BY DEF Raise, Hash
  <2>2. Raise([item |-> e, keys |-> {l}], k) = [item |-> e, keys |-> {l} \cup {k}]
    BY DEF Raise
  <2>3. {l} \cup {k} = {"ks", "kc"}
    BY <1>3
  <2>4. QED
    BY <2>1, <2>2, <2>3 DEF Both
<1>7. QED
  BY <1>2, <1>5, <1>6

\* As many places as items: the list has no item twice.
LEMMA Counted ==
  ASSUME NEW A, NEW s \in Seq(A), IsInjective(s), NEW T, NEW R, R \subseteq ToSet(s)
  PROVE  Cardinality({i \in DOMAIN s : s[i] \in T \cup R}) = Cardinality((T \cap ToSet(s)) \cup R)
<1> DEFINE D == {i \in DOMAIN s : s[i] \in T \cup R}
<1>1. IsFiniteSet(D)
  <2>1. DOMAIN s = 1..Len(s) /\ Len(s) \in Nat
    OBVIOUS
  <2>2. IsFiniteSet(DOMAIN s)
    BY <2>1, FS_Interval
  <2>3. QED
    BY <2>2, FS_Subset
<1>2. \A x, y \in D : s[x] = s[y] => x = y
  BY DEF IsInjective
<1>3. {s[x] : x \in D} = (T \cap ToSet(s)) \cup R
  BY DEF ToSet
<1> HIDE DEF D
<1>4. Cardinality({s[x] : x \in D}) = Cardinality(D)
  BY <1>1, <1>2, FiniteImage
<1>5. QED
  BY <1>3, <1>4 DEF D

\* The lookup counts the items both have and the stray ones.
LEMMA MembershipStep ==
  ASSUME PipelineInv, Membership
  PROVE  PipelineInv'
<1>1. ParamInv /\ Joined /\ stage = "composite" /\ stage' = "done"
      /\ UNCHANGED <<param, layer, output, next, queue, closed, chunk, thread>>
  BY DEF PipelineInv, Membership, pipes
<1>2. ParamInv' /\ PerTask'
  BY <1>1 DEF PipelineInv, ParamInv, PerTask
<1>3. LayerInv'
  <2>1. LayerInv
    BY DEF PipelineInv
  <2>2. \A u \in Tasks : SecondLayer(u)' = SecondLayer(u)
    BY <1>1 DEF SecondLayer, Input
  <2>3. layer = [t \in Tasks |-> SecondLayer(t)]
    BY <1>1, <2>1 DEF LayerInv
  <2>4. layer' = [t \in Tasks |-> SecondLayer(t)]
    BY <1>1, <2>3
  <2>5. QED
    BY <1>1, <2>2, <2>4 DEF LayerInv
<1>4. \A t \in Tasks : TaskInv(t)'
  BY <1>1 DEF PipelineInv, TaskInv, Key
<1>5. PICK s, u, r : s = param.server /\ u = param.client /\ r = param.stray
  OBVIOUS
<1>6. PICK f, g : f = output["client"] /\ g = output["server"]
  OBVIOUS
<1>7. /\ u \in Seq(AllItems) /\ IsInjective(u) /\ r \subseteq ToSet(u)
  BY <1>1, <1>5, InputFacts DEF ParamInv, Input, Tasks
<1>8. DOMAIN f = DOMAIN s /\ \A i \in DOMAIN s : f[i] = Both(s[i])
  <2>1. "client" \in Tasks /\ Input(Other("client")) = s
    BY <1>5 DEF Tasks, Input, Other
  <2>2. QED
    BY <1>1, <1>6, <2>1, DoubleFacts
<1>9. DOMAIN g = DOMAIN u /\ \A i \in DOMAIN u : g[i] = Both(u[i])
  <2>1. "server" \in Tasks /\ Input(Other("server")) = u
    BY <1>5 DEF Tasks, Input, Other
  <2>2. QED
    BY <1>1, <1>6, <2>1, DoubleFacts
<1> DEFINE F == ToSet(f) \cup {Both(e) : e \in r}
<1>10. matches' = Cardinality({i \in DOMAIN g : g[i] \in F})
  BY <1>5, <1>6 DEF Membership, Both
<1>11. \A x : Both(x) \in F <=> x \in ToSet(s) \cup r
  <2>1. \A x, y : Both(x) = Both(y) => x = y
    BY DEF Both
  <2> HIDE DEF Both
  <2>2. ToSet(f) = {Both(s[i]) : i \in DOMAIN s}
    BY <1>8 DEF ToSet
  <2>3. \A x : Both(x) \in ToSet(f) <=> x \in ToSet(s)
    BY <2>1, <2>2 DEF ToSet
  <2>4. \A x : Both(x) \in {Both(e) : e \in r} <=> x \in r
    BY <2>1
  <2>5. QED
    BY <2>3, <2>4
<1> HIDE DEF F, Both
<1>12. {i \in DOMAIN g : g[i] \in F} = {i \in DOMAIN u : u[i] \in ToSet(s) \cup r}
  BY <1>9, <1>11
<1>13. matches' = Cardinality((ToSet(s) \cap ToSet(u)) \cup r)
  <2>1. PICK T : T = ToSet(s)
    OBVIOUS
  <2>2. Cardinality({i \in DOMAIN u : u[i] \in T \cup r}) = Cardinality((T \cap ToSet(u)) \cup r)
    BY <1>7, Counted
  <2>3. QED
    BY <1>10, <1>12, <2>1, <2>2, Zenon
<1>14. MatchesExact'
  BY <1>1, <1>5, <1>13 DEF MatchesExact
<1>15. QED
  BY <1>2, <1>3, <1>4, <1>14 DEF PipelineInv
-----------------------------------------------------------------------------
LEMMA StepInv == PipelineInv /\ [Next]_vars => PipelineInv'
<1> SUFFICES ASSUME PipelineInv, [Next]_vars PROVE PipelineInv'
  OBVIOUS
<1>1. ASSUME NEW t \in Tasks, Producer(t) PROVE PipelineInv'
  BY <1>1, PushStep, CloseStep DEF Producer
<1>2. ASSUME NEW t \in Tasks, Consumer(t) PROVE PipelineInv'
  BY <1>2, ComputeOneStep, LoopEndsStep, PopStep, ConsumeStep DEF Consumer
<1>3. ASSUME NEW t \in Tasks, NEW side \in Side, WakeUp(t, side) PROVE PipelineInv'
  BY <1>3, WakeUpStep
<1>4. CASE CompositeStage
  BY <1>4, CompositeStep
<1>5. CASE Membership
  BY <1>5, MembershipStep
<1>6. CASE UNCHANGED vars
  <2>1. LayerInv'
    BY <1>6 DEF PipelineInv, LayerInv, vars, pipes, HashAll, SecondLayer, Input
  <2>2. ParamInv' /\ PerTask' /\ MatchesExact'
    BY <1>6 DEF PipelineInv, ParamInv, PerTask, MatchesExact, vars, pipes
  <2>3. \A t \in Tasks : TaskInv(t)'
    BY <1>6 DEF PipelineInv, TaskInv, vars, pipes, Key
  <2>4. QED
    BY <2>1, <2>2, <2>3 DEF PipelineInv
<1>7. QED
  BY <1>1, <1>2, <1>3, <1>4, <1>5, <1>6 DEF Next, Finished

\* In every state of the pipeline, for all inputs, kernels and chunk sizes, the
\* layers, the points computed, the chunks under way and the threads fit
\* together (run of cwprf_mqrpmt_optimized.cpp).
THEOREM PipelineInvariant == Spec => []PipelineInv
<1>1. PipelineInv /\ [Next]_vars => PipelineInv'
  BY StepInv
<1>2. QED
  BY <1>1, InitInv, PTL DEF Spec

\* The matches counted are the items both have and the stray ones, with every
\* kernel and every schedule.
THEOREM CountsMatches == Spec => []MatchesExact
<1>1. PipelineInv => MatchesExact
  BY DEF PipelineInv
<1>2. QED
  BY <1>1, PipelineInvariant, PTL
-----------------------------------------------------------------------------
\* The positions of the chunks under way, and those not computed, as sets.
UnderWay(cs, q, ch) == {c.begin + k : c \in ToSet(q) \cup ToSet(ch), k \in 1..cs}
Blanks(out) == {i \in DOMAIN out : out[i] = None}

LEMMA UnderSet ==
  ASSUME NEW cs \in Nat \ {0}, NEW lay, NEW nx, NEW q, NEW ch, ChunksOK(cs, lay, nx, q, ch),
         NEW i \in Nat
  PROVE  i \in UnderWay(cs, q, ch) <=> Under(cs, q, ch, i)
<1> DEFINE C == ToSet(q) \cup ToSet(ch)
<1>1. q \in Seq(Chunks) /\ DOMAIN q = 1..Len(q)
  BY DEF ChunksOK
<1>2. ToSet(q) = {q[k] : k \in 1..Len(q)}
  BY <1>1 DEF ToSet
<1>3. \/ ToSet(ch) = {} /\ ch = << >>
      \/ ToSet(ch) = {ch[1]} /\ ch # << >> /\ ch[1] \in Chunks
  <2>1. CASE ch = << >>
    <3>1. DOMAIN ch = {}
      BY <2>1
    <3>2. ToSet(ch) = {}
      BY <3>1 DEF ToSet
    <3>3. QED
      BY <2>1, <3>2
  <2>2. CASE ch # << >>
    <3>1. PICK c : ch = <<c>> /\ c \in Chunks
      BY <2>2 DEF ChunksOK, ChunkOK
    <3>2. DOMAIN ch = {1} /\ ch[1] = c
      BY <3>1
    <3>3. QED
      BY <2>2, <3>1, <3>2 DEF ToSet
  <2>3. QED
    BY <2>1, <2>2
<1>4. \A c \in C : c.begin \in Nat
  <2>1. \A k \in 1..Len(q) : q[k] \in Chunks
    BY <1>1
  <2>2. \A c \in C : c \in Chunks
    BY <1>2, <1>3, <2>1
  <2>3. QED
    BY <2>2 DEF Chunks
<1>5. \A c \in C : (\E k \in 1..cs : i = c.begin + k) <=> InChunk(cs, c, i)
  <2> TAKE c \in C
  <2>1. PICK b \in Nat : b = c.begin
    BY <1>4
  <2>2. b < i /\ i <= b + cs => i - b \in 1..cs /\ i = b + (i - b)
    OBVIOUS
  <2>3. QED
    BY <2>1, <2>2 DEF InChunk
<1>6. (\E c \in C : InChunk(cs, c, i)) <=> Under(cs, q, ch, i)
  <2> DEFINE P(c) == InChunk(cs, c, i)
  <2> HIDE DEF P
  <2>1. (\E c \in C : P(c)) <=> (\E k \in 1..Len(q) : P(q[k])) \/ (ch # << >> /\ P(ch[1]))
    BY <1>2, <1>3
  <2>2. QED
    BY <2>1 DEF P, Under
<1> HIDE DEF C
<1>7. i \in {c.begin + k : c \in C, k \in 1..cs} <=> \E c \in C, k \in 1..cs : i = c.begin + k
  OBVIOUS
<1>8. i \in {c.begin + k : c \in C, k \in 1..cs} <=> Under(cs, q, ch, i)
  BY <1>5, <1>6, <1>7
<1>9. QED
  BY <1>8 DEF C, UnderWay

\* LayersExact for one task.
LayersOf(kernel, cs, lay, out, nx, q, ch, th, key) ==
  LET done == DOMAIN out \ Blanks(out)
  IN  /\ \A i \in done : out[i] = Raise(lay[i], key)
      /\ (\A side \in Side : th[side] = "exit") => Blanks(out) = {}
      /\ kernel = "ChunkedPipeline" =>
           /\ Len(q) <= Capacity
           /\ done \cap UnderWay(cs, q, ch) = {}
           /\ DOMAIN out \cap (done \cup UnderWay(cs, q, ch)) = DOMAIN out \cap 1..nx

\* The invariant says of one task what LayersExact says.
LEMMA TaskLayersExact ==
  ASSUME NEW kernel, NEW cs \in Nat \ {0}, NEW lay, NEW out, NEW nx, NEW q, NEW cl, NEW ch, NEW th,
         NEW key, TaskOK(kernel, cs, lay, out, nx, q, cl, ch, th, key)
  PROVE  LayersOf(kernel, cs, lay, out, nx, q, ch, th, key)
<1> DEFINE pending == Blanks(out)
           under == UnderWay(cs, q, ch)
<1> HIDE DEF pending, under
<1> SUFFICES /\ \A i \in DOMAIN out \ pending : out[i] = Raise(lay[i], key)
             /\ (\A side \in Side : th[side] = "exit") => pending = {}
             /\ kernel = "ChunkedPipeline" =>
                  /\ Len(q) <= Capacity
                  /\ (DOMAIN out \ pending) \cap under = {}
                  /\ DOMAIN out \cap ((DOMAIN out \ pending) \cup under) = DOMAIN out \cap 1..nx
  BY DEF LayersOf, pending, under
<1>1. /\ \A i \in DOMAIN out \ pending : out[i] = Raise(lay[i], key)
      /\ DOMAIN out = 1..Len(lay) /\ Len(lay) \in Nat
  BY DEF TaskOK, OutputOK, Blanks, pending
<1>2. CASE kernel = "ChunkedPipeline"
  <2>1. /\ ChunksOK(cs, lay, nx, q, ch) /\ CoverOK(cs, out, nx, q, ch)
        /\ QueueOK(Len(lay), nx, q, cl, ch, th) /\ nx \in Nat
    BY <1>2 DEF TaskOK, PipeOK, ChunksOK
  <2>2. \A i \in DOMAIN out : i \in under <=> Under(cs, q, ch, i)
    <3>1. TAKE i \in DOMAIN out
    <3>2. i \in Nat
      BY <1>1
    <3>3. QED
      BY <2>1, <3>2, UnderSet DEF under
  <2>3. \A i \in DOMAIN out : /\ i \in under => i <= nx /\ i \in pending
                              /\ i <= nx /\ i \in pending => i \in under
                              /\ i \notin pending => i <= nx
                              /\ i \in Nat /\ 1 <= i
    BY <1>1, <2>1, <2>2 DEF CoverOK, Blanks, pending
  <2>4. (DOMAIN out \ pending) \cap under = {}
    BY <2>3
  <2>5. DOMAIN out \cap ((DOMAIN out \ pending) \cup under) = DOMAIN out \cap 1..nx
    BY <2>1, <2>3
  <2>6. (\A side \in Side : th[side] = "exit") => pending = {}
    <3>1. SUFFICES ASSUME th["producer"] = "exit", th["consumer"] = "exit" PROVE pending = {}
      BY DEF Side
    <3>2. q = << >> /\ ch = << >> /\ nx >= Len(lay)
      BY <2>1, <3>1 DEF QueueOK
    <3>3. ToSet(q) = {} /\ ToSet(ch) = {}
      BY <3>2 DEF ToSet
    <3>4. under = {}
      BY <3>3 DEF UnderWay, under
    <3>5. \A i \in DOMAIN out : i <= nx
      BY <1>1, <2>1, <3>2
    <3>6. \A i \in DOMAIN out : i \notin pending
      BY <2>3, <3>4, <3>5
    <3>7. QED
      BY <3>6 DEF Blanks, pending
  <2>7. Len(q) <= Capacity
    BY <2>1 DEF QueueOK
  <2>8. QED
    BY <1>1, <2>4, <2>5, <2>6, <2>7
<1>3. CASE kernel # "ChunkedPipeline"
  BY <1>1, <1>3 DEF TaskOK, LoopOK, Side, Blanks, pending
<1>4. QED
  BY <1>2, <1>3

\* Every point computed is its own element's, a task that joined has computed
\* them all, and the chunks under way are those between the points computed and
\* the producer's next one (cwprf_mqrpmt_optimized.cpp).
THEOREM ComputesLayers == Spec => []LayersExact
<1>1. PipelineInv => LayersExact
  <2> SUFFICES ASSUME PipelineInv, NEW t \in Tasks
               PROVE  LayersOf(param.kernel, param.chunk_size, layer[t], output[t], next[t], queue[t],
                               chunk[t], thread[t], Key(t))
    BY DEF LayersExact, LayersOf, UnderWay, Blanks, Pending
  <2>1. PICK kernel, cs, lay, out, nx, q, cl, ch, th, key :
          /\ kernel = param.kernel /\ cs = param.chunk_size /\ lay = layer[t] /\ out = output[t]
          /\ nx = next[t] /\ q = queue[t] /\ cl = closed[t] /\ ch = chunk[t] /\ th = thread[t] /\ key = Key(t)
    OBVIOUS
  <2>2. TaskOK(kernel, cs, lay, out, nx, q, cl, ch, th, key) /\ cs \in Nat \ {0}
    BY <2>1, InputFacts DEF PipelineInv, TaskInv
  <2>3. LayersOf(kernel, cs, lay, out, nx, q, ch, th, key)
    BY <2>2, TaskLayersExact
  <2>4. QED
    BY <2>1, <2>3
<1>2. QED
  BY <1>1, PipelineInvariant, PTL

\* No wakeup is lost: a task that is not over has a thread that runs, so that
\* producer and consumer never both wait (the safety half of Terminates).
NoStall == \A t \in Tasks : \/ \E side \in Side : thread[t][side] = "run"
                            \/ \A side \in Side : thread[t][side] = "exit"

\* A task stops only when both of its threads have left: producer and consumer
\* never wait for each other (push, pop and close of the queue).
THEOREM NeverStalls == Spec => []NoStall
<1>1. PipelineInv => NoStall
  <2> SUFFICES ASSUME PipelineInv, NEW t \in Tasks
               PROVE  \/ \E side \in Side : thread[t][side] = "run"
                      \/ \A side \in Side : thread[t][side] = "exit"
    BY DEF NoStall
  <2>1. PICK kernel, cs, lay, out, nx, q, cl, ch, th, key :
          /\ kernel = param.kernel /\ cs = param.chunk_size /\ lay = layer[t] /\ out = output[t]
          /\ nx = next[t] /\ q = queue[t] /\ cl = closed[t] /\ ch = chunk[t] /\ th = thread[t] /\ key = Key(t)
    OBVIOUS
  <2>2. TaskOK(kernel, cs, lay, out, nx, q, cl, ch, th, key)
    BY <2>1 DEF PipelineInv, TaskInv
  <2>3. th["producer"] \in States /\ th["consumer"] \in States
    BY <2>2 DEF TaskOK, Side
  <2>4. CASE kernel = "ChunkedPipeline"
    <3>1. QueueOK(Len(lay), nx, q, cl, ch, th)
      BY <2>2, <2>4 DEF TaskOK, PipeOK
    <3>2. Capacity > 0 /\ Capacity \in Nat /\ Len(<< >>) = 0
      BY PipelineAssumption
    <3>3. th["producer"] = "sleep" => th["consumer"] = "run"
      BY <2>3, <3>1, <3>2 DEF QueueOK, States
    <3>4. th["consumer"] = "sleep" => th["producer"] = "run"
      BY <2>3, <3>1, <3>2 DEF QueueOK, States
    <3>5. th["consumer"] = "exit" => th["producer"] = "exit"
      BY <3>1 DEF QueueOK
    <3>6. QED
      BY <2>1, <2>3, <3>3, <3>4, <3>5 DEF Side, States
  <2>5. CASE kernel # "ChunkedPipeline"
    BY <2>1, <2>2, <2>5 DEF TaskOK, LoopOK, Side
  <2>6. QED
    BY <2>4, <2>5
<1>2. QED
  BY <1>1, PipelineInvariant, PTL
=============================================================================
