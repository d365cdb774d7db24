------------------------------- MODULE Pipeline -------------------------------
(***************************************************************************)
(* The experimental cwPRF-mqRPMT of                                        *)
(* src/experimental/cwprf_mqrpmt_optimized.cpp: run() computes both        *)
(* parties' points in one process, in two stages of two asynchronous tasks *)
(* each, then counts the matches.  A task raises its input element by      *)
(* element, in one of three ways: in a loop, in an OpenMP loop, or in a    *)
(* pipeline of a producer and a consumer around a bounded queue with a     *)
(* mutex and two condition variables.                                      *)
(*                                                                         *)
(* A queue operation holds the mutex from its first test to its last       *)
(* statement, so it is one step; wait() puts the caller to sleep until it  *)
(* is notified, or wakes for no reason, and then tests again.              *)
(***************************************************************************)
EXTENDS Integers, CwPrf, SequencesExt

CONSTANTS
  ServerInputs, ClientInputs,   \* candidates for server_input and client_input
  ChunkSizes,                   \* values of options.chunk_size
  Capacity                      \* of the queue (2)

ASSUME PipelineAssumption ==
  /\ \A s \in ServerInputs \cup ClientInputs : s \in Seq(ToSet(s)) /\ IsInjective(s) /\ s # << >>
  /\ ChunkSizes \subseteq Nat \ {0} /\ Capacity \in Nat \ {0}

VARIABLES
  param,        \* server and client input, kernel, chunk_size, stray
  stage,        \* first, composite, done
  layer,        \* per task: the points its stage starts from
  output,       \* per task: the points computed so far
  next,         \* per task: where the producer's next chunk begins, from 0
  queue,        \* per task: queue_
  closed,       \* per task: closed_
  chunk,        \* per task: the chunk the consumer works on, at most one
  thread,       \* per task, its producer and consumer: run, sleep, exit
  matches

vars == <<param, stage, layer, output, next, queue, closed, chunk, thread, matches>>
pipes == <<next, queue, closed, chunk>>

Kernels == {"Baseline", "CurrentParallel", "FusedDirect", "PersistentOpenMP", "ChunkedPipeline"}
Tasks   == {"server", "client"}
Side    == {"producer", "consumer"}
None    == Hash("none")
Key(t)  == IF t = "server" THEN "ks" ELSE "kc"
Blank(s) == [i \in DOMAIN s |-> None]

HashAll(items) == [i \in DOMAIN items |-> Hash(items[i])]

\* Where the threads of a task are when it starts.
Fresh == [producer |-> IF param.kernel = "ChunkedPipeline" THEN "run" ELSE "exit", consumer |-> "run"]

StartTasks(layers) ==
  /\ layer' = layers
  /\ output' = [t \in Tasks |-> Blank(layers[t])]
  /\ next' = [t \in Tasks |-> 0] /\ queue' = [t \in Tasks |-> << >>]
  /\ closed' = [t \in Tasks |-> FALSE] /\ chunk' = [t \in Tasks |-> << >>]
  /\ thread' = [t \in Tasks |-> Fresh]

\* param.stray: items of the client the Bloom filter takes for the server's.
Init ==
  /\ param \in {q \in [server : ServerInputs, client : ClientInputs, kernel : Kernels,
                       chunk_size : ChunkSizes,
                       stray : SUBSET UNION {ToSet(s) : s \in ClientInputs}] :
                  q.stray \subseteq ToSet(q.client) \ ToSet(q.server)}
  /\ stage = "first"
  /\ layer = [t \in Tasks |-> HashAll(IF t = "server" THEN param.server ELSE param.client)]
  /\ output = [t \in Tasks |-> Blank(layer[t])]
  /\ next = [t \in Tasks |-> 0] /\ queue = [t \in Tasks |-> << >>]
  /\ closed = [t \in Tasks |-> FALSE] /\ chunk = [t \in Tasks |-> << >>]
  /\ thread = [t \in Tasks |-> Fresh]
  /\ matches = 0
-----------------------------------------------------------------------------
(***************************************************************************)
(* The loops.                                                              *)
(***************************************************************************)
Pending(t)  == {i \in DOMAIN output[t] : output[t][i] = None}

\* Of an OpenMP loop any iteration may come next.
ComputeOne(t, i) ==
  /\ param.kernel # "ChunkedPipeline" /\ thread[t].consumer = "run" /\ i \in Pending(t)
  /\ param.kernel \in {"Baseline", "FusedDirect"} => i = Min(Pending(t))
  /\ output' = [output EXCEPT ![t][i] = Raise(layer[t][i], Key(t))]
  /\ UNCHANGED <<param, stage, layer, pipes, thread, matches>>

LoopEnds(t) ==
  /\ param.kernel # "ChunkedPipeline" /\ thread[t].consumer = "run" /\ Pending(t) = {}
  /\ thread' = [thread EXCEPT ![t].consumer = "exit"]
  /\ UNCHANGED <<param, stage, layer, output, pipes, matches>>
-----------------------------------------------------------------------------
(***************************************************************************)
(* The pipeline.                                                           *)
(***************************************************************************)
\* notify: the other side wakes if it sleeps.
Notify(th, side) == IF th[side] = "sleep" THEN [th EXCEPT ![side] = "run"] ELSE th
Sleep(t, side)   == thread' = [thread EXCEPT ![t][side] = "sleep"]

\* The chunk that begins at next: each element with its place in the output.
ChunkAt(t) ==
  LET size == Min({param.chunk_size, Len(layer[t]) - next[t]})
  IN  [begin |-> next[t], values |-> SubSeq(layer[t], next[t] + 1, next[t] + size)]

Push(t) ==
  /\ thread[t].producer = "run" /\ next[t] < Len(layer[t])
  /\ IF Len(queue[t]) < Capacity \/ closed[t]
     THEN /\ next' = [next EXCEPT ![t] = @ + param.chunk_size]
          /\ queue' = IF closed[t] THEN queue ELSE [queue EXCEPT ![t] = Append(@, ChunkAt(t))]
          /\ thread' = [thread EXCEPT ![t] = IF closed[t] THEN @ ELSE Notify(@, "consumer")]
     ELSE Sleep(t, "producer") /\ UNCHANGED <<next, queue>>
  /\ UNCHANGED <<param, stage, layer, output, closed, chunk, matches>>

\* Seeded fault: a consumer that sleeps when the queue is closed stays asleep.
Close_Silent(t) ==
  /\ thread[t].producer = "run" /\ next[t] >= Len(layer[t])
  /\ closed' = [closed EXCEPT ![t] = TRUE]
  /\ thread' = [thread EXCEPT ![t].producer = "exit"]
  /\ UNCHANGED <<param, stage, layer, output, next, queue, chunk, matches>>

Close(t) ==
  /\ thread[t].producer = "run" /\ next[t] >= Len(layer[t])
  /\ closed' = [closed EXCEPT ![t] = TRUE]
  /\ thread' = [thread EXCEPT ![t] = Notify([@ EXCEPT !.producer = "exit"], "consumer")]
  /\ UNCHANGED <<param, stage, layer, output, next, queue, chunk, matches>>

\* Seeded fault: a closed queue is taken for an empty one.
Pop_Closed(t) ==
  /\ param.kernel = "ChunkedPipeline" /\ thread[t].consumer = "run" /\ chunk[t] = << >>
  /\ IF closed[t] THEN thread' = [thread EXCEPT ![t].consumer = "exit"] /\ UNCHANGED <<queue, chunk>>
     ELSE IF queue[t] = << >> THEN Sleep(t, "consumer") /\ UNCHANGED <<queue, chunk>>
     ELSE /\ chunk' = [chunk EXCEPT ![t] = << Head(queue[t]) >>]
          /\ queue' = [queue EXCEPT ![t] = Tail(@)]
          /\ thread' = [thread EXCEPT ![t] = Notify(@, "producer")]
  /\ UNCHANGED <<param, stage, layer, output, next, closed, matches>>

\* A queue that is closed is still emptied.
Pop(t) ==
  /\ param.kernel = "ChunkedPipeline" /\ thread[t].consumer = "run" /\ chunk[t] = << >>
  /\ \/ /\ queue[t] # << >>
        /\ chunk' = [chunk EXCEPT ![t] = << Head(queue[t]) >>]
        /\ queue' = [queue EXCEPT ![t] = Tail(@)]
        /\ thread' = [thread EXCEPT ![t] = Notify(@, "producer")]
     \/ /\ queue[t] = << >> /\ closed[t]
        /\ thread' = [thread EXCEPT ![t].consumer = "exit"] /\ UNCHANGED <<queue, chunk>>
     \/ /\ queue[t] = << >> /\ ~closed[t]
        /\ Sleep(t, "consumer") /\ UNCHANGED <<queue, chunk>>
  /\ UNCHANGED <<param, stage, layer, output, next, closed, matches>>

\* The consumer raises its chunk.
Consume(t) ==
  /\ chunk[t] # << >>
  /\ LET c == chunk[t][1] IN
       output' = [output EXCEPT ![t] =
                    [i \in DOMAIN @ |-> IF i \in c.begin + 1..c.begin + Len(c.values)
                                        THEN Raise(c.values[i - c.begin], Key(t)) ELSE @[i]]]
  /\ chunk' = [chunk EXCEPT ![t] = << >>]
  /\ UNCHANGED <<param, stage, layer, next, queue, closed, thread, matches>>

WakeUp(t, side) ==
  /\ thread[t][side] = "sleep"
  /\ thread' = [thread EXCEPT ![t][side] = "run"]
  /\ UNCHANGED <<param, stage, layer, output, pipes, matches>>
-----------------------------------------------------------------------------
(***************************************************************************)
(* run().                                                                  *)
(***************************************************************************)
Joined == \A t \in Tasks, side \in Side : thread[t][side] = "exit"

\* Seeded fault: each side raises its own points again.
CompositeStage_Own ==
  /\ stage = "first" /\ Joined
  /\ stage' = "composite"
  /\ StartTasks(output)
  /\ UNCHANGED <<param, matches>>

\* The first layers change hands: each side raises the points of the other.
CompositeStage ==
  /\ stage = "first" /\ Joined
  /\ stage' = "composite"
  /\ StartTasks([t \in Tasks |-> IF t = "server" THEN output["client"] ELSE output["server"]])
  /\ UNCHANGED <<param, matches>>

\* client_composite goes into the filter, server_composite is looked up.
Membership ==
  /\ stage = "composite" /\ Joined
  /\ stage' = "done"
  /\ LET filter == ToSet(output["client"])
                     \cup {[item |-> e, keys |-> {"ks", "kc"}] : e \in param.stray}
     IN  matches' = Cardinality({i \in DOMAIN output["server"] : output["server"][i] \in filter})
  /\ UNCHANGED <<param, layer, output, pipes, thread>>

Finished == stage = "done" /\ UNCHANGED vars

Producer(t) == Push(t) \/ Close(t)
Consumer(t) == (\E i \in DOMAIN output[t] : ComputeOne(t, i)) \/ LoopEnds(t) \/ Pop(t) \/ Consume(t)

Next ==
  \/ \E t \in Tasks : Producer(t) \/ Consumer(t) \/ \E side \in Side : WakeUp(t, side)
  \/ CompositeStage \/ Membership
  \/ Finished

\* Every thread that is not asleep gets to run; nothing makes a sleeper wake.
Spec ==
  /\ Init /\ [][Next]_vars
  /\ \A t \in Tasks : WF_vars(Producer(t)) /\ WF_vars(Consumer(t))
  /\ WF_vars(CompositeStage) /\ WF_vars(Membership)
-----------------------------------------------------------------------------
\* Every point computed is that of its own element, and a task that joined has
\* computed them all, whatever the kernel, the chunk size and the schedule;
\* the chunks under way are those between the points computed and the
\* producer's next one (cwprf_mqrpmt_optimized.cpp 250-288).
LayersExact ==
  \A t \in Tasks :
    LET done == DOMAIN output[t] \ Pending(t)
        under == {c.begin + k : c \in ToSet(queue[t]) \cup ToSet(chunk[t]), k \in 1..param.chunk_size}
    IN  /\ \A i \in done : output[t][i] = Raise(layer[t][i], Key(t))
        /\ (\A side \in Side : thread[t][side] = "exit") => Pending(t) = {}
        /\ param.kernel = "ChunkedPipeline" =>
             /\ Len(queue[t]) <= Capacity
             /\ done \cap under = {}
             /\ DOMAIN output[t] \cap (done \cup under) = DOMAIN output[t] \cap 1..next[t]

\* The matches are the items both sides have, and the stray ones: with every
\* kernel the same, although two parties' tasks and two stages share their
\* vectors.
MatchesExact ==
  stage = "done" =>
    matches = Cardinality((ToSet(param.server) \cap ToSet(param.client)) \cup param.stray)

\* run() returns: no notification is lost between a full or an empty queue and
\* the thread that waits for it, and close() reaches a consumer that sleeps.
Terminates == <>(stage = "done")
=============================================================================
