------------------------------ MODULE AlszWindow ------------------------------
(***************************************************************************)
(* The windowed pipeline of the ALSZ OT extension (column_num == 128) in   *)
(* src/source/mpc/ot/alsz_ote.cpp.  Each party runs an OpenMP team that    *)
(* walks the row_num rows window by window and shares one buffer matrix_p: *)
(*   - the OT receiver's team fills the tiles of matrix_p ("omp for"),     *)
(*     then its master thread sends the window;                            *)
(*   - the OT sender's master thread receives the window into matrix_p,    *)
(*     then the team turns its tiles into keys ("omp for").                *)
(* A failed transfer is caught by the master, kept in the shared io_error, *)
(* seen by every thread after the next barrier, and rethrown when the      *)
(* team has joined.                                                        *)
(*                                                                         *)
(* Rows are counted in tiles (matrix_batch_size).  A tile of matrix P is   *)
(* named by its offset, the tile number window + tile that also selects    *)
(* the PRG counter.  vecK0[o] = p says that the sender computed the keys   *)
(* of tile o from the tile p it found in the buffer: they match the        *)
(* receiver's keys exactly when p = o.  The connection is a byte stream of *)
(* tiles; a transfer moves one tile per step, so that a thread that        *)
(* touches the buffer during a transfer would be seen.                     *)
(***************************************************************************)
EXTENDS Integers, Sequences

CONSTANTS
  SThreads, SMaster,  \* the OpenMP team of the OT sender and its master
  RThreads, RMaster,  \* the OpenMP team of the OT receiver and its master
  Tiles,              \* row_num, in tiles
  WindowSize,         \* matrix_window_size, in tiles
  SShare, RShare,     \* schedule(static): the thread a tile of a window of
                      \* n tiles goes to, Share[n][tile]
  NetCapacity         \* tiles the connection holds before a send blocks

Schedules(team) == [1..WindowSize -> [0..WindowSize-1 -> team]]

ASSUME TeamAssumption == SMaster \in SThreads /\ RMaster \in RThreads
ASSUME SizeAssumption ==
  Tiles \in Nat /\ WindowSize \in Nat \ {0} /\ NetCapacity \in Nat \ {0}
ASSUME ShareAssumption ==
  SShare \in Schedules(SThreads) /\ RShare \in Schedules(RThreads)

VARIABLES
  sPc, sWindow, sTodo,    \* per thread: control, loop variable, tiles left
  sMatrixP, sIoError,     \* shared by the team
  sGot,                   \* tiles taken from the connection so far
  vecK0, sResult,
  rPc, rWindow, rTodo, rMatrixP, rIoError,
  rPut,                   \* tiles handed to the connection so far
  rResult,
  net                     \* tiles in flight

sVars == <<sPc, sWindow, sTodo, sMatrixP, sIoError, sGot, vecK0, sResult>>
rVars == <<rPc, rWindow, rTodo, rMatrixP, rIoError, rPut, rResult>>
vars  == <<sVars, rVars, net>>

Offsets == 0..Tiles-1
Slots   == 0..WindowSize-1
NoTile  == -1       \* the zero blocks a buffer starts with
NoKey   == -2       \* a key that is not computed yet

\* Seeded fault: the receiver takes the last window to be full.
RWindowRows_NoMin(window) == WindowSize

\* const size_t window_rows = std::min(matrix_window_size, row_num - window);
\* once in the sender's loop and once in the receiver's: nothing on the wire
\* says how long a window is, each side's own count must fit the other's.
SWindowRows(window) ==
  IF Tiles - window < WindowSize THEN Tiles - window ELSE WindowSize
RWindowRows(window) ==
  IF Tiles - window < WindowSize THEN Tiles - window ELSE WindowSize

Chunk(share, rows, t) == {tile \in 0..rows-1 : share[rows][tile] = t}

Init ==
  /\ sPc = [t \in SThreads |-> "loop"]  /\ rPc = [t \in RThreads |-> "loop"]
  /\ sWindow = [t \in SThreads |-> 0]   /\ rWindow = [t \in RThreads |-> 0]
  /\ sTodo = [t \in SThreads |-> {}]    /\ rTodo = [t \in RThreads |-> {}]
  /\ sMatrixP = [i \in Slots |-> NoTile]
  /\ rMatrixP = [i \in Slots |-> NoTile]
  /\ sIoError = FALSE                   /\ rIoError = FALSE
  /\ sGot = 0                           /\ rPut = 0
  /\ vecK0 = [o \in Offsets |-> NoKey]
  /\ sResult = "running"                /\ rResult = "running"
  /\ net = <<>>
-----------------------------------------------------------------------------
(***************************************************************************)
(* The OT sender: random_sender_impl.                                      *)
(***************************************************************************)

\* The head of the window loop.  "omp master" has no barrier of its own: the
\* other threads walk past it.
SLoop(t) ==
  /\ sPc[t] = "loop"
  /\ sPc' = [sPc EXCEPT ![t] = CASE sWindow[t] >= Tiles -> "out"
                                 [] sWindow[t] < Tiles /\ t = SMaster -> "recv"
                                 [] OTHER -> "barrier"]
  /\ UNCHANGED <<sWindow, sTodo, sMatrixP, sIoError, sGot, vecK0, sResult, rVars, net>>

SRecvEnd == sWindow[SMaster] + SWindowRows(sWindow[SMaster])

SRecvTile ==
  /\ sPc[SMaster] = "recv"
  /\ sGot < SRecvEnd
  /\ net # <<>>
  /\ sMatrixP' = [sMatrixP EXCEPT ![sGot - sWindow[SMaster]] = Head(net)]
  /\ net' = Tail(net)
  /\ sGot' = sGot + 1
  /\ UNCHANGED <<sPc, sWindow, sTodo, sIoError, vecK0, sResult, rVars>>

SRecvDone ==
  /\ sPc[SMaster] = "recv"
  /\ sGot = SRecvEnd
  /\ sPc' = [sPc EXCEPT ![SMaster] = "barrier"]
  /\ UNCHANGED <<sWindow, sTodo, sMatrixP, sIoError, sGot, vecK0, sResult, rVars, net>>

\* catch(...) { io_error = std::current_exception(); }
SRecvCatch ==
  /\ sPc[SMaster] = "recv"
  /\ sGot < SRecvEnd
  /\ sIoError' = TRUE
  /\ sPc' = [sPc EXCEPT ![SMaster] = "barrier"]
  /\ UNCHANGED <<sWindow, sTodo, sMatrixP, sGot, vecK0, sResult, rVars, net>>

\* io.recv throws when the peer is gone and the stream is drained ...
SRecvClosed == rResult # "running" /\ net = <<>> /\ SRecvCatch
\* ... and may throw at any time for a reason of the network's own.
SRecvBroken == SRecvCatch

\* Seeded fault: the explicit barrier before the check is missing.
SBarrier_Missing ==
  \E t \in SThreads :
    /\ sPc[t] = "barrier"
    /\ sPc' = [sPc EXCEPT ![t] = "check"]
    /\ UNCHANGED <<sWindow, sTodo, sMatrixP, sIoError, sGot, vecK0, sResult, rVars, net>>

\* #pragma omp barrier
SBarrier ==
  /\ \A t \in SThreads : sPc[t] = "barrier"
  /\ sPc' = [t \in SThreads |-> "check"]
  /\ UNCHANGED <<sWindow, sTodo, sMatrixP, sIoError, sGot, vecK0, sResult, rVars, net>>

\* Seeded fault: only the master looks at io_error.
SCheck_MasterOnly(t) ==
  /\ sPc[t] = "check"
  /\ \/ /\ sIoError /\ t = SMaster
        /\ sPc' = [sPc EXCEPT ![t] = "out"]
        /\ UNCHANGED sTodo
     \/ /\ ~(sIoError /\ t = SMaster)
        /\ sPc' = [sPc EXCEPT ![t] = "for"]
        /\ sTodo' = [sTodo EXCEPT ![t] = Chunk(SShare, SWindowRows(sWindow[t]), t)]
  /\ UNCHANGED <<sWindow, sMatrixP, sIoError, sGot, vecK0, sResult, rVars, net>>

\* if(io_error) break;
SCheck(t) ==
  /\ sPc[t] = "check"
  /\ \/ /\ sIoError
        /\ sPc' = [sPc EXCEPT ![t] = "out"]
        /\ UNCHANGED sTodo
     \/ /\ ~sIoError
        /\ sPc' = [sPc EXCEPT ![t] = "for"]
        /\ sTodo' = [sTodo EXCEPT ![t] = Chunk(SShare, SWindowRows(sWindow[t]), t)]
  /\ UNCHANGED <<sWindow, sMatrixP, sIoError, sGot, vecK0, sResult, rVars, net>>

\* One iteration of the "omp for": the rows at offset window + tile are
\* computed from the sender's PRG columns and the tile found in the buffer.
STile(t) ==
  /\ sPc[t] = "for"
  /\ \E tile \in sTodo[t] :
       /\ vecK0' = [vecK0 EXCEPT ![sWindow[t] + tile] = sMatrixP[tile]]
       /\ sTodo' = [sTodo EXCEPT ![t] = @ \ {tile}]
  /\ UNCHANGED <<sPc, sWindow, sMatrixP, sIoError, sGot, sResult, rVars, net>>

SForDone(t) ==
  /\ sPc[t] = "for"
  /\ sTodo[t] = {}
  /\ sPc' = [sPc EXCEPT ![t] = "forEnd"]
  /\ UNCHANGED <<sWindow, sTodo, sMatrixP, sIoError, sGot, vecK0, sResult, rVars, net>>

\* Seeded fault: "omp for nowait".
SForBarrier_NoWait ==
  \E t \in SThreads :
    /\ sPc[t] = "forEnd"
    /\ sPc' = [sPc EXCEPT ![t] = "loop"]
    /\ sWindow' = [sWindow EXCEPT ![t] = @ + WindowSize]
    /\ UNCHANGED <<sTodo, sMatrixP, sIoError, sGot, vecK0, sResult, rVars, net>>

\* The barrier implied by the end of "omp for", and window += matrix_window_size.
SForBarrier ==
  /\ \A t \in SThreads : sPc[t] = "forEnd"
  /\ sPc' = [t \in SThreads |-> "loop"]
  /\ sWindow' = [t \in SThreads |-> sWindow[t] + WindowSize]
  /\ UNCHANGED <<sTodo, sMatrixP, sIoError, sGot, vecK0, sResult, rVars, net>>

\* Seeded fault: the stored exception is not rethrown after the region.
SJoin_NoRethrow ==
  /\ \A t \in SThreads : sPc[t] = "out"
  /\ sResult = "running"
  /\ sResult' = "keys"
  /\ UNCHANGED <<sPc, sWindow, sTodo, sMatrixP, sIoError, sGot, vecK0, rVars, net>>

\* End of the parallel region; if(io_error) std::rethrow_exception(io_error).
SJoin ==
  /\ \A t \in SThreads : sPc[t] = "out"
  /\ sResult = "running"
  /\ sResult' = IF sIoError THEN "threw" ELSE "keys"
  /\ UNCHANGED <<sPc, sWindow, sTodo, sMatrixP, sIoError, sGot, vecK0, rVars, net>>
-----------------------------------------------------------------------------
(***************************************************************************)
(* The OT receiver: random_receiver.                                       *)
(***************************************************************************)

RLoop(t) ==
  /\ rPc[t] = "loop"
  /\ \/ /\ rWindow[t] < Tiles
        /\ rPc' = [rPc EXCEPT ![t] = "for"]
        /\ rTodo' = [rTodo EXCEPT ![t] = Chunk(RShare, RWindowRows(rWindow[t]), t)]
     \/ /\ rWindow[t] >= Tiles
        /\ rPc' = [rPc EXCEPT ![t] = "out"]
        /\ UNCHANGED rTodo
  /\ UNCHANGED <<rWindow, rMatrixP, rIoError, rPut, rResult, sVars, net>>

\* p = t xor u xor r for the tile at offset window + tile.
RTile(t) ==
  /\ rPc[t] = "for"
  /\ \E tile \in rTodo[t] :
       /\ rMatrixP' = [rMatrixP EXCEPT ![tile] = rWindow[t] + tile]
       /\ rTodo' = [rTodo EXCEPT ![t] = @ \ {tile}]
  /\ UNCHANGED <<rPc, rWindow, rIoError, rPut, rResult, sVars, net>>

RForDone(t) ==
  /\ rPc[t] = "for"
  /\ rTodo[t] = {}
  /\ rPc' = [rPc EXCEPT ![t] = "forEnd"]
  /\ UNCHANGED <<rWindow, rTodo, rMatrixP, rIoError, rPut, rResult, sVars, net>>

\* Seeded fault: "omp for nowait", the master sends while others still write.
RForBarrier_NoWait ==
  \E t \in RThreads :
    /\ rPc[t] = "forEnd"
    /\ rPc' = [rPc EXCEPT ![t] = IF t = RMaster THEN "send" ELSE "barrier"]
    /\ UNCHANGED <<rWindow, rTodo, rMatrixP, rIoError, rPut, rResult, sVars, net>>

\* The barrier implied by the end of "omp for"; then "omp master".
RForBarrier ==
  /\ \A t \in RThreads : rPc[t] = "forEnd"
  /\ rPc' = [t \in RThreads |-> IF t = RMaster THEN "send" ELSE "barrier"]
  /\ UNCHANGED <<rWindow, rTodo, rMatrixP, rIoError, rPut, rResult, sVars, net>>

RSendEnd == rWindow[RMaster] + RWindowRows(rWindow[RMaster])

RSendTile ==
  /\ rPc[RMaster] = "send"
  /\ rPut < RSendEnd
  /\ Len(net) < NetCapacity
  /\ sResult = "running"
  /\ net' = Append(net, rMatrixP[rPut - rWindow[RMaster]])
  /\ rPut' = rPut + 1
  /\ UNCHANGED <<rPc, rWindow, rTodo, rMatrixP, rIoError, rResult, sVars>>

RSendDone ==
  /\ rPc[RMaster] = "send"
  /\ rPut = RSendEnd
  /\ rPc' = [rPc EXCEPT ![RMaster] = "barrier"]
  /\ UNCHANGED <<rWindow, rTodo, rMatrixP, rIoError, rPut, rResult, sVars, net>>

\* catch(...) { io_error = std::current_exception(); }
RSendCatch ==
  /\ rPc[RMaster] = "send"
  /\ rIoError' = TRUE
  /\ rPc' = [rPc EXCEPT ![RMaster] = "barrier"]
  /\ UNCHANGED <<rWindow, rTodo, rMatrixP, rPut, rResult, sVars, net>>

\* io.send throws when the peer is gone and bytes remain to be sent ...
RSendClosed == sResult # "running" /\ rPut < RSendEnd /\ RSendCatch
\* ... and may throw at any time for a reason of the network's own.
RSendBroken == RSendCatch

\* Seeded fault: the barrier after the send is missing.
RBarrier_Missing ==
  \E t \in RThreads :
    /\ rPc[t] = "barrier"
    /\ rPc' = [rPc EXCEPT ![t] = "check"]
    /\ UNCHANGED <<rWindow, rTodo, rMatrixP, rIoError, rPut, rResult, sVars, net>>

\* #pragma omp barrier
RBarrier ==
  /\ \A t \in RThreads : rPc[t] = "barrier"
  /\ rPc' = [t \in RThreads |-> "check"]
  /\ UNCHANGED <<rWindow, rTodo, rMatrixP, rIoError, rPut, rResult, sVars, net>>

\* if(io_error) break; otherwise window += matrix_window_size
RCheck(t) ==
  /\ rPc[t] = "check"
  /\ \/ /\ rIoError
        /\ rPc' = [rPc EXCEPT ![t] = "out"]
        /\ UNCHANGED rWindow
     \/ /\ ~rIoError
        /\ rPc' = [rPc EXCEPT ![t] = "loop"]
        /\ rWindow' = [rWindow EXCEPT ![t] = @ + WindowSize]
  /\ UNCHANGED <<rTodo, rMatrixP, rIoError, rPut, rResult, sVars, net>>

RJoin ==
  /\ \A t \in RThreads : rPc[t] = "out"
  /\ rResult = "running"
  /\ rResult' = IF rIoError THEN "threw" ELSE "keys"
  /\ UNCHANGED <<rPc, rWindow, rTodo, rMatrixP, rIoError, rPut, sVars, net>>
-----------------------------------------------------------------------------
SThread(t) == SLoop(t) \/ SCheck(t) \/ STile(t) \/ SForDone(t)
SShared    == SRecvTile \/ SRecvDone \/ SRecvClosed \/ SBarrier \/ SForBarrier \/ SJoin
RThread(t) == RLoop(t) \/ RTile(t) \/ RForDone(t) \/ RCheck(t)
RShared    == RForBarrier \/ RSendTile \/ RSendDone \/ RSendClosed \/ RBarrier \/ RJoin
Broken     == SRecvBroken \/ RSendBroken

BothLeft == sResult # "running" /\ rResult # "running"

\* Both calls have returned or thrown.
Finished == BothLeft /\ UNCHANGED vars

Next ==
  \/ \E t \in SThreads : SThread(t)
  \/ SShared
  \/ \E t \in RThreads : RThread(t)
  \/ RShared
  \/ Broken
  \/ Finished

\* The operating system runs every thread that can run, and a transfer that
\* can move bytes, or whose peer is gone, eventually does.  Nothing obliges
\* the network to break.
Fairness ==
  /\ \A t \in SThreads : WF_vars(SThread(t))
  /\ \A t \in RThreads : WF_vars(RThread(t))
  /\ WF_vars(SShared) /\ WF_vars(RShared)

Spec == Init /\ [][Next]_vars /\ Fairness
-----------------------------------------------------------------------------
SPcs == {"loop", "recv", "barrier", "check", "for", "forEnd", "out"}
RPcs == {"loop", "for", "forEnd", "send", "barrier", "check", "out"}
TileNames == Offsets \cup {NoTile}
KeyNames  == TileNames \cup {NoKey}

\* Every variable has its type; a master-only location is reached by the
\* master only, and a transfer stays inside its window of the buffer.
TypeOK ==
  /\ sPc \in [SThreads -> SPcs]
  /\ sWindow \in [SThreads -> Nat]
  /\ sTodo \in [SThreads -> SUBSET Slots]
  /\ sMatrixP \in [Slots -> TileNames]
  /\ sIoError \in BOOLEAN
  /\ sGot \in 0..Tiles
  /\ vecK0 \in [Offsets -> KeyNames]
  /\ sResult \in {"running", "keys", "threw"}
  /\ rPc \in [RThreads -> RPcs]
  /\ rWindow \in [RThreads -> Nat]
  /\ rTodo \in [RThreads -> SUBSET Slots]
  /\ rMatrixP \in [Slots -> TileNames]
  /\ rIoError \in BOOLEAN
  /\ rPut \in 0..Tiles
  /\ rResult \in {"running", "keys", "threw"}
  /\ net \in Seq(TileNames)

\* Whatever the interleaving of the two teams and wherever a transfer
\* breaks, a key the sender has computed for a tile of rows was computed from
\* the receiver's matrix for exactly that tile (alsz_ote.cpp 98-151 against
\* 268-304): no stale window, no tile overwritten while in flight.
KeysAgree == \A o \in Offsets : vecK0[o] \in {NoKey, o}

\* A sender that returns keys has all of them: no early break is mistaken
\* for the end of the loop.
KeysComplete ==
  sResult = "keys" => \A o \in Offsets : vecK0[o] = o

\* While a master transfers matrix_p, no thread of its team is in the
\* "omp for" that reads it (sender) or writes it (receiver).
TransferExclusive ==
  /\ sPc[SMaster] = "recv" => \A t \in SThreads : sPc[t] \notin {"check", "for"}
  /\ rPc[RMaster] = "send" => \A t \in RThreads : rPc[t] \notin {"loop", "check", "for"}

\* io_error is a plain variable shared by the team: the master writes it only
\* while no other thread is at the check that reads it.
ErrorWriteRaceFree ==
  [][/\ sIoError' # sIoError => \A t \in SThreads : sPc[t] # "check"
     /\ rIoError' # rIoError => \A t \in RThreads : rPc[t] # "check"]_vars

\* A side still has bytes of its window to move when the other has returned
\* its keys and will move none: it can only throw.
CutShort ==
  \/ rResult = "keys" /\ net = << >> /\ sPc[SMaster] = "recv" /\ sGot < SRecvEnd
  \/ sResult = "keys" /\ rPc[RMaster] = "send" /\ rPut < RSendEnd

\* Both calls leave, with keys or with an exception: a transfer that breaks
\* on one side never leaves a thread of either team at a barrier for ever, and
\* a side that returns its keys never strands the other, whatever the length
\* of the last window (alsz_ote.cpp 99 against 269).
BothLeave == []~CutShort /\ <>BothLeft

Agreed == {o \in Offsets : vecK0[o] = o}

Ideal == INSTANCE AlszIdeal WITH agreed <- Agreed

\* The pipeline implements the ideal correlated-key phase.
IdealSpec == Ideal!Spec
-----------------------------------------------------------------------------
(***************************************************************************)
(* The inductive invariant behind KeysAgree, KeysComplete and              *)
(* TransferExclusive: where the two teams can be relative to their own     *)
(* barriers, what the buffers hold there, and how the two byte counters    *)
(* and the stream between them fit together.                               *)
(***************************************************************************)
SPre  == {"loop", "recv", "barrier"}
SPost == {"check", "for", "forEnd"}

\* The sender's threads are in the same window and on the same side of the
\* explicit barrier; an error keeps every thread out of the "omp for".
SControl ==
  /\ \A t \in SThreads :
       /\ sWindow[t] = sWindow[SMaster]
       /\ sPc[t] = "recv" => t = SMaster
       /\ sPc[t] \in {"recv", "barrier"} \cup SPost => sWindow[t] < Tiles
       /\ sPc[t] = "out" => sIoError \/ sWindow[t] >= Tiles
       /\ sIoError => sPc[t] \notin {"for", "forEnd"}
  /\ \A t, u \in SThreads : ~(sPc[t] \in SPre /\ sPc[u] \in SPost)
  /\ sIoError => sPc[SMaster] \notin {"loop", "recv"}
  /\ sIoError => sWindow[SMaster] < Tiles

\* What the sender has received of the window, and that its buffer holds it.
SBuffer ==
  sWindow[SMaster] < Tiles =>
    /\ sGot \in sWindow[SMaster]..SRecvEnd
    /\ sPc[SMaster] = "loop" => sGot = sWindow[SMaster]
    /\ sPc[SMaster] \in {"barrier"} \cup SPost /\ ~sIoError => sGot = SRecvEnd
    /\ \A i \in Slots : i < sGot - sWindow[SMaster] => sMatrixP[i] = sWindow[SMaster] + i

\* Which keys are computed: all of the earlier windows, and of this one those
\* no thread still has to do.
SKeys ==
  /\ \A o \in Offsets : o < sWindow[SMaster] => vecK0[o] = o
  /\ \A t \in SThreads : sPc[t] \in {"for", "forEnd"} =>
       /\ sTodo[t] \subseteq Chunk(SShare, SWindowRows(sWindow[t]), t)
       /\ sPc[t] = "forEnd" => sTodo[t] = {}
       /\ \A i \in Chunk(SShare, SWindowRows(sWindow[t]), t) \ sTodo[t] :
            vecK0[sWindow[t] + i] = sWindow[t] + i
  /\ sResult # "running" => \A t \in SThreads : sPc[t] = "out"
  /\ sResult = "keys" => ~sIoError

\* The receiver's threads reach the send together; a thread past the check is
\* one window ahead of a thread still at it.
RBase(t) == IF rPc[t] = "check" THEN rWindow[t] + WindowSize ELSE rWindow[t]

RControl ==
  /\ \A t \in RThreads :
       /\ rPc[t] = "send" => t = RMaster
       /\ rPc[t] \in {"for", "forEnd", "send", "barrier", "check"} => rWindow[t] < Tiles
       /\ rIoError => rPc[t] \in {"barrier", "check", "out"}
  /\ \A t, u \in RThreads :
       /\ rPc[t] \in {"send", "barrier"} => rPc[u] \in {"send", "barrier"}
       /\ ~rIoError => RBase(t) = RBase(u)

\* What the receiver has sent of the window, and that its buffer holds it.
RBuffer ==
  ~rIoError =>
    /\ rWindow[RMaster] < Tiles =>
         /\ rPc[RMaster] \in {"loop", "for", "forEnd"} => rPut = rWindow[RMaster]
         /\ rPc[RMaster] = "send" => rPut \in rWindow[RMaster]..RSendEnd
         /\ rPc[RMaster] \in {"barrier", "check"} => rPut = RSendEnd
    /\ \A t \in RThreads : rPc[t] \in {"for", "forEnd"} =>
         /\ rTodo[t] \subseteq Chunk(RShare, RWindowRows(rWindow[t]), t)
         /\ rPc[t] = "forEnd" => rTodo[t] = {}
         /\ \A i \in Chunk(RShare, RWindowRows(rWindow[t]), t) \ rTodo[t] : rMatrixP[i] = rWindow[t] + i
    /\ rPc[RMaster] = "send" =>
         \A i \in 0..RWindowRows(rWindow[RMaster])-1 : rMatrixP[i] = rWindow[RMaster] + i

\* The tiles in flight are the ones sent and not yet received, in order.
Stream ==
  /\ sGot + Len(net) = rPut
  /\ \A k \in 1..Len(net) : net[k] = sGot + k - 1

\* Every interleaving of the two teams keeps control, buffers, keys and
\* stream in step (alsz_ote.cpp 98-151, 268-304).
IInv ==
  /\ TypeOK
  /\ SControl /\ SBuffer /\ SKeys
  /\ RControl /\ RBuffer
  /\ Stream
  /\ KeysAgree
=============================================================================
