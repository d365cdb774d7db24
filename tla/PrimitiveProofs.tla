--------------------------- MODULE PrimitiveProofs ---------------------------
(***************************************************************************)
(* Proofs about two components that stand on their own.                    *)
(*                                                                         *)
(* AlszWindow, for every team, matrix, window and network capacity: IInv   *)
(* is shown inductive action by action; the properties the runs check and  *)
(* the refinement of AlszIdeal follow from it.                             *)
(*                                                                         *)
(* Confidential, for every prime order of the group, all keys, messages    *)
(* and coins: that operations keep a ciphertext the encryption of its      *)
(* plaintext, and for what reasons proving throws.                         *)
(***************************************************************************)
EXTENDS AlszWindow, Confidential, DataLemmas

\* A window that starts inside the matrix has between one tile and WindowSize
\* tiles, and ends at the next window's start or at the end of the matrix, for
\* the sender ...
LEMMA SRowsFacts ==
  ASSUME NEW w \in Nat, w < Tiles
  PROVE  /\ SWindowRows(w) \in 1..WindowSize
         /\ w + SWindowRows(w) <= Tiles
         /\ w + WindowSize < Tiles => SWindowRows(w) = WindowSize
         /\ \A o \in Offsets : o >= w /\ o < w + WindowSize => o - w \in 0..SWindowRows(w)-1
         /\ \A i \in 0..SWindowRows(w)-1 : i \in Slots /\ w + i \in Offsets
BY SizeAssumption DEF SWindowRows, Offsets, Slots

\* ... and for the receiver.
LEMMA RRowsFacts ==
  ASSUME NEW w \in Nat, w < Tiles
  PROVE  /\ RWindowRows(w) \in 1..WindowSize
         /\ w + RWindowRows(w) <= Tiles
         /\ w + WindowSize < Tiles => RWindowRows(w) = WindowSize
         /\ \A i \in 0..RWindowRows(w)-1 : i \in Slots /\ w + i \in Offsets
BY SizeAssumption DEF RWindowRows, Offsets, Slots

\* schedule(static) hands every tile of a window to exactly one thread.
LEMMA ChunkFacts ==
  ASSUME NEW team, NEW share \in Schedules(team), NEW rows \in 1..WindowSize
  PROVE  /\ \A t : Chunk(share, rows, t) \subseteq 0..rows-1
         /\ \A i \in 0..rows-1 : \E t \in team : i \in Chunk(share, rows, t)
         /\ \A t, u : t # u => Chunk(share, rows, t) \cap Chunk(share, rows, u) = {}
<1>1. \A i \in 0..rows-1 : i \in 0..WindowSize-1
  BY SizeAssumption
<1>2. \A i \in 0..rows-1 : share[rows][i] \in team
  BY <1>1 DEF Schedules
<1>3. QED
  BY <1>2 DEF Chunk

\* The receiver's steps leave what is known of the sender alone ...
LEMMA SFrame ==
  ASSUME SControl, SBuffer, SKeys, KeysAgree, UNCHANGED sVars
  PROVE  SControl' /\ SBuffer' /\ SKeys' /\ KeysAgree'
BY DEF SControl, SBuffer, SKeys, KeysAgree, SRecvEnd, sVars

\* ... and the sender's leave what is known of the receiver alone.
LEMMA RFrame ==
  ASSUME RControl, RBuffer, UNCHANGED rVars
  PROVE  RControl' /\ RBuffer'
BY DEF RControl, RBuffer, RSendEnd, RBase, rVars

LEMMA InitIInv == Init => IInv
<1> SUFFICES ASSUME Init PROVE IInv
  OBVIOUS
<1> USE SizeAssumption, TeamAssumption DEF Init
<1>1. TypeOK
  <2>1. net \in Seq(TileNames)
    OBVIOUS
  <2>2. sGot \in 0..Tiles /\ rPut \in 0..Tiles
    OBVIOUS
  <2>3. QED
    BY <2>1, <2>2 DEF TypeOK, SPcs, RPcs, TileNames, KeyNames
<1>2. SControl /\ SKeys /\ KeysAgree
  BY DEF SControl, SKeys, KeysAgree, SPre, SPost, Offsets
<1>3. SBuffer
  BY SRowsFacts DEF SBuffer, SRecvEnd, SPost, Slots
<1>4. RControl
  BY DEF RControl, RBase
<1>5. RBuffer
  BY DEF RBuffer
<1>6. Stream
  BY DEF Stream
<1>7. QED
  BY <1>1, <1>2, <1>3, <1>4, <1>5, <1>6 DEF IInv
-----------------------------------------------------------------------------
(***************************************************************************)
(* One lemma per action.                                                   *)
(***************************************************************************)

LEMMA SLoopStep ==
  ASSUME IInv, NEW t \in SThreads, SLoop(t)
  PROVE  IInv'
<1> USE SizeAssumption, TeamAssumption DEF IInv, SLoop
<1>1. TypeOK'
  BY DEF TypeOK, SPcs, rVars
<1>2. SControl'
  BY DEF TypeOK, SControl, SPre, SPost
<1>3. SBuffer'
  BY SRowsFacts DEF TypeOK, SControl, SBuffer, SRecvEnd, SPost
<1>4. SKeys' /\ KeysAgree'
  BY DEF TypeOK, SKeys, KeysAgree
<1>5. Stream'
  BY DEF Stream, rVars
<1>6. QED
  BY <1>1, <1>2, <1>3, <1>4, <1>5, RFrame DEF rVars

LEMMA SRecvTileStep ==
  ASSUME IInv, SRecvTile
  PROVE  IInv'
<1> USE SizeAssumption, TeamAssumption DEF IInv, SRecvTile
<1> DEFINE w == sWindow[SMaster]
<1>1. w \in Nat /\ w < Tiles
  BY DEF TypeOK, SControl
<1>2. sGot \in w..SRecvEnd-1 /\ sGot - w \in Slots /\ sGot + 1 <= Tiles
  <2>1. sGot \in w..SRecvEnd /\ sGot < SRecvEnd
    BY <1>1 DEF SBuffer
  <2>2. SRecvEnd = w + SWindowRows(w) /\ SWindowRows(w) \in 1..WindowSize /\ SRecvEnd <= Tiles
    BY <1>1, SRowsFacts DEF SRecvEnd
  <2>3. QED
    BY <1>1, <2>1, <2>2 DEF Slots
<1>3. Len(net) > 0 /\ Head(net) = net[1] /\ net[1] = sGot /\ Head(net) \in TileNames
  BY DEF TypeOK, Stream
<1>4. TypeOK'
  <2>1. sMatrixP' \in [Slots -> TileNames]
    BY <1>2, <1>3 DEF TypeOK
  <2>2. net' \in Seq(TileNames)
    BY DEF TypeOK
  <2>3. sGot' \in 0..Tiles
    BY <1>2 DEF TypeOK
  <2>4. QED
    BY <2>1, <2>2, <2>3 DEF TypeOK, rVars
<1>5. SControl'
  BY DEF SControl
<1>6. SBuffer'
  <2>1. \A i \in Slots : i < sGot' - w => sMatrixP'[i] = w + i
    <3>1. sMatrixP' = [sMatrixP EXCEPT ![sGot - w] = sGot] /\ sMatrixP \in [Slots -> TileNames]
      BY <1>3 DEF TypeOK
    <3>2. \A i \in Slots : i < sGot - w => sMatrixP[i] = w + i
      BY <1>1 DEF SBuffer
    <3>3. \A i \in Slots : i < sGot' - w => i < sGot - w \/ i = sGot - w
      BY <1>1, <1>2 DEF Slots
    <3>4. QED
      BY <1>1, <1>2, <3>1, <3>2, <3>3 DEF Slots
  <2>2. sGot' \in w..SRecvEnd
    BY <1>1, <1>2, SRowsFacts DEF SRecvEnd
  <2>3. QED
    BY <2>1, <2>2 DEF SBuffer, SRecvEnd, SPost
<1>7. SKeys' /\ KeysAgree'
  BY DEF SKeys, KeysAgree
<1>8. Stream'
  <2>1. Len(net') = Len(net) - 1 /\ \A k \in 1..Len(net') : net'[k] = net[k + 1] /\ k + 1 \in 1..Len(net)
    BY <1>3 DEF TypeOK
  <2>2. Len(net) \in Nat /\ sGot \in Nat /\ sGot' = sGot + 1 /\ rPut' = rPut
    BY DEF TypeOK, rVars
  <2>3. sGot + Len(net) = rPut /\ \A k \in 1..Len(net) : net[k] = sGot + k - 1
    BY DEF Stream
  <2>4. \A k \in 1..Len(net') : net'[k] = sGot' + k - 1
    BY <2>1, <2>2, <2>3
  <2>5. sGot' + Len(net') = rPut'
    BY <2>1, <2>2, <2>3
  <2>6. QED
    BY <2>4, <2>5 DEF Stream
<1>9. QED
  BY <1>4, <1>5, <1>6, <1>7, <1>8, RFrame DEF rVars

LEMMA SRecvDoneStep ==
  ASSUME IInv, SRecvDone
  PROVE  IInv'
<1> USE SizeAssumption, TeamAssumption DEF IInv, SRecvDone
<1>1. TypeOK'
  BY DEF TypeOK, SPcs, rVars
<1>2. SControl'
  BY DEF TypeOK, SControl, SPre, SPost
<1>3. SBuffer'
  BY DEF TypeOK, SControl, SBuffer, SRecvEnd, SPost
<1>4. SKeys' /\ KeysAgree'
  BY DEF TypeOK, SKeys, KeysAgree
<1>5. Stream'
  BY DEF Stream, rVars
<1>6. QED
  BY <1>1, <1>2, <1>3, <1>4, <1>5, RFrame DEF rVars

LEMMA SRecvCatchStep ==
  ASSUME IInv, SRecvCatch
  PROVE  IInv'
<1> USE SizeAssumption, TeamAssumption DEF IInv, SRecvCatch
<1>1. TypeOK'
  BY DEF TypeOK, SPcs, rVars
<1>2. SControl'
  BY DEF TypeOK, SControl, SPre, SPost
<1>3. SBuffer'
  BY DEF TypeOK, SControl, SBuffer, SRecvEnd, SPost
<1>4. SKeys' /\ KeysAgree'
  BY DEF TypeOK, SKeys, KeysAgree
<1>5. Stream'
  BY DEF Stream, rVars
<1>6. QED
  BY <1>1, <1>2, <1>3, <1>4, <1>5, RFrame DEF rVars

LEMMA SBarrierStep ==
  ASSUME IInv, SBarrier
  PROVE  IInv'
<1> USE SizeAssumption, TeamAssumption DEF IInv, SBarrier
<1>1. TypeOK'
  BY DEF TypeOK, SPcs, rVars
<1>2. SControl'
  BY DEF TypeOK, SControl, SPre, SPost
<1>3. SBuffer'
  BY DEF TypeOK, SControl, SBuffer, SRecvEnd, SPost
<1>4. SKeys' /\ KeysAgree'
  BY DEF TypeOK, SKeys, KeysAgree
<1>5. Stream'
  BY DEF Stream, rVars
<1>6. QED
  BY <1>1, <1>2, <1>3, <1>4, <1>5, RFrame DEF rVars

LEMMA SCheckStep ==
  ASSUME IInv, NEW t \in SThreads, SCheck(t)
  PROVE  IInv'
<1> USE SizeAssumption, TeamAssumption DEF IInv, SCheck
<1>1. sWindow[t] \in Nat /\ sWindow[t] < Tiles
  BY DEF TypeOK, SControl, SPost
<1>2. Chunk(SShare, SWindowRows(sWindow[t]), t) \subseteq Slots
  BY <1>1, SRowsFacts DEF Chunk
<1>3. TypeOK'
  <2>1. sPc' \in [SThreads -> SPcs]
    BY DEF TypeOK, SPcs
  <2>2. sTodo' \in [SThreads -> SUBSET Slots]
    BY <1>2 DEF TypeOK
  <2>3. QED
    BY <2>1, <2>2 DEF TypeOK, rVars
<1>4. SControl'
  BY DEF TypeOK, SControl, SPre, SPost
<1>5. SBuffer'
  BY DEF TypeOK, SControl, SBuffer, SRecvEnd, SPost
<1>6. SKeys' /\ KeysAgree'
  <2>1. CASE sIoError
    BY <2>1 DEF TypeOK, SKeys, KeysAgree
  <2>2. CASE ~sIoError
    <3>1. /\ sPc' = [sPc EXCEPT ![t] = "for"]
          /\ sTodo' = [sTodo EXCEPT ![t] = Chunk(SShare, SWindowRows(sWindow[t]), t)]
          /\ UNCHANGED <<sWindow, vecK0, sIoError, sResult>>
      BY <2>2
    <3>2. ASSUME NEW u \in SThreads, sPc'[u] \in {"for", "forEnd"}
          PROVE  /\ sTodo'[u] \subseteq Chunk(SShare, SWindowRows(sWindow'[u]), u)
                 /\ sPc'[u] = "forEnd" => sTodo'[u] = {}
                 /\ \A i \in Chunk(SShare, SWindowRows(sWindow'[u]), u) \ sTodo'[u] :
                       vecK0'[sWindow'[u] + i] = sWindow'[u] + i
      <4>1. CASE u = t
        BY <3>1, <4>1 DEF TypeOK
      <4>2. CASE u # t
        BY <3>1, <3>2, <4>2 DEF TypeOK, SKeys
      <4>3. QED
        BY <4>1, <4>2
    <3>3. sResult' # "running" => \A u \in SThreads : sPc'[u] = "out"
      BY <3>1 DEF SKeys
    <3>4. QED
      BY <3>1, <3>2, <3>3 DEF SKeys, KeysAgree
  <2>3. QED
    BY <2>1, <2>2
<1>7. Stream'
  BY DEF Stream, rVars
<1>8. QED
  BY <1>3, <1>4, <1>5, <1>6, <1>7, RFrame DEF rVars

\* A thread in the "omp for" finds the tile of its own offset in the buffer.
LEMMA TileReady ==
  ASSUME IInv, NEW t \in SThreads, sPc[t] = "for", NEW tile \in sTodo[t]
  PROVE  /\ sWindow[t] \in Nat /\ sWindow[t] < Tiles /\ sWindow[t] = sWindow[SMaster] /\ ~sIoError
         /\ tile \in 0..SWindowRows(sWindow[t])-1 /\ tile \in Slots
         /\ sWindow[t] + tile \in Offsets
         /\ sMatrixP[tile] = sWindow[t] + tile
<1> USE SizeAssumption, TeamAssumption DEF IInv
<1> DEFINE w == sWindow[SMaster]
<1>1. w \in Nat /\ w < Tiles /\ sWindow[t] = w /\ ~sIoError
  BY DEF TypeOK, SControl, SPost
<1>2. tile \in 0..SWindowRows(w)-1
  BY <1>1 DEF SKeys, Chunk
<1>3. tile \in Slots /\ w + tile \in Offsets
  BY <1>1, <1>2, SRowsFacts
<1>4. sPc[SMaster] \in SPost
  BY <1>1 DEF SControl, SPre, SPost, TypeOK, SPcs
<1>5. sGot = w + SWindowRows(w)
  BY <1>1, <1>4 DEF SBuffer, SRecvEnd
<1>6. SWindowRows(w) \in Nat
  BY <1>1, SRowsFacts
<1>7. tile < sGot - w
  BY <1>1, <1>2, <1>5, <1>6
<1>8. sMatrixP[tile] = w + tile
  BY <1>1, <1>3, <1>7 DEF SBuffer
<1>9. QED
  BY <1>1, <1>2, <1>3, <1>8

LEMMA STileStep ==
  ASSUME IInv, NEW t \in SThreads, STile(t)
  PROVE  IInv'
<1> USE SizeAssumption, TeamAssumption DEF IInv
<1> DEFINE w == sWindow[SMaster]
<1>1. PICK tile \in sTodo[t] : /\ vecK0' = [vecK0 EXCEPT ![sWindow[t] + tile] = sMatrixP[tile]]
                             /\ sTodo' = [sTodo EXCEPT ![t] = @ \ {tile}]
  BY DEF STile
<1>2. /\ sPc[t] = "for"
      /\ UNCHANGED <<sPc, sWindow, sMatrixP, sIoError, sGot, sResult, rVars, net>>
  BY DEF STile
<1>3. w \in Nat /\ w < Tiles /\ sWindow[t] = w /\ ~sIoError
  BY <1>2, TileReady
<1>4. tile \in 0..SWindowRows(w)-1
  BY <1>2, <1>3, TileReady
<1>5. tile \in Slots /\ w + tile \in Offsets
  BY <1>2, <1>3, TileReady
<1>6. sMatrixP[tile] = w + tile
  BY <1>2, <1>3, TileReady
<1>7. TypeOK'
  <2>1. vecK0' \in [Offsets -> KeyNames]
    BY <1>1, <1>3, <1>5, <1>6 DEF TypeOK, TileNames, KeyNames
  <2>2. sTodo' \in [SThreads -> SUBSET Slots]
    BY <1>1 DEF TypeOK
  <2>3. QED
    BY <1>2, <2>1, <2>2 DEF TypeOK, rVars
<1>8. SControl'
  BY <1>2 DEF SControl
<1>9. SBuffer'
  BY <1>2 DEF SBuffer, SRecvEnd
<1>10. vecK0' = [vecK0 EXCEPT ![w + tile] = w + tile] /\ vecK0 \in [Offsets -> KeyNames]
  BY <1>1, <1>3, <1>6 DEF TypeOK
<1>11. KeysAgree'
  BY <1>5, <1>10 DEF KeysAgree
<1>12. SKeys'
  <2>1. \A o \in Offsets : o < w' => vecK0'[o] = o
    BY <1>2, <1>5, <1>10 DEF SKeys
  <2>2. ASSUME NEW u \in SThreads, sPc'[u] \in {"for", "forEnd"}
        PROVE  /\ sTodo'[u] \subseteq Chunk(SShare, SWindowRows(sWindow'[u]), u)
               /\ sPc'[u] = "forEnd" => sTodo'[u] = {}
               /\ \A i \in Chunk(SShare, SWindowRows(sWindow'[u]), u) \ sTodo'[u] :
                     vecK0'[sWindow'[u] + i] = sWindow'[u] + i
    <3>1. sWindow'[u] = w /\ sWindow[u] = w /\ sPc[u] \in {"for", "forEnd"}
      BY <1>2, <2>2 DEF SControl
    <3>2. sTodo'[u] \subseteq sTodo[u] /\ (u # t => sTodo'[u] = sTodo[u]) /\ sTodo'[t] = sTodo[t] \ {tile}
      BY <1>1 DEF TypeOK
    <3>3. sTodo'[u] \subseteq Chunk(SShare, SWindowRows(w), u) /\ (sPc'[u] = "forEnd" => sTodo'[u] = {})
      BY <1>2, <3>1, <3>2 DEF SKeys
    <3>4. ASSUME NEW i \in Chunk(SShare, SWindowRows(w), u) \ sTodo'[u]
          PROVE  vecK0'[w + i] = w + i
      <4>1. i \in 0..SWindowRows(w)-1 /\ w + i \in Offsets
        BY <1>3, SRowsFacts DEF Chunk
      <4>2. CASE i = tile
        BY <1>5, <1>10, <4>2
      <4>3. CASE i # tile
        <5>1. i \in Chunk(SShare, SWindowRows(w), u) \ sTodo[u]
          BY <3>2, <4>3
        <5>2. vecK0[w + i] = w + i
          BY <3>1, <5>1 DEF SKeys
        <5>3. QED
          BY <1>5, <1>10, <4>1, <5>2
      <4>4. QED
        BY <4>2, <4>3
    <3>5. QED
      BY <3>1, <3>3, <3>4
  <2>3. QED
    BY <1>2, <2>1, <2>2 DEF SKeys
<1>13. Stream'
  BY <1>2 DEF Stream, rVars
<1>14. QED
  BY <1>2, <1>7, <1>8, <1>9, <1>11, <1>12, <1>13, RFrame DEF rVars

LEMMA SForDoneStep ==
  ASSUME IInv, NEW t \in SThreads, SForDone(t)
  PROVE  IInv'
<1> USE SizeAssumption, TeamAssumption DEF IInv, SForDone
<1>1. TypeOK'
  BY DEF TypeOK, SPcs, rVars
<1>2. SControl'
  BY DEF TypeOK, SControl, SPre, SPost
<1>3. SBuffer'
  BY DEF TypeOK, SControl, SBuffer, SRecvEnd, SPost
<1>4. SKeys' /\ KeysAgree'
  BY DEF TypeOK, SKeys, KeysAgree
<1>5. Stream'
  BY DEF Stream, rVars
<1>6. QED
  BY <1>1, <1>2, <1>3, <1>4, <1>5, RFrame DEF rVars

LEMMA SForBarrierStep ==
  ASSUME IInv, SForBarrier
  PROVE  IInv'
<1> USE SizeAssumption, TeamAssumption DEF IInv, SForBarrier
<1> DEFINE w == sWindow[SMaster]
<1>1. w \in Nat /\ w < Tiles /\ ~sIoError /\ \A t \in SThreads : sWindow[t] = w
  BY DEF TypeOK, SControl, SPost
<1>2. sWindow' = [t \in SThreads |-> w + WindowSize]
  BY <1>1
<1>3. sGot = w + SWindowRows(w)
  BY <1>1 DEF SBuffer, SRecvEnd, SPost
<1>4. TypeOK'
  BY <1>1, <1>2 DEF TypeOK, SPcs, rVars
<1>5. SControl'
  BY <1>1, <1>2 DEF TypeOK, SControl, SPre, SPost
<1>6. SBuffer'
  <2>1. SUFFICES ASSUME w + WindowSize < Tiles PROVE SBuffer'
    BY <1>2 DEF SBuffer
  <2>2. sGot' = w + WindowSize /\ sWindow'[SMaster] = w + WindowSize
    BY <1>1, <1>2, <1>3, <2>1, SRowsFacts
  <2>3. SRecvEnd' = w + WindowSize + SWindowRows(w + WindowSize)
    BY <1>2 DEF SRecvEnd, SWindowRows
  <2>4. SWindowRows(w + WindowSize) \in Nat
    BY <1>1, <2>1, SRowsFacts
  <2>5. \A i \in Slots : ~(i < sGot' - sWindow'[SMaster])
    BY <1>1, <2>2 DEF Slots
  <2>6. sGot' \in sWindow'[SMaster]..SRecvEnd'
    BY <1>1, <2>2, <2>3, <2>4
  <2>7. QED
    BY <2>2, <2>5, <2>6 DEF SBuffer, SPost
<1>7. \A o \in Offsets : o < w + WindowSize => vecK0[o] = o
  <2>1. SUFFICES ASSUME NEW o \in Offsets, o >= w, o < w + WindowSize PROVE vecK0[o] = o
    BY <1>1 DEF SKeys, Offsets
  <2>2. o - w \in 0..SWindowRows(w)-1
    BY <1>1, <2>1, SRowsFacts
  <2>3. PICK t \in SThreads : o - w \in Chunk(SShare, SWindowRows(w), t)
    BY <1>1, <2>2, SRowsFacts, ShareAssumption, ChunkFacts
  <2>4. vecK0[w + (o - w)] = w + (o - w)
    BY <1>1, <2>3 DEF SKeys
  <2>5. QED
    BY <1>1, <2>4 DEF Offsets
<1>8. SKeys' /\ KeysAgree'
  BY <1>2, <1>7 DEF TypeOK, SKeys, KeysAgree
<1>9. Stream'
  BY DEF Stream, rVars
<1>10. QED
  BY <1>4, <1>5, <1>6, <1>8, <1>9, RFrame DEF rVars

LEMMA SJoinStep ==
  ASSUME IInv, SJoin
  PROVE  IInv'
<1> USE SizeAssumption, TeamAssumption DEF IInv, SJoin
<1>1. TypeOK'
  BY DEF TypeOK, rVars
<1>2. SControl' /\ SBuffer'
  BY DEF SControl, SBuffer, SRecvEnd
<1>3. SKeys' /\ KeysAgree'
  BY DEF SKeys, KeysAgree
<1>4. Stream'
  BY DEF Stream, rVars
<1>5. QED
  BY <1>1, <1>2, <1>3, <1>4, RFrame DEF rVars

LEMMA RLoopStep ==
  ASSUME IInv, NEW t \in RThreads, RLoop(t)
  PROVE  IInv'
<1> USE SizeAssumption, TeamAssumption DEF IInv
<1>1. /\ rPc[t] = "loop" /\ rWindow[t] \in Nat
      /\ UNCHANGED <<rWindow, rMatrixP, rIoError, rPut, rResult, sVars, net>>
  BY DEF RLoop, TypeOK
<1>2. CASE rWindow[t] < Tiles
  <2>1. /\ rPc' = [rPc EXCEPT ![t] = "for"]
        /\ rTodo' = [rTodo EXCEPT ![t] = Chunk(RShare, RWindowRows(rWindow[t]), t)]
    <3>1. ~(rWindow[t] >= Tiles)
      BY <1>1, <1>2
    <3>2. QED
      BY <3>1, RLoop(t) DEF RLoop
  <2>2. Chunk(RShare, RWindowRows(rWindow[t]), t) \subseteq Slots
    BY <1>1, <1>2, RRowsFacts DEF Chunk
  <2>3. TypeOK'
    BY <1>1, <2>1, <2>2 DEF TypeOK, RPcs, sVars
  <2>4. RControl'
    BY <1>1, <1>2, <2>1 DEF TypeOK, RControl, RBase
  <2>5. RBuffer'
    <3>1. ASSUME ~rIoError', NEW u \in RThreads, rPc'[u] \in {"for", "forEnd"}
          PROVE  /\ rTodo'[u] \subseteq Chunk(RShare, RWindowRows(rWindow'[u]), u)
                 /\ rPc'[u] = "forEnd" => rTodo'[u] = {}
                 /\ \A i \in Chunk(RShare, RWindowRows(rWindow'[u]), u) \ rTodo'[u] :
                       rMatrixP'[i] = rWindow'[u] + i
      <4>1. CASE u = t
        BY <1>1, <2>1, <4>1 DEF TypeOK
      <4>2. CASE u # t
        BY <1>1, <2>1, <3>1, <4>2 DEF TypeOK, RBuffer
      <4>3. QED
        BY <4>1, <4>2
    <3>2. QED
      BY <1>1, <2>1, <3>1 DEF TypeOK, RBuffer, RSendEnd
  <2>6. QED
    BY <1>1, <2>3, <2>4, <2>5, SFrame DEF Stream, sVars
<1>3. CASE rWindow[t] >= Tiles
  <2>1. rPc' = [rPc EXCEPT ![t] = "out"] /\ rTodo' = rTodo
    BY <1>1, <1>3, SizeAssumption DEF RLoop
  <2>2. TypeOK'
    BY <1>1, <2>1 DEF TypeOK, RPcs, sVars
  <2>3. RControl'
    BY <1>1, <1>3, <2>1 DEF TypeOK, RControl, RBase
  <2>4. RBuffer'
    BY <1>1, <2>1 DEF TypeOK, RBuffer, RSendEnd
  <2>5. QED
    BY <1>1, <2>2, <2>3, <2>4, SFrame DEF Stream, sVars
<1>4. QED
  BY <1>1, <1>2, <1>3

LEMMA RTileStep ==
  ASSUME IInv, NEW t \in RThreads, RTile(t)
  PROVE  IInv'
<1> USE SizeAssumption, TeamAssumption DEF IInv
<1>1. PICK tile \in rTodo[t] : /\ rMatrixP' = [rMatrixP EXCEPT ![tile] = rWindow[t] + tile]
                             /\ rTodo' = [rTodo EXCEPT ![t] = @ \ {tile}]
  BY DEF RTile
<1>2. rPc[t] = "for" /\ UNCHANGED <<rPc, rWindow, rIoError, rPut, rResult, sVars, net>>
  BY DEF RTile
<1>3. ~rIoError /\ rWindow[t] \in Nat /\ rWindow[t] < Tiles
  BY <1>2 DEF TypeOK, RControl
<1>4. tile \in Chunk(RShare, RWindowRows(rWindow[t]), t) /\ tile \in Slots /\ rWindow[t] + tile \in Offsets
  BY <1>2, <1>3, RRowsFacts DEF RBuffer, Chunk
<1>5. TypeOK'
  <2>1. rMatrixP' \in [Slots -> TileNames]
    BY <1>1, <1>4 DEF TypeOK, TileNames
  <2>2. rTodo' \in [RThreads -> SUBSET Slots]
    BY <1>1 DEF TypeOK
  <2>3. QED
    BY <1>2, <2>1, <2>2 DEF TypeOK, sVars
<1>6. RControl'
  BY <1>2 DEF RControl, RBase
<1>7. rPc[RMaster] # "send"
  BY <1>2 DEF RControl
<1>8. ASSUME NEW u \in RThreads, rPc'[u] \in {"for", "forEnd"}
      PROVE  /\ rTodo'[u] \subseteq Chunk(RShare, RWindowRows(rWindow'[u]), u)
             /\ rPc'[u] = "forEnd" => rTodo'[u] = {}
             /\ \A i \in Chunk(RShare, RWindowRows(rWindow'[u]), u) \ rTodo'[u] :
                   rMatrixP'[i] = rWindow'[u] + i
  <2>1. rWindow[u] = rWindow[t] /\ rWindow'[u] = rWindow[u] /\ rPc[u] \in {"for", "forEnd"}
    BY <1>2, <1>3, <1>8 DEF RControl, RBase
  <2>2. rTodo'[u] \subseteq rTodo[u] /\ (u # t => rTodo'[u] = rTodo[u]) /\ rTodo'[t] = rTodo[t] \ {tile}
    BY <1>1 DEF TypeOK
  <2>3. rTodo'[u] \subseteq Chunk(RShare, RWindowRows(rWindow'[u]), u) /\ (rPc'[u] = "forEnd" => rTodo'[u] = {})
    BY <1>2, <1>3, <2>1, <2>2 DEF RBuffer
  <2>4. ASSUME NEW i \in Chunk(RShare, RWindowRows(rWindow[t]), u) \ rTodo'[u]
        PROVE  rMatrixP'[i] = rWindow[t] + i
    <3>1. rMatrixP \in [Slots -> TileNames] /\ i \in Slots
      BY <1>3, RRowsFacts DEF TypeOK, Chunk
    <3>2. CASE i = tile
      BY <1>1, <1>4, <3>1, <3>2
    <3>3. CASE i # tile
      <4>1. i \in Chunk(RShare, RWindowRows(rWindow[u]), u) \ rTodo[u]
        BY <2>1, <2>2, <3>3
      <4>2. rMatrixP[i] = rWindow[u] + i
        BY <1>3, <2>1, <4>1 DEF RBuffer
      <4>3. QED
        BY <1>1, <1>4, <2>1, <3>1, <3>3, <4>2
    <3>4. QED
      BY <3>2, <3>3
  <2>5. QED
    BY <2>1, <2>3, <2>4
<1>9. RBuffer'
  BY <1>2, <1>7, <1>8 DEF RBuffer, RSendEnd
<1>10. QED
  BY <1>2, <1>5, <1>6, <1>9, SFrame DEF Stream, sVars

LEMMA RForDoneStep ==
  ASSUME IInv, NEW t \in RThreads, RForDone(t)
  PROVE  IInv'
<1> USE SizeAssumption, TeamAssumption DEF IInv, RForDone
<1>1. TypeOK'
  BY DEF TypeOK, RPcs, sVars
<1>2. RControl'
  BY DEF TypeOK, RControl, RBase
<1>3. RBuffer'
  BY DEF TypeOK, RBuffer, RSendEnd
<1>4. QED
  BY <1>1, <1>2, <1>3, SFrame DEF Stream, sVars

LEMMA RForBarrierStep ==
  ASSUME IInv, RForBarrier
  PROVE  IInv'
<1> USE SizeAssumption, TeamAssumption DEF IInv, RForBarrier
<1> DEFINE w == rWindow[RMaster]
<1>1. w \in Nat /\ w < Tiles /\ ~rIoError /\ \A t \in RThreads : rWindow[t] = w
  BY DEF TypeOK, RControl, RBase
<1>2. \A i \in 0..RWindowRows(w)-1 : rMatrixP[i] = w + i
  <2>1. SUFFICES ASSUME NEW i \in 0..RWindowRows(w)-1 PROVE rMatrixP[i] = w + i
    OBVIOUS
  <2>2. PICK t \in RThreads : i \in Chunk(RShare, RWindowRows(w), t)
    BY <1>1, RRowsFacts, ShareAssumption, ChunkFacts
  <2>3. QED
    BY <1>1, <2>2 DEF RBuffer
<1>3. TypeOK'
  BY DEF TypeOK, RPcs, sVars
<1>4. RControl'
  BY <1>1 DEF TypeOK, RControl, RBase
<1>5. RBuffer'
  BY <1>1, <1>2, RRowsFacts DEF TypeOK, RBuffer, RSendEnd
<1>6. QED
  BY <1>3, <1>4, <1>5, SFrame DEF Stream, sVars

LEMMA RSendTileStep ==
  ASSUME IInv, RSendTile
  PROVE  IInv'
<1> USE SizeAssumption, TeamAssumption DEF IInv, RSendTile
<1> DEFINE w == rWindow[RMaster]
           d == rMatrixP[rPut - w]
<1>1. w \in Nat /\ w < Tiles /\ ~rIoError
  BY DEF TypeOK, RControl
<1>2. RWindowRows(w) \in 1..WindowSize /\ w + RWindowRows(w) <= Tiles /\ RSendEnd = w + RWindowRows(w)
  BY <1>1, RRowsFacts DEF RSendEnd
<1>3. rPut \in w..RSendEnd /\ rPut < RSendEnd
  BY <1>1 DEF RBuffer
<1>4. rPut - w \in 0..RWindowRows(w)-1
  BY <1>1, <1>2, <1>3
<1>5. d = rPut /\ d \in TileNames
  <2>1. d = w + (rPut - w)
    BY <1>1, <1>4 DEF RBuffer
  <2>2. d = rPut
    BY <1>1, <1>3, <2>1
  <2>3. QED
    BY <1>1, <1>2, <1>3, <2>2 DEF TileNames, Offsets
<1>6. TypeOK'
  <2>1. net' \in Seq(TileNames)
    BY <1>5 DEF TypeOK
  <2>2. rPut' \in 0..Tiles
    BY <1>1, <1>2, <1>3
  <2>3. QED
    BY <2>1, <2>2 DEF TypeOK, sVars
<1>7. RControl'
  BY DEF RControl, RBase
<1>8. RBuffer'
  <2>1. rPut' \in w..RSendEnd
    BY <1>1, <1>2, <1>3
  <2>2. QED
    BY <2>1 DEF RBuffer, RSendEnd
<1>9. Stream'
  <2>1. net' = Append(net, rPut) /\ net \in Seq(TileNames)
    BY <1>5 DEF TypeOK
  <2>2. /\ Len(net') = Len(net) + 1 /\ Len(net) \in Nat
        /\ \A k \in 1..Len(net) : net'[k] = net[k]
        /\ net'[Len(net) + 1] = rPut
    BY <2>1
  <2>3. sGot \in Nat /\ rPut \in Nat /\ UNCHANGED sGot
    BY DEF TypeOK, sVars
  <2>4. sGot + Len(net) = rPut /\ \A k \in 1..Len(net) : net[k] = sGot + k - 1
    BY DEF Stream
  <2>5. QED
    BY <2>2, <2>3, <2>4, SMTT(30) DEF Stream
<1>10. QED
  BY <1>6, <1>7, <1>8, <1>9, SFrame

LEMMA RSendDoneStep ==
  ASSUME IInv, RSendDone
  PROVE  IInv'
<1> USE SizeAssumption, TeamAssumption DEF IInv, RSendDone
<1>1. TypeOK'
  BY DEF TypeOK, RPcs, sVars
<1>2. RControl'
  BY DEF TypeOK, RControl, RBase
<1>3. RBuffer'
  BY DEF TypeOK, RControl, RBuffer, RSendEnd
<1>4. QED
  BY <1>1, <1>2, <1>3, SFrame DEF Stream, sVars

LEMMA RSendCatchStep ==
  ASSUME IInv, RSendCatch
  PROVE  IInv'
<1> USE SizeAssumption, TeamAssumption DEF IInv, RSendCatch
<1>1. TypeOK'
  BY DEF TypeOK, RPcs, sVars
<1>2. RControl'
  <2>1. \A u \in RThreads : u # RMaster => rPc[u] = "barrier"
    BY DEF TypeOK, RControl
  <2>2. QED
    BY <2>1 DEF TypeOK, RControl, RBase
<1>3. RBuffer'
  BY DEF RBuffer
<1>4. QED
  BY <1>1, <1>2, <1>3, SFrame DEF Stream, sVars

LEMMA RBarrierStep ==
  ASSUME IInv, RBarrier
  PROVE  IInv'
<1> USE SizeAssumption, TeamAssumption DEF IInv, RBarrier
<1>1. TypeOK'
  BY DEF TypeOK, RPcs, sVars
<1>2. RControl'
  BY DEF TypeOK, RControl, RBase
<1>3. RBuffer'
  BY DEF TypeOK, RBuffer, RSendEnd
<1>4. QED
  BY <1>1, <1>2, <1>3, SFrame DEF Stream, sVars

LEMMA RCheckStep ==
  ASSUME IInv, NEW t \in RThreads, RCheck(t)
  PROVE  IInv'
<1> USE SizeAssumption, TeamAssumption DEF IInv
<1>1. /\ rPc[t] = "check" /\ rWindow[t] \in Nat /\ rWindow[t] < Tiles
      /\ UNCHANGED <<rTodo, rMatrixP, rIoError, rPut, rResult, sVars, net>>
  BY DEF RCheck, RControl, TypeOK
<1>2. CASE rIoError
  <2>1. rPc' = [rPc EXCEPT ![t] = "out"] /\ rWindow' = rWindow
    BY <1>2, RCheck(t) DEF RCheck
  <2>2. TypeOK'
    BY <1>1, <2>1 DEF TypeOK, RPcs, sVars
  <2>3. RControl'
    BY <1>1, <1>2, <2>1 DEF TypeOK, RControl, RBase
  <2>4. RBuffer'
    BY <1>1, <1>2 DEF RBuffer
  <2>5. QED
    BY <1>1, <2>2, <2>3, <2>4, SFrame DEF Stream, sVars
<1>3. CASE ~rIoError
  <2>1. /\ rPc' = [rPc EXCEPT ![t] = "loop"]
        /\ rWindow' = [rWindow EXCEPT ![t] = rWindow[t] + WindowSize]
    BY <1>3, RCheck(t) DEF RCheck
  <2>2. TypeOK'
    BY <1>1, <2>1 DEF TypeOK, RPcs, sVars
  <2>3. RControl'
    <3>1. \A u \in RThreads : RBase(u)' = RBase(u)
      BY <1>1, <2>1 DEF TypeOK, RBase
    <3>2. QED
      BY <1>1, <1>3, <2>1, <3>1 DEF TypeOK, RControl
  <2>4. RBuffer'
    <3>1. /\ \A u \in RThreads : u # t => rPc'[u] = rPc[u] /\ rWindow'[u] = rWindow[u]
          /\ rPc'[t] = "loop" /\ rWindow'[t] = rWindow[t] + WindowSize
      BY <2>1 DEF TypeOK
    <3>2. t = RMaster /\ rWindow'[t] < Tiles => rPut = rWindow'[t]
      <4>1. SUFFICES ASSUME t = RMaster, rWindow[t] + WindowSize < Tiles
                     PROVE  rPut = rWindow[t] + WindowSize
        BY <3>1
      <4>2. rPut = rWindow[t] + RWindowRows(rWindow[t])
        BY <1>1, <1>3, <4>1 DEF RBuffer, RSendEnd
      <4>3. QED
        BY <1>1, <4>1, <4>2, RRowsFacts
    <3>3. CASE t = RMaster
      BY <1>1, <1>3, <3>1, <3>2, <3>3 DEF RBuffer, RSendEnd
    <3>4. CASE t # RMaster
      BY <1>1, <1>3, <3>1, <3>4 DEF RBuffer, RSendEnd
    <3>5. QED
      BY <3>3, <3>4
  <2>5. QED
    BY <1>1, <2>2, <2>3, <2>4, SFrame DEF Stream, sVars
<1>4. QED
  BY <1>2, <1>3

LEMMA RJoinStep ==
  ASSUME IInv, RJoin
  PROVE  IInv'
<1> USE DEF IInv, RJoin
<1>1. TypeOK'
  BY DEF TypeOK, sVars
<1>2. RControl' /\ RBuffer'
  BY DEF RControl, RBuffer, RBase, RSendEnd
<1>3. QED
  BY <1>1, <1>2, SFrame DEF Stream, sVars

LEMMA NextIInv == IInv /\ [Next]_vars => IInv'
<1> SUFFICES ASSUME IInv, [Next]_vars PROVE IInv'
  OBVIOUS
<1>1. ASSUME NEW t \in SThreads, SThread(t) PROVE IInv'
  BY <1>1, SLoopStep, SCheckStep, STileStep, SForDoneStep DEF SThread
<1>2. CASE SShared
  <2>1. SRecvClosed => SRecvCatch
    BY DEF SRecvClosed
  <2>2. QED
    BY <1>2, <2>1, SRecvTileStep, SRecvDoneStep, SRecvCatchStep, SBarrierStep,
       SForBarrierStep, SJoinStep DEF SShared
<1>3. ASSUME NEW t \in RThreads, RThread(t) PROVE IInv'
  BY <1>3, RLoopStep, RTileStep, RForDoneStep, RCheckStep DEF RThread
<1>4. CASE RShared
  <2>1. RSendClosed => RSendCatch
    BY DEF RSendClosed
  <2>2. QED
    BY <1>4, <2>1, RForBarrierStep, RSendTileStep, RSendDoneStep, RSendCatchStep,
       RBarrierStep, RJoinStep DEF RShared
<1>5. CASE Broken
  BY <1>5, SRecvCatchStep, RSendCatchStep DEF Broken, SRecvBroken, RSendBroken
<1>6. CASE UNCHANGED vars
  <2>1. TypeOK' /\ Stream'
    BY <1>6 DEF IInv, TypeOK, Stream, vars, sVars, rVars
  <2>2. QED
    BY <1>6, <2>1, SFrame, RFrame DEF IInv, vars
<1>7. QED
  BY <1>1, <1>2, <1>3, <1>4, <1>5, <1>6 DEF Next, Finished
-----------------------------------------------------------------------------
(***************************************************************************)
(* The theorems.                                                           *)
(***************************************************************************)

\* IInv holds in every reachable state of the pipeline, for every team size,
\* schedule, matrix, window and network capacity.
THEOREM Invariance == Spec => []IInv
<1>1. QED
  BY InitIInv, NextIInv, PTL DEF Spec

\* Types, and no transfer outside its window of matrix_p.
THEOREM TypeCorrect == Spec => []TypeOK
<1>1. IInv => TypeOK
  BY DEF IInv
<1>2. QED
  BY <1>1, Invariance, PTL

\* Every key the sender computes comes from the receiver's matrix for the
\* same rows, and keys that are returned are complete.
THEOREM KeysCorrect == Spec => [](KeysAgree /\ KeysComplete)
<1>1. IInv => KeysAgree
  BY DEF IInv
<1>2. IInv => KeysComplete
  <2>1. SUFFICES ASSUME IInv, sResult = "keys", NEW o \in Offsets PROVE vecK0[o] = o
    BY DEF KeysComplete
  <2>2. sPc[SMaster] = "out" /\ ~sIoError
    BY <2>1, TeamAssumption DEF IInv, SKeys
  <2>3. sWindow[SMaster] >= Tiles /\ sWindow[SMaster] \in Nat
    BY <2>1, <2>2, TeamAssumption DEF IInv, SControl, TypeOK
  <2>4. o < sWindow[SMaster]
    BY <2>3, SizeAssumption DEF Offsets
  <2>5. QED
    BY <2>1, <2>4 DEF IInv, SKeys
<1>3. QED
  BY <1>1, <1>2, Invariance, PTL

\* No thread is in the "omp for" while its master transfers the buffer.
THEOREM Exclusion == Spec => []TransferExclusive
<1>1. IInv => TransferExclusive
  BY TeamAssumption DEF IInv, SControl, RControl, SPre, SPost, TransferExclusive
<1>2. QED
  BY <1>1, Invariance, PTL

\* The shared io_error is never written while a thread of the team may be
\* reading it.
THEOREM ErrorRaceFreedom == Spec => ErrorWriteRaceFree
<1> DEFINE A == /\ sIoError' # sIoError => \A t \in SThreads : sPc[t] # "check"
                /\ rIoError' # rIoError => \A t \in RThreads : rPc[t] # "check"
<1>1. IInv /\ [Next]_vars => [A]_vars
  <2>1. SUFFICES ASSUME IInv, Next PROVE A
    OBVIOUS
  <2>2. sIoError' # sIoError => SRecvCatch
    BY <2>1 DEF Next, SThread, SShared, RThread, RShared, Broken, Finished, SRecvClosed,
       SRecvBroken, RSendClosed, RSendBroken, SLoop, SCheck, STile, SForDone, SRecvTile,
       SRecvDone, SBarrier, SForBarrier, SJoin, RLoop, RTile, RForDone, RCheck, RForBarrier,
       RSendTile, RSendDone, RSendCatch, RBarrier, RJoin, sVars, vars
  <2>3. rIoError' # rIoError => RSendCatch
    BY <2>1 DEF Next, SThread, SShared, RThread, RShared, Broken, Finished, SRecvClosed,
       SRecvBroken, RSendClosed, RSendBroken, SLoop, SCheck, STile, SForDone, SRecvTile,
       SRecvDone, SRecvCatch, SBarrier, SForBarrier, SJoin, RLoop, RTile, RForDone, RCheck,
       RForBarrier, RSendTile, RSendDone, RBarrier, RJoin, rVars, vars
  <2>4. SRecvCatch => \A t \in SThreads : sPc[t] # "check"
    BY <2>1, TeamAssumption DEF IInv, SControl, SPre, SPost, SRecvCatch
  <2>5. RSendCatch => \A t \in RThreads : rPc[t] # "check"
    BY <2>1, TeamAssumption DEF IInv, RControl, RSendCatch
  <2>6. QED
    BY <2>2, <2>3, <2>4, <2>5
<1>2. QED
  BY <1>1, Invariance, PTL DEF Spec, ErrorWriteRaceFree
-----------------------------------------------------------------------------
\* A step that computes no key and decides no result is a stutter of the ideal.
LEMMA Stutter ==
  ASSUME UNCHANGED <<vecK0, sResult, rResult>>
  PROVE  UNCHANGED Ideal!vars
BY DEF Ideal!vars, Agreed

\* Every step of the pipeline is a step of the ideal key phase or a stutter.
LEMMA IdealStep == IInv /\ [Next]_vars => [Ideal!Next]_(Ideal!vars)
<1> SUFFICES ASSUME IInv, Next PROVE [Ideal!Next]_(Ideal!vars)
  BY Stutter DEF vars, sVars, rVars
<1>1. ASSUME NEW t \in SThreads, STile(t) PROVE [Ideal!Next]_(Ideal!vars)
  <2>2. PICK tile \in sTodo[t] : vecK0' = [vecK0 EXCEPT ![sWindow[t] + tile] = sMatrixP[tile]]
    BY <1>1 DEF STile
  <2> DEFINE o == sWindow[t] + tile
  <2>3. UNCHANGED <<sResult, rResult>> /\ sPc[t] = "for"
    BY <1>1 DEF STile, rVars
  <2>4. sResult = "running"
    BY <2>3 DEF IInv, SKeys
  <2>5. vecK0 \in [Offsets -> KeyNames]
    BY DEF IInv, TypeOK
  <2>6. \A p \in Offsets : p # o => vecK0'[p] = vecK0[p]
    BY <2>2, <2>5
  <2>7. CASE Agreed' = Agreed
    BY <2>3, <2>7 DEF Ideal!vars
  <2>8. CASE Agreed' # Agreed
    <3>1. \A p \in Agreed : p \in Agreed'
      <4>1. SUFFICES ASSUME NEW p \in Agreed PROVE vecK0'[p] = p
        BY DEF Agreed
      <4>2. p \in Offsets /\ vecK0[p] = p
        BY DEF Agreed
      <4>3. CASE p # o
        BY <2>6, <4>2, <4>3
      <4>4. CASE p = o
        <5>1. sMatrixP[tile] = o
          BY <2>3, TileReady
        <5>2. QED
          BY <2>2, <2>5, <4>2, <4>4, <5>1
      <4>5. QED
        BY <4>3, <4>4
    <3>2. \A p \in Agreed' : p \in Agreed \/ p = o
      BY <2>6 DEF Agreed
    <3>3. o \in Offsets \ Agreed /\ Agreed' = Agreed \cup {o}
      BY <2>8, <3>1, <3>2 DEF Agreed
    <3>4. QED
      BY <2>3, <2>4, <3>3 DEF Ideal!Next, Ideal!Extend
  <2>9. QED
    BY <2>7, <2>8
<1>2. CASE SJoin
  <2>1. UNCHANGED <<vecK0, rResult>> /\ sResult = "running"
    BY <1>2 DEF SJoin, rVars
  <2>2. CASE sIoError
    BY <1>2, <2>1, <2>2 DEF SJoin, Ideal!Next, Ideal!SenderLeaves, Agreed
  <2>3. CASE ~sIoError
    <3>1. Agreed = Offsets
      <4>1. sPc[SMaster] = "out"
        BY <1>2, TeamAssumption DEF SJoin
      <4>2. sWindow[SMaster] >= Tiles /\ sWindow[SMaster] \in Nat
        BY <2>3, <4>1, TeamAssumption DEF IInv, SControl, TypeOK
      <4>3. \A o \in Offsets : o < sWindow[SMaster]
        BY <4>2, SizeAssumption DEF Offsets
      <4>4. QED
        BY <4>3 DEF IInv, SKeys, Agreed
    <3>2. sResult' = "keys" /\ UNCHANGED Agreed
      BY <1>2, <2>1, <2>3 DEF SJoin, Agreed
    <3>3. QED
      BY <2>1, <3>1, <3>2 DEF Ideal!Next, Ideal!SenderLeaves
  <2>4. QED
    BY <2>2, <2>3
<1>3. CASE RJoin
  BY <1>3 DEF RJoin, sVars, Ideal!Next, Ideal!ReceiverLeaves, Agreed
<1>4. CASE ~SJoin /\ ~RJoin /\ ~(\E t \in SThreads : STile(t))
  <2>1. UNCHANGED <<vecK0, sResult, rResult>>
    BY <1>4 DEF Next, SThread, SShared, RThread, RShared, Broken, Finished, SRecvClosed,
       SRecvBroken, RSendClosed, RSendBroken, SLoop, SCheck, SForDone, SRecvTile, SRecvDone,
       SRecvCatch, SBarrier, SForBarrier, RLoop, RTile, RForDone, RCheck, RForBarrier,
       RSendTile, RSendDone, RSendCatch, RBarrier, sVars, rVars, vars
  <2>2. QED
    BY <2>1, Stutter
<1>5. QED
  BY <1>1, <1>2, <1>3, <1>4

\* The two teams implement the ideal key phase (its safety part; that both
\* parties leave is model-checked).
THEOREM Refinement == Spec => Ideal!Init /\ [][Ideal!Next]_(Ideal!vars)
<1>1. Init => Ideal!Init
  BY DEF Init, Ideal!Init, Agreed, NoKey, Offsets
<1>2. QED
  BY <1>1, IdealStep, Invariance, PTL DEF Spec
-----------------------------------------------------------------------------
(***************************************************************************)
(* Arithmetic modulo Q.                                                    *)
(***************************************************************************)

\* A whole number is its remainder and a multiple of Q.
LEMMA Remainder ==
  ASSUME NEW x \in Int
  PROVE  x % Q \in Scalars /\ \E k \in Int : x = k * Q + (x % Q)
<1>1. PICK n \in Nat \ {0} : n = Q
  BY GroupAssumption
<1>2. x % n \in 0..n - 1
  OBVIOUS
<1>3. x = (x \div n) * n + (x % n) /\ x \div n \in Int
  OBVIOUS
<1>4. QED
  BY <1>1, <1>2, <1>3 DEF Scalars

\* Numbers that differ by a multiple of Q have one remainder.
LEMMA Congruent ==
  ASSUME NEW x \in Int, NEW y \in Int, NEW k \in Int, x = y + k * Q
  PROVE  x % Q = y % Q
<1>1. PICK n \in Nat \ {0} : n = Q
  BY GroupAssumption
<1>2. PICK d \in Int, s \in 0..n - 1 : y = d * n + s
  BY <1>1, Remainder DEF Scalars
<1>3. (d * n + s) % n = s
  BY <1>2
<1>4. (d + k) * n = d * n + k * n /\ d + k \in Int
  OBVIOUS
<1>5. PICK b \in Int : b = d + k
  BY <1>4
<1>6. (b * n + s) % n = s
  BY <1>5
<1>7. x = b * n + s
  BY <1>1, <1>2, <1>4, <1>5
<1>8. QED
  BY <1>1, <1>2, <1>3, <1>6, <1>7

\* A remainder may stand for the number in a sum, a difference and a product.
LEMMA RemainderOf ==
  ASSUME NEW x \in Int, NEW y \in Int
  PROVE  /\ ((x % Q) + y) % Q = (x + y) % Q
         /\ ((x % Q) - y) % Q = (x - y) % Q
         /\ (y - (x % Q)) % Q = (y - x) % Q
         /\ ((x % Q) * y) % Q = (x * y) % Q
<1>1. PICK n \in Nat \ {0} : n = Q
  BY GroupAssumption
<1>2. PICK k \in Int, s \in Int : s = x % Q /\ x = k * n + s
  <2>1. PICK k \in Int : x = k * Q + (x % Q)
    BY Remainder
  <2>2. PICK s \in 0..n - 1 : s = x % Q
    BY <1>1, Remainder DEF Scalars
  <2>3. x = k * n + s /\ s \in Int
    BY <1>1, <2>1, <2>2
  <2>4. QED
    BY <2>2, <2>3
<1>3. (s + y) % Q = (x + y) % Q
  <2>1. PICK u, v \in Int : u = x + y /\ v = s + y
    BY <1>2
  <2>2. u = v + k * Q
    BY <1>1, <1>2, <2>1
  <2>3. QED
    BY <2>1, <2>2, Congruent
<1>4. (s - y) % Q = (x - y) % Q
  <2>1. PICK u, v \in Int : u = x - y /\ v = s - y
    BY <1>2
  <2>2. u = v + k * Q
    BY <1>1, <1>2, <2>1
  <2>3. QED
    BY <2>1, <2>2, Congruent
<1>5. (y - s) % Q = (y - x) % Q
  <2>1. PICK u, v \in Int : u = y - s /\ v = y - x
    BY <1>2
  <2>2. u = v + k * Q
    BY <1>1, <1>2, <2>1
  <2>3. QED
    BY <2>1, <2>2, Congruent
<1>6. (s * y) % Q = (x * y) % Q
  <2>1. (k * n + s) * y = s * y + (k * y) * n
    OBVIOUS
  <2>2. x * y = s * y + (k * y) * n /\ k * y \in Int /\ s * y \in Int /\ x * y \in Int
    BY <1>2, <2>1
  <2>3. QED
    BY <1>1, <2>2, Congruent
<1>7. QED
  BY <1>2, <1>3, <1>4, <1>5, <1>6

\* A scalar is its own remainder.
LEMMA OwnRemainder ==
  ASSUME NEW x \in Scalars
  PROVE  x \in Int /\ x % Q = x
<1>1. PICK n \in Nat \ {0} : n = Q
  BY GroupAssumption
<1>2. x \in 0..n - 1
  BY <1>1 DEF Scalars
<1>3. x % n = x
  BY <1>2
<1>4. QED
  BY <1>1, <1>2, <1>3

\* The operations of the field stay in it.
LEMMA Closed ==
  ASSUME NEW a \in Scalars, NEW b \in Scalars
  PROVE  Add(a, b) \in Scalars /\ Sub(a, b) \in Scalars /\ Mul(a, b) \in Scalars
<1>1. a \in Int /\ b \in Int
  BY OwnRemainder
<1>2. a + b \in Int /\ a - b \in Int /\ a * b \in Int
  BY <1>1
<1>3. QED
  BY <1>2, Remainder DEF Add, Sub, Mul

\* The laws of the field that encryption rests on.
LEMMA FieldLaws ==
  ASSUME NEW a \in Scalars, NEW b \in Scalars, NEW c \in Scalars
  PROVE  /\ Mul(a, b) = Mul(b, a)
         /\ Mul(Mul(a, b), c) = Mul(a, Mul(b, c))
         /\ Mul(a, Add(b, c)) = Add(Mul(a, b), Mul(a, c))
         /\ Mul(a, Sub(b, c)) = Sub(Mul(a, b), Mul(a, c))
         /\ Add(a, b) = Add(b, a)
         /\ Add(Add(a, b), c) = Add(a, Add(b, c))
         /\ Sub(Add(a, b), a) = b
<1>1. a \in Int /\ b \in Int /\ c \in Int /\ a % Q = a /\ b % Q = b /\ c % Q = c
  BY OwnRemainder
<1>2. /\ a * b \in Int /\ b * c \in Int /\ a * c \in Int /\ b + c \in Int /\ b - c \in Int
      /\ a + b \in Int /\ (a + b) - a = b
  BY <1>1
<1>3. Mul(a, b) = Mul(b, a) /\ Add(a, b) = Add(b, a)
  BY <1>1 DEF Mul, Add
<1>4. Mul(Mul(a, b), c) = Mul(a, Mul(b, c))
  <2>1. (((a * b) % Q) * c) % Q = ((a * b) * c) % Q
    BY <1>1, <1>2, RemainderOf
  <2>2. (((b * c) % Q) * a) % Q = ((b * c) * a) % Q
    BY <1>1, <1>2, RemainderOf
  <2>3. (a * b) * c = (b * c) * a
    BY <1>1
  <2>4. a * ((b * c) % Q) = ((b * c) % Q) * a
    <3>1. PICK s \in Int : s = (b * c) % Q
      BY <1>2, Remainder, OwnRemainder
    <3>2. a * s = s * a
      BY <1>1
    <3>3. QED
      BY <3>1, <3>2
  <2>5. QED
    BY <2>1, <2>2, <2>3, <2>4 DEF Mul
<1>5. Mul(a, Add(b, c)) = Add(Mul(a, b), Mul(a, c))
  <2>1. PICK s, u, v \in Int : s = (b + c) % Q /\ u = (a * b) % Q /\ v = (a * c) % Q
    BY <1>2, Remainder, OwnRemainder
  <2>2. (s * a) % Q = ((b + c) * a) % Q
    BY <1>1, <1>2, <2>1, RemainderOf
  <2>3. (u + v) % Q = (a * b + v) % Q
    BY <1>2, <2>1, RemainderOf
  <2>4. (v + a * b) % Q = (a * c + a * b) % Q
    BY <1>2, <2>1, RemainderOf
  <2>5. a * s = s * a /\ a * b + v = v + a * b /\ (b + c) * a = a * c + a * b
    BY <1>1, <2>1
  <2>6. (a * s) % Q = (u + v) % Q
    BY <2>2, <2>3, <2>4, <2>5
  <2>7. QED
    BY <2>1, <2>6 DEF Mul, Add
<1>6. Mul(a, Sub(b, c)) = Sub(Mul(a, b), Mul(a, c))
  <2>1. PICK s, u, v \in Int : s = (b - c) % Q /\ u = (a * b) % Q /\ v = (a * c) % Q
    BY <1>2, Remainder, OwnRemainder
  <2>2. (s * a) % Q = ((b - c) * a) % Q
    BY <1>1, <1>2, <2>1, RemainderOf
  <2>3. (u - v) % Q = (a * b - v) % Q
    BY <1>2, <2>1, RemainderOf
  <2>4. (a * b - v) % Q = (a * b - a * c) % Q
    BY <1>2, <2>1, RemainderOf
  <2>5. a * s = s * a /\ (b - c) * a = a * b - a * c
    BY <1>1, <2>1
  <2>6. (a * s) % Q = (u - v) % Q
    BY <2>2, <2>3, <2>4, <2>5
  <2>7. QED
    BY <2>1, <2>6 DEF Mul, Sub
<1>7. Add(Add(a, b), c) = Add(a, Add(b, c))
  <2>1. (((a + b) % Q) + c) % Q = ((a + b) + c) % Q
    BY <1>1, <1>2, RemainderOf
  <2>2. (((b + c) % Q) + a) % Q = ((b + c) + a) % Q
    BY <1>1, <1>2, RemainderOf
  <2>3. (a + b) + c = (b + c) + a
    BY <1>1
  <2>4. a + ((b + c) % Q) = ((b + c) % Q) + a
    <3>1. PICK s \in Int : s = (b + c) % Q
      BY <1>2, Remainder, OwnRemainder
    <3>2. a + s = s + a
      BY <1>1
    <3>3. QED
      BY <3>1, <3>2
  <2>5. QED
    BY <2>1, <2>2, <2>3, <2>4 DEF Add
<1>8. Sub(Add(a, b), a) = b
  <2>1. (((a + b) % Q) - a) % Q = ((a + b) - a) % Q
    BY <1>1, <1>2, RemainderOf
  <2>2. QED
    BY <1>1, <1>2, <2>1 DEF Add, Sub
<1>9. QED
  BY <1>3, <1>4, <1>5, <1>6, <1>7, <1>8

\* Zero and one.
LEMMA ZeroOne ==
  ASSUME NEW a \in Scalars
  PROVE  /\ 0 \in Scalars /\ 1 \in Scalars
         /\ Add(a, 0) = a /\ Add(0, a) = a /\ Sub(a, 0) = a /\ Sub(a, a) = 0
         /\ Mul(a, 1) = a /\ Mul(1, a) = a /\ Mul(a, 0) = 0 /\ Mul(0, a) = 0
<1>1. 0 \in Scalars /\ 1 \in Scalars
  BY GroupAssumption DEF Scalars
<1>2. a \in Int /\ a % Q = a /\ 0 % Q = 0
  BY <1>1, OwnRemainder
<1>3. a + 0 = a /\ 0 + a = a /\ a - 0 = a /\ a - a = 0 /\ a * 1 = a /\ 1 * a = a /\ a * 0 = 0 /\ 0 * a = 0
  BY <1>2
<1>4. QED
  BY <1>1, <1>2, <1>3 DEF Add, Sub, Mul

\* Q has no divisor, so every scalar but zero has its inverse.
LEMMA HasInverse ==
  ASSUME NEW a \in 1..(Q - 1)
  PROVE  InvOf[a] \in Scalars /\ Mul(a, InvOf[a]) = 1
<1>1. PICK n \in Nat \ {0, 1} : n = Q /\ \A d \in 2..(n - 1) : n % d # 0
  BY GroupAssumption
<1>2. a \in Scalars /\ Scalars = 0..n - 1 /\ a \in Int
  BY <1>1 DEF Scalars
<1> DEFINE I == {x \in 1..(n - 1) : \E b \in Scalars : x = Mul(a, b)}
           T == {k \in Nat : \A g \in I : g <= k => 1 \in I}
<1>3. a \in I
  BY <1>1, <1>2, ZeroOne
<1>4. 0 \in T
  OBVIOUS
<1>5. ASSUME NEW k \in Nat, k \in T
      PROVE  k + 1 \in T
  <2> SUFFICES ASSUME NEW g \in I, g <= k + 1, g # 1
               PROVE  1 \in I
    BY <1>5
  <2>1. g \in 2..(n - 1) /\ g \in Nat \ {0} /\ g \in Int /\ n % g # 0
    BY <1>1
  <2>2. PICK b \in Scalars : g = Mul(a, b)
    OBVIOUS
  <2>3. PICK d \in Int, s \in 0..g - 1 : n = d * g + s /\ s = n % g
    <3>1. PICK d \in Nat : n = d * g + (n % g)
      BY <1>1, <2>1, Divided
    <3>2. n % g \in 0..g - 1
      BY <1>1, <2>1
    <3>3. PICK s \in 0..g - 1 : s = n % g
      BY <3>2
    <3>4. QED
      BY <3>1, <3>3
  <2>4. s \in 1..(n - 1) /\ s <= k
    BY <2>1, <2>3
  <2>5. b \in Int /\ s \in Int
    BY <1>2, OwnRemainder
  <2>6. PICK u, v \in Int : u = a * b /\ v = b * (0 - d) /\ a * v = u * (0 - d)
    BY <1>2, <2>3, <2>5
  <2>7. PICK e \in Scalars : e = v % Q
    BY <2>6, Remainder
  <2>8. (e * a) % Q = (v * a) % Q
    BY <1>2, <2>6, <2>7, RemainderOf
  <2>9. (g * (0 - d)) % Q = (u * (0 - d)) % Q
    <3>1. g = u % Q /\ 0 - d \in Int
      BY <2>2, <2>3, <2>6 DEF Mul
    <3>2. QED
      BY <2>6, <3>1, RemainderOf
  <2>10. s % Q = (g * (0 - d)) % Q
    <3>1. PICK w \in Int : w = g * (0 - d) /\ s = w + 1 * n
      BY <2>1, <2>3, <2>5
    <3>2. s = w + 1 * Q
      BY <1>1, <3>1
    <3>3. QED
      BY <2>5, <3>1, <3>2, Congruent
  <2>11. s % Q = s
    <3>1. s \in Scalars
      BY <1>2, <2>4
    <3>2. QED
      BY <3>1, OwnRemainder
  <2>12. e * a = a * e /\ v * a = a * v
    BY <1>2, <2>6, <2>7, OwnRemainder
  <2>13. Mul(a, e) = s
    BY <2>6, <2>8, <2>9, <2>10, <2>11, <2>12 DEF Mul
  <2>14. s \in I
    BY <2>4, <2>7, <2>13
  <2>15. QED
    BY <1>5, <2>4, <2>14
<1>6. Nat \subseteq T
  <2> HIDE DEF T
  <2> QED BY <1>4, <1>5, NatInductionSet
<1>7. 1 \in I
  BY <1>1, <1>3, <1>6
<1>8. \E b \in Scalars : Mul(a, b) = 1
  BY <1>7
<1>9. InvOf[a] = CHOOSE b \in Scalars : Mul(a, b) = 1
  BY DEF InvOf
<1>10. QED
  BY <1>8, <1>9
-----------------------------------------------------------------------------
(***************************************************************************)
(* Points: all that encryption makes are sums of a multiple of G and one   *)
(* of H.                                                                   *)
(***************************************************************************)
Pt(a, b) == [c \in 1..Width |-> IF c = 1 THEN a ELSE IF c = 2 THEN b ELSE 0]

\* A point has at least the coefficients of G, H and U.
LEMMA Widths == Width \in Nat /\ 1 \in 1..Width /\ 2 \in 1..Width
<1>1. PICK a \in Nat, b \in Nat : a = RangeBits /\ b = MaxAggregation
  BY GroupAssumption
<1>2. a * b \in Nat
  OBVIOUS
<1>3. PICK n \in Nat : n = RangeBits * MaxAggregation
  BY <1>1, <1>2
<1>4. Width = 3 + 2 * n
  BY <1>3 DEF Width, VectorLength
<1>5. QED
  BY <1>4

\* Vec leaves a function on 1..n as it is.
LEMMA VecIs ==
  ASSUME NEW n \in Nat, NEW f, f = [i \in 1..n |-> f[i]]
  PROVE  Vec(f) = f
<1> DEFINE R == {f[i] : i \in 1..n}
<1>1. f \in [1..n -> R]
  OBVIOUS
<1>2. f \in Seq(R)
  BY <1>1
<1> HIDE DEF R
<1>3. f \o << >> = f
  BY <1>2
<1>4. QED
  BY <1>3 DEF Vec

\* Coefficients tell points apart.
LEMMA PointsDiffer ==
  ASSUME NEW a, NEW b, NEW c, NEW d, Pt(a, b) = Pt(c, d)
  PROVE  a = c /\ b = d
<1>1. Pt(a, b)[1] = a /\ Pt(c, d)[1] = c /\ Pt(a, b)[2] = b /\ Pt(c, d)[2] = d
  BY Widths DEF Pt
<1>2. QED
  BY <1>1

\* The generators and the operations, by the coefficients.
LEMMA PointLaws ==
  ASSUME NEW a \in Scalars, NEW b \in Scalars, NEW c \in Scalars, NEW d \in Scalars
  PROVE  /\ G = Pt(1, 0) /\ H = Pt(0, 1)
         /\ Plus(Pt(a, b), Pt(c, d)) = Pt(Add(a, c), Add(b, d))
         /\ Minus(Pt(a, b), Pt(c, d)) = Pt(Sub(a, c), Sub(b, d))
         /\ Times(Pt(a, b), c) = Pt(Mul(a, c), Mul(b, c))
<1>1. 0 \in Scalars /\ Add(0, 0) = 0 /\ Sub(0, 0) = 0 /\ Mul(0, c) = 0
  BY ZeroOne
<1>2. Width \in Nat
  BY Widths
<1>3. G = Pt(1, 0)
  <2> DEFINE f == [k \in 1..Width |-> IF k = 1 THEN 1 ELSE 0]
  <2>1. Vec(f) = f
    BY <1>2, VecIs
  <2>2. f = Pt(1, 0)
    BY DEF Pt
  <2>3. QED
    BY <2>1, <2>2 DEF G, Gen
<1>4. H = Pt(0, 1)
  <2> DEFINE f == [k \in 1..Width |-> IF k = 2 THEN 1 ELSE 0]
  <2>1. Vec(f) = f
    BY <1>2, VecIs
  <2>2. f = Pt(0, 1)
    BY DEF Pt
  <2>3. QED
    BY <2>1, <2>2 DEF H, Gen
<1>5. Plus(Pt(a, b), Pt(c, d)) = Pt(Add(a, c), Add(b, d))
  <2> DEFINE f == [k \in 1..Width |-> Add(Pt(a, b)[k], Pt(c, d)[k])]
  <2>1. Vec(f) = f
    BY <1>2, VecIs
  <2>2. f = Pt(Add(a, c), Add(b, d))
    BY <1>1 DEF Pt
  <2>3. QED
    BY <2>1, <2>2 DEF Plus
<1>6. Minus(Pt(a, b), Pt(c, d)) = Pt(Sub(a, c), Sub(b, d))
  <2> DEFINE f == [k \in 1..Width |-> Sub(Pt(a, b)[k], Pt(c, d)[k])]
  <2>1. Vec(f) = f
    BY <1>2, VecIs
  <2>2. f = Pt(Sub(a, c), Sub(b, d))
    BY <1>1 DEF Pt
  <2>3. QED
    BY <2>1, <2>2 DEF Minus
<1>7. Times(Pt(a, b), c) = Pt(Mul(a, c), Mul(b, c))
  <2> DEFINE f == [k \in 1..Width |-> Mul(Pt(a, b)[k], c)]
  <2>1. Vec(f) = f
    BY <1>2, VecIs
  <2>2. f = Pt(Mul(a, c), Mul(b, c))
    BY <1>1 DEF Pt
  <2>3. QED
    BY <2>1, <2>2 DEF Times
<1>8. QED
  BY <1>3, <1>4, <1>5, <1>6, <1>7

\* A sum of two multiples.
LEMMA MsmOfTwo ==
  ASSUME NEW a \in Scalars, NEW b \in Scalars, NEW c \in Scalars, NEW d \in Scalars,
         NEW v \in Scalars, NEW w \in Scalars
  PROVE  Msm(<<Pt(a, b), Pt(c, d)>>, <<v, w>>)
           = Pt(Add(Mul(a, v), Mul(c, w)), Add(Mul(b, v), Mul(d, w)))
<1> DEFINE p == Pt(a, b)
           q == Pt(c, d)
           Is(f, k) == f = [i \in 0..2 |-> IF i = 0 THEN 0 ELSE Add(f[i - 1], Mul(<<p, q>>[i][k], <<v, w>>[i]))]
           sum == [k \in 1..Width |-> (CHOOSE f : Is(f, k))[2]]
<1>1. Msm(<<p, q>>, <<v, w>>) = Vec(sum)
  BY DEF Msm, Total
<1>2. Vec(sum) = sum
  BY Widths, VecIs
<1>3. \A k \in 1..Width : p[k] \in Scalars /\ q[k] \in Scalars
  BY ZeroOne DEF Pt
<1>4. ASSUME NEW k \in 1..Width
      PROVE  sum[k] = Add(Mul(p[k], v), Mul(q[k], w))
  <2> DEFINE one == Mul(p[k], v)
             two == Mul(q[k], w)
             g == [i \in 0..2 |-> IF i = 0 THEN 0 ELSE IF i = 1 THEN Add(0, one) ELSE Add(Add(0, one), two)]
  <2>1. Is(g, k)
    <3>1. \A i \in 0..2 : g[i] = IF i = 0 THEN 0 ELSE Add(g[i - 1], Mul(<<p, q>>[i][k], <<v, w>>[i]))
      <4> TAKE i \in 0..2
      <4>1. CASE i = 0
        BY <4>1
      <4>2. CASE i = 1
        BY <4>2
      <4>3. CASE i = 2
        BY <4>3
      <4>4. QED
        BY <4>1, <4>2, <4>3
    <3>2. QED
      BY <3>1
  <2>2. PICK f : Is(f, k) /\ sum[k] = f[2]
    <3>1. Is(CHOOSE f : Is(f, k), k)
      <4> HIDE DEF Is
      <4> QED BY <2>1
    <3> HIDE DEF Is
    <3>2. QED
      BY <3>1
  <2>3. f[0] = 0
    BY <2>2
  <2>4. f[1] = Add(f[0], one)
    BY <2>2
  <2>5. f[2] = Add(f[1], two)
    BY <2>2
  <2>6. one \in Scalars /\ Add(0, one) = one
    BY <1>3, Closed, ZeroOne
  <2>7. QED
    BY <2>2, <2>3, <2>4, <2>5, <2>6
<1>5. \A k \in 1..Width : Add(Mul(p[k], v), Mul(q[k], w))
                            = Pt(Add(Mul(a, v), Mul(c, w)), Add(Mul(b, v), Mul(d, w)))[k]
  <2>1. 0 \in Scalars /\ Mul(0, v) = 0 /\ Mul(0, w) = 0 /\ Add(0, 0) = 0
    BY ZeroOne
  <2>2. QED
    BY <2>1 DEF Pt
<1>6. sum = Pt(Add(Mul(a, v), Mul(c, w)), Add(Mul(b, v), Mul(d, w)))
  <2>1. \A k \in 1..Width : sum[k] = Pt(Add(Mul(a, v), Mul(c, w)), Add(Mul(b, v), Mul(d, w)))[k]
    BY <1>4, <1>5
  <2>2. DOMAIN sum = 1..Width /\ sum = [k \in 1..Width |-> sum[k]]
    OBVIOUS
  <2> HIDE DEF sum
  <2>3. QED
    BY <2>1, <2>2 DEF Pt
<1>7. QED
  BY <1>1, <1>2, <1>6

\* Both schemes are over one group.
LEMMA OneGroup ==
  /\ Standard!G = G
  /\ \A p, q : Standard!Plus(p, q) = Plus(p, q) /\ Standard!Minus(p, q) = Minus(p, q)
  /\ \A p, k : Standard!Times(p, k) = Times(p, k)
  /\ \A p, k : Standard!Msm(p, k) = Msm(p, k)
  /\ \A f : Standard!Vec(f) = Vec(f)
<1>1. \A f : Standard!Vec(f) = Vec(f)
  BY DEF Standard!Vec, Vec
<1>2. Standard!Width = Width
  BY DEF Standard!Width, Standard!VectorLength, Width, VectorLength
<1>3. Standard!G = G
  BY <1>1, <1>2 DEF Standard!G, Standard!Gen, G, Gen
<1>4. \A a, b : Standard!Add(a, b) = Add(a, b) /\ Standard!Sub(a, b) = Sub(a, b) /\ Standard!Mul(a, b) = Mul(a, b)
  BY DEF Standard!Add, Standard!Sub, Standard!Mul, Add, Sub, Mul
<1>5. \A p, q : Standard!Plus(p, q) = Plus(p, q) /\ Standard!Minus(p, q) = Minus(p, q)
  BY DEF Standard!Plus, Plus, Standard!Minus, Minus, Standard!Vec, Vec, Standard!Width, Standard!VectorLength,
         Width, VectorLength, Standard!Add, Standard!Sub, Add, Sub
<1>6. \A p, k : Standard!Times(p, k) = Times(p, k)
  BY DEF Standard!Times, Times, Standard!Vec, Vec, Standard!Width, Standard!VectorLength, Width, VectorLength,
         Standard!Mul, Mul
<1>7. \A p, k : Standard!Msm(p, k) = Msm(p, k)
  BY DEF Standard!Msm, Msm, Standard!Total, Total, Standard!Vec, Vec, Standard!Width, Standard!VectorLength,
         Width, VectorLength, Standard!Mul, Mul, Standard!Add, Add
<1>8. QED
  BY <1>1, <1>3, <1>5, <1>6, <1>7

-----------------------------------------------------------------------------
\* Sums and differences rearranged.
LEMMA Rearranged ==
  ASSUME NEW p \in Scalars, NEW q \in Scalars, NEW s \in Scalars, NEW t \in Scalars
  PROVE  /\ Add(Add(p, q), Add(s, t)) = Add(Add(p, s), Add(q, t))
         /\ Sub(Add(p, q), Add(s, t)) = Add(Sub(p, s), Sub(q, t))
         /\ Sub(Add(p, q), s) = Add(Sub(p, s), q)
         /\ Add(Add(p, q), s) = Add(Add(p, s), q)
         /\ Sub(p, q) = 0 => p = q
<1>1. Add(Add(p, q), Add(s, t)) = Add(Add(p, s), Add(q, t))
  <2>1. Add(q, Add(s, t)) = Add(s, Add(q, t))
    <3>1. Add(Add(q, s), t) = Add(q, Add(s, t)) /\ Add(Add(s, q), t) = Add(s, Add(q, t)) /\ Add(q, s) = Add(s, q)
      BY FieldLaws
    <3>2. QED
      BY <3>1
  <2>2. Add(s, t) \in Scalars /\ Add(q, t) \in Scalars
    BY Closed
  <2>3. Add(Add(p, q), Add(s, t)) = Add(p, Add(q, Add(s, t))) /\ Add(Add(p, s), Add(q, t)) = Add(p, Add(s, Add(q, t)))
    BY <2>2, FieldLaws
  <2>4. QED
    BY <2>1, <2>3
<1>2. p \in Int /\ q \in Int /\ s \in Int /\ t \in Int /\ p % Q = p
  BY OwnRemainder
<1>3. Sub(Add(p, q), Add(s, t)) = Add(Sub(p, s), Sub(q, t))
  <2>1. PICK a, b, c, d \in Int : a = p + q /\ b = s + t /\ c = p - s /\ d = q - t /\ a - b = d + c
    BY <1>2
  <2>2. PICK u, v, w \in Int : u = b % Q /\ v = a % Q /\ w = d % Q
    BY <2>1, Remainder, OwnRemainder
  <2>3. (v - u) % Q = (a - u) % Q
    BY <2>1, <2>2, RemainderOf
  <2>4. (a - u) % Q = (a - b) % Q
    BY <2>1, <2>2, RemainderOf
  <2>5. ((c % Q) + w) % Q = (c + w) % Q
    BY <2>1, <2>2, RemainderOf
  <2>6. (w + c) % Q = (d + c) % Q
    BY <2>1, <2>2, RemainderOf
  <2>7. c + w = w + c
    BY <2>1, <2>2
  <2>8. Sub(Add(p, q), Add(s, t)) = (v - u) % Q /\ Add(Sub(p, s), Sub(q, t)) = ((c % Q) + w) % Q
    BY <2>1, <2>2 DEF Add, Sub
  <2>9. QED
    BY <2>1, <2>3, <2>4, <2>5, <2>6, <2>7, <2>8
<1>4. Sub(Add(p, q), s) = Add(Sub(p, s), q)
  <2>1. PICK a, c \in Int : a = p + q /\ c = p - s /\ a - s = c + q
    BY <1>2
  <2>2. ((a % Q) - s) % Q = (a - s) % Q /\ ((c % Q) + q) % Q = (c + q) % Q
    BY <1>2, <2>1, RemainderOf
  <2>3. QED
    BY <2>1, <2>2 DEF Add, Sub
<1>5. Add(Add(p, q), s) = Add(Add(p, s), q)
  <2>1. Add(Add(p, q), s) = Add(p, Add(q, s)) /\ Add(Add(p, s), q) = Add(p, Add(s, q)) /\ Add(q, s) = Add(s, q)
    BY FieldLaws
  <2>2. QED
    BY <2>1
<1>6. ASSUME Sub(p, q) = 0
      PROVE  p = q
  <2>1. p - q \in Int /\ (p - q) + q = p
    BY <1>2
  <2>2. (((p - q) % Q) + q) % Q = ((p - q) + q) % Q
    BY <1>2, <2>1, RemainderOf
  <2>3. (0 + q) % Q = p
    BY <1>2, <1>6, <2>1, <2>2 DEF Sub
  <2>4. Add(0, q) = q
    BY ZeroOne
  <2>5. QED
    BY <2>3, <2>4 DEF Add
<1>7. QED
  BY <1>1, <1>3, <1>4, <1>5, <1>6

\* Neighbouring keys give different products, but of zero.
LEMMA Neighbours ==
  ASSUME NEW x \in Scalars, NEW y \in Scalars, NEW b \in Scalars,
         y = Add(x, 1) \/ x = Add(y, 1), Mul(y, b) = Mul(x, b)
  PROVE  b = 0
<1> SUFFICES ASSUME NEW u \in Scalars, NEW v \in Scalars, v = Add(u, 1), Mul(v, b) = Mul(u, b)
             PROVE  b = 0
  OBVIOUS
<1>1. 1 \in Scalars /\ Mul(b, 1) = b
  BY ZeroOne
<1>2. Mul(b, Add(u, 1)) = Add(Mul(b, u), Mul(b, 1)) /\ Mul(b, u) = Mul(u, b) /\ Mul(v, b) = Mul(b, v)
  BY <1>1, FieldLaws
<1>3. Add(Mul(u, b), b) = Mul(u, b)
  BY <1>1, <1>2
<1>4. Mul(u, b) \in Scalars
  BY Closed
<1>5. Sub(Add(Mul(u, b), b), Mul(u, b)) = b
  BY <1>4, FieldLaws
<1>6. Sub(Mul(u, b), Mul(u, b)) = 0
  BY <1>4, ZeroOne
<1>7. QED
  BY <1>3, <1>5, <1>6
\* Multiples of G.
LEMMA MultiplesOfG ==
  ASSUME NEW a \in Scalars, NEW c \in Scalars
  PROVE  /\ Plus(Pt(a, 0), Pt(c, 0)) = Pt(Add(a, c), 0)
         /\ Minus(Pt(a, 0), Pt(c, 0)) = Pt(Sub(a, c), 0)
         /\ Times(Pt(a, 0), c) = Pt(Mul(a, c), 0)
         /\ Times(G, c) = Pt(c, 0)
<1>1. 0 \in Scalars /\ 1 \in Scalars /\ Add(0, 0) = 0 /\ Sub(0, 0) = 0 /\ Mul(0, c) = 0 /\ Mul(1, c) = c
  BY ZeroOne
<1>2. Plus(Pt(a, 0), Pt(c, 0)) = Pt(Add(a, c), Add(0, 0))
  BY <1>1, PointLaws
<1>3. Minus(Pt(a, 0), Pt(c, 0)) = Pt(Sub(a, c), Sub(0, 0))
  BY <1>1, PointLaws
<1>4. Times(Pt(a, 0), c) = Pt(Mul(a, c), Mul(0, c))
  BY <1>1, PointLaws
<1>5. Times(Pt(1, 0), c) = Pt(Mul(1, c), Mul(0, c)) /\ G = Pt(1, 0)
  BY <1>1, PointLaws
<1>6. QED
  BY <1>1, <1>2, <1>3, <1>4, <1>5

-----------------------------------------------------------------------------
(***************************************************************************)
(* Ciphertexts of plaintext a with randomness b, under the secret key x.   *)
(***************************************************************************)
TwistedOf(x, a, b)  == [c1 |-> Pt(Mul(x, b), 0), c2 |-> Pt(b, a)]
StandardOf(x, a, b) == [c1 |-> Pt(b, 0), c2 |-> Pt(Add(Mul(x, b), a), 0)]

\* The public key is a multiple of G.
LEMMA KeyIs ==
  ASSUME NEW x \in Scalars
  PROVE  PublicKey(x) = Pt(x, 0)
<1>1. G = Pt(1, 0) /\ Times(Pt(1, 0), x) = Pt(Mul(1, x), Mul(0, x))
  BY ZeroOne, PointLaws
<1>2. Mul(1, x) = x /\ Mul(0, x) = 0
  BY ZeroOne
<1>3. QED
  BY <1>1, <1>2 DEF PublicKey

\* Twisted ElGamal: encryption, the homomorphic operations, decryption and
\* what refreshes a ciphertext.
LEMMA TwistedIs ==
  ASSUME NEW x \in 1..(Q - 1), NEW a \in Scalars, NEW b \in Scalars, NEW c \in Scalars, NEW d \in Scalars
  PROVE  /\ Encrypt(PublicKey(x), a, b) = TwistedOf(x, a, b)
         /\ HomoAdd(TwistedOf(x, a, b), TwistedOf(x, c, d)) = TwistedOf(x, Add(a, c), Add(b, d))
         /\ HomoSub(TwistedOf(x, a, b), TwistedOf(x, c, d)) = TwistedOf(x, Sub(a, c), Sub(b, d))
         /\ HomoMul(TwistedOf(x, a, b), d) = TwistedOf(x, Mul(a, d), Mul(b, d))
         /\ DecryptRaw(x, TwistedOf(x, a, b)) = Pt(0, a)
         /\ ReEnc(PublicKey(x), x, TwistedOf(x, a, b), d) = TwistedOf(x, a, d)
         /\ ReRand(PublicKey(x), TwistedOf(x, a, b), d) = TwistedOf(x, a, Add(b, d))
<1>1. PICK X \in Scalars : X = x /\ PublicKey(X) = Pt(X, 0)
  <2>1. x \in Scalars
    BY GroupAssumption DEF Scalars
  <2>2. QED
    BY <2>1, KeyIs
<1>2. 0 \in Scalars /\ 1 \in Scalars /\ G = Pt(1, 0) /\ H = Pt(0, 1)
  BY ZeroOne, PointLaws
<1>3. PICK xb, xd \in Scalars : xb = Mul(X, b) /\ xd = Mul(X, d)
  BY Closed
<1>4. Times(Pt(X, 0), b) = Pt(xb, 0) /\ Times(Pt(X, 0), d) = Pt(xd, 0)
  BY <1>3, MultiplesOfG
<1>5. Times(G, b) = Pt(b, 0) /\ Times(G, d) = Pt(d, 0)
  BY MultiplesOfG
<1>6. Encrypt(PublicKey(x), a, b) = TwistedOf(x, a, b)
  <2>1. Msm(<<G, H>>, <<b, a>>) = Pt(Add(Mul(1, b), Mul(0, a)), Add(Mul(0, b), Mul(1, a)))
    BY <1>2, MsmOfTwo
  <2>2. Add(Mul(1, b), Mul(0, a)) = b /\ Add(Mul(0, b), Mul(1, a)) = a
    BY ZeroOne
  <2>3. QED
    BY <1>1, <1>3, <1>4, <2>1, <2>2 DEF Encrypt, TwistedOf
<1>7. HomoAdd(TwistedOf(x, a, b), TwistedOf(x, c, d)) = TwistedOf(x, Add(a, c), Add(b, d))
  <2>1. Plus(Pt(xb, 0), Pt(xd, 0)) = Pt(Add(xb, xd), 0) /\ Plus(Pt(b, a), Pt(d, c)) = Pt(Add(b, d), Add(a, c))
    BY MultiplesOfG, PointLaws
  <2>2. Mul(X, Add(b, d)) = Add(xb, xd)
    BY <1>3, FieldLaws
  <2>3. QED
    BY <1>1, <1>3, <2>1, <2>2 DEF HomoAdd, TwistedOf
<1>8. HomoSub(TwistedOf(x, a, b), TwistedOf(x, c, d)) = TwistedOf(x, Sub(a, c), Sub(b, d))
  <2>1. Minus(Pt(xb, 0), Pt(xd, 0)) = Pt(Sub(xb, xd), 0) /\ Minus(Pt(b, a), Pt(d, c)) = Pt(Sub(b, d), Sub(a, c))
    BY MultiplesOfG, PointLaws
  <2>2. Mul(X, Sub(b, d)) = Sub(xb, xd)
    BY <1>3, FieldLaws
  <2>3. QED
    BY <1>1, <1>3, <2>1, <2>2 DEF HomoSub, TwistedOf
<1>9. HomoMul(TwistedOf(x, a, b), d) = TwistedOf(x, Mul(a, d), Mul(b, d))
  <2>1. Times(Pt(xb, 0), d) = Pt(Mul(xb, d), 0) /\ Times(Pt(b, a), d) = Pt(Mul(b, d), Mul(a, d))
    BY MultiplesOfG, PointLaws
  <2>2. Mul(X, Mul(b, d)) = Mul(xb, d)
    BY <1>3, FieldLaws
  <2>3. QED
    BY <1>1, <1>3, <2>1, <2>2 DEF HomoMul, TwistedOf
<1>10. DecryptRaw(x, TwistedOf(x, a, b)) = Pt(0, a)
  <2>1. PICK i \in Scalars : i = InvOf[x] /\ Mul(X, i) = 1
    BY <1>1, HasInverse
  <2>2. Times(Pt(xb, 0), i) = Pt(Mul(xb, i), 0)
    BY MultiplesOfG
  <2>3. Mul(xb, i) = b
    <3>1. Mul(X, b) = Mul(b, X) /\ Mul(Mul(b, X), i) = Mul(b, Mul(X, i)) /\ Mul(b, 1) = b
      BY <2>1, FieldLaws, ZeroOne
    <3>2. QED
      BY <1>3, <2>1, <3>1
  <2>4. Minus(Pt(b, a), Pt(b, 0)) = Pt(0, a)
    BY <1>2, PointLaws, ZeroOne
  <2>5. QED
    BY <1>1, <1>3, <2>1, <2>2, <2>3, <2>4 DEF DecryptRaw, TwistedOf
<1>11. Plus(Pt(d, 0), Pt(0, a)) = Pt(d, a)
  BY <1>2, PointLaws, ZeroOne
<1>12. ReEnc(PublicKey(x), x, TwistedOf(x, a, b), d) = TwistedOf(x, a, d)
  BY <1>1, <1>3, <1>4, <1>5, <1>10, <1>11 DEF ReEnc, EncryptPoint, TwistedOf
<1>13. ReRand(PublicKey(x), TwistedOf(x, a, b), d) = TwistedOf(x, a, Add(b, d))
  <2>1. Plus(Pt(xb, 0), Pt(xd, 0)) = Pt(Add(xb, xd), 0) /\ Plus(Pt(b, a), Pt(d, 0)) = Pt(Add(b, d), a)
    BY <1>2, PointLaws, ZeroOne
  <2>2. Mul(X, Add(b, d)) = Add(xb, xd)
    BY <1>3, FieldLaws
  <2>3. QED
    BY <1>1, <1>3, <1>4, <1>5, <2>1, <2>2 DEF ReRand, TwistedOf
<1>14. QED
  BY <1>6, <1>7, <1>8, <1>9, <1>10, <1>12, <1>13

\* Standard ElGamal likewise.
LEMMA StandardIs ==
  ASSUME NEW x \in 1..(Q - 1), NEW a \in Scalars, NEW b \in Scalars, NEW c \in Scalars, NEW d \in Scalars
  PROVE  /\ Standard!Encrypt(PublicKey(x), a, b) = StandardOf(x, a, b)
         /\ Standard!HomoAdd(StandardOf(x, a, b), StandardOf(x, c, d)) = StandardOf(x, Add(a, c), Add(b, d))
         /\ Standard!HomoSub(StandardOf(x, a, b), StandardOf(x, c, d)) = StandardOf(x, Sub(a, c), Sub(b, d))
         /\ Standard!HomoMul(StandardOf(x, a, b), d) = StandardOf(x, Mul(a, d), Mul(b, d))
         /\ Standard!DecryptRaw(x, StandardOf(x, a, b)) = Pt(a, 0)
         /\ Standard!ReEnc(PublicKey(x), x, StandardOf(x, a, b), d) = StandardOf(x, a, d)
         /\ Standard!ReRand(PublicKey(x), StandardOf(x, a, b), d) = StandardOf(x, a, Add(b, d))
<1>1. PICK X \in Scalars : X = x /\ PublicKey(X) = Pt(X, 0)
  <2>1. x \in Scalars
    BY GroupAssumption DEF Scalars
  <2>2. QED
    BY <2>1, KeyIs
<1>2. 0 \in Scalars /\ 1 \in Scalars /\ G = Pt(1, 0)
  BY ZeroOne, PointLaws
<1>3. PICK xb, xd \in Scalars : xb = Mul(X, b) /\ xd = Mul(X, d)
  BY Closed
<1>4. PICK e, f \in Scalars : e = Add(xb, a) /\ f = Add(xd, c)
  BY Closed
<1>5. Times(Pt(X, 0), b) = Pt(xb, 0) /\ Times(Pt(X, 0), d) = Pt(xd, 0)
  BY <1>3, MultiplesOfG
<1>6. Times(G, b) = Pt(b, 0) /\ Times(G, d) = Pt(d, 0)
  BY MultiplesOfG
<1>7. Standard!Encrypt(PublicKey(x), a, b) = StandardOf(x, a, b)
  <2>1. Msm(<<Pt(X, 0), G>>, <<b, a>>) = Pt(Add(Mul(X, b), Mul(1, a)), Add(Mul(0, b), Mul(0, a)))
    BY <1>2, MsmOfTwo
  <2>2. Add(Mul(X, b), Mul(1, a)) = Add(xb, a) /\ Add(Mul(0, b), Mul(0, a)) = 0
    BY <1>2, <1>3, ZeroOne
  <2>3. QED
    BY <1>1, <1>3, <1>6, <2>1, <2>2, OneGroup DEF Standard!Encrypt, StandardOf
<1>8. Standard!HomoAdd(StandardOf(x, a, b), StandardOf(x, c, d)) = StandardOf(x, Add(a, c), Add(b, d))
  <2>1. Plus(Pt(b, 0), Pt(d, 0)) = Pt(Add(b, d), 0) /\ Plus(Pt(e, 0), Pt(f, 0)) = Pt(Add(e, f), 0)
    BY MultiplesOfG
  <2>2. Mul(X, Add(b, d)) = Add(xb, xd) /\ Add(e, f) = Add(Add(xb, xd), Add(a, c))
    BY <1>3, <1>4, FieldLaws, Rearranged
  <2>3. QED
    BY <1>1, <1>3, <1>4, <2>1, <2>2, OneGroup DEF Standard!HomoAdd, StandardOf
<1>9. Standard!HomoSub(StandardOf(x, a, b), StandardOf(x, c, d)) = StandardOf(x, Sub(a, c), Sub(b, d))
  <2>1. Minus(Pt(b, 0), Pt(d, 0)) = Pt(Sub(b, d), 0) /\ Minus(Pt(e, 0), Pt(f, 0)) = Pt(Sub(e, f), 0)
    BY MultiplesOfG
  <2>2. Mul(X, Sub(b, d)) = Sub(xb, xd) /\ Sub(e, f) = Add(Sub(xb, xd), Sub(a, c))
    BY <1>3, <1>4, FieldLaws, Rearranged
  <2>3. QED
    BY <1>1, <1>3, <1>4, <2>1, <2>2, OneGroup DEF Standard!HomoSub, StandardOf
<1>10. Standard!HomoMul(StandardOf(x, a, b), d) = StandardOf(x, Mul(a, d), Mul(b, d))
  <2>1. Times(Pt(b, 0), d) = Pt(Mul(b, d), 0) /\ Times(Pt(e, 0), d) = Pt(Mul(e, d), 0)
    BY MultiplesOfG
  <2>2. Mul(X, Mul(b, d)) = Mul(xb, d)
    BY <1>3, FieldLaws
  <2>3. Mul(e, d) = Add(Mul(xb, d), Mul(a, d))
    <3>1. Mul(d, Add(xb, a)) = Add(Mul(d, xb), Mul(d, a))
      BY FieldLaws
    <3>2. Mul(d, e) = Mul(e, d) /\ Mul(d, xb) = Mul(xb, d) /\ Mul(d, a) = Mul(a, d)
      BY FieldLaws
    <3>3. QED
      BY <1>4, <3>1, <3>2
  <2>4. QED
    BY <1>1, <1>3, <1>4, <2>1, <2>2, <2>3, OneGroup DEF Standard!HomoMul, StandardOf
<1>11. Standard!DecryptRaw(x, StandardOf(x, a, b)) = Pt(a, 0)
  <2>1. Times(Pt(b, 0), X) = Pt(xb, 0)
    <3>1. Mul(b, X) = xb
      BY <1>3, FieldLaws
    <3>2. QED
      BY <3>1, MultiplesOfG
  <2>2. Minus(Pt(e, 0), Pt(xb, 0)) = Pt(a, 0)
    <3>1. Sub(e, xb) = a
      BY <1>4, FieldLaws
    <3>2. QED
      BY <3>1, MultiplesOfG
  <2>3. QED
    BY <1>1, <1>3, <1>4, <2>1, <2>2, OneGroup DEF Standard!DecryptRaw, StandardOf
<1>12. Plus(Pt(xd, 0), Pt(a, 0)) = Pt(Add(xd, a), 0)
  BY MultiplesOfG
<1>13. Standard!ReEnc(PublicKey(x), x, StandardOf(x, a, b), d) = StandardOf(x, a, d)
  BY <1>1, <1>3, <1>5, <1>6, <1>11, <1>12, OneGroup DEF Standard!ReEnc, Standard!EncryptPoint, StandardOf
<1>14. Standard!ReRand(PublicKey(x), StandardOf(x, a, b), d) = StandardOf(x, a, Add(b, d))
  <2>1. Plus(Pt(b, 0), Pt(d, 0)) = Pt(Add(b, d), 0) /\ Plus(Pt(e, 0), Pt(xd, 0)) = Pt(Add(e, xd), 0)
    BY MultiplesOfG
  <2>2. Mul(X, Add(b, d)) = Add(xb, xd) /\ Add(e, xd) = Add(Add(xb, xd), a)
    BY <1>3, <1>4, FieldLaws, Rearranged
  <2>3. QED
    BY <1>1, <1>3, <1>4, <1>5, <1>6, <2>1, <2>2, OneGroup DEF Standard!ReRand, StandardOf
<1>15. QED
  BY <1>7, <1>8, <1>9, <1>10, <1>11, <1>13, <1>14

-----------------------------------------------------------------------------
\* A common twisted-ElGamal ciphertext decrypts with the key x, read at the
\* index of the key y, to its plaintext when x is y, and otherwise never,
\* unless its randomness is zero.
LEMMA TwistedMany ==
  ASSUME NEW x \in 1..(Q - 1), NEW y \in 1..(Q - 1), NEW a \in Scalars, NEW b \in Scalars,
         x = y \/ y = x + 1 \/ x = y + 1
  PROVE  Minus(Pt(b, a), Times(Pt(Mul(y, b), 0), InvOf[x])) = Pt(0, a) <=> x = y \/ b = 0
<1>1. PICK X, Y \in Scalars : X = x /\ Y = y /\ (x # y => Y = Add(X, 1) \/ X = Add(Y, 1))
  <2>1. PICK n \in Nat : n = Q
    BY GroupAssumption
  <2>2. x \in 0..n - 1 /\ y \in 0..n - 1 /\ x % n = x /\ y % n = y
    BY <2>1
  <2>3. y = x + 1 => y = (x + 1) % n
    BY <2>2
  <2>4. x = y + 1 => x = (y + 1) % n
    BY <2>2
  <2>5. QED
    BY <2>1, <2>2, <2>3, <2>4 DEF Scalars, Add
<1>2. PICK i \in Scalars : i = InvOf[x] /\ Mul(X, i) = 1
  BY <1>1, HasInverse
<1>3. PICK yb \in Scalars : yb = Mul(Y, b)
  BY Closed
<1>4. PICK k \in Scalars : k = Mul(yb, i)
  BY Closed
<1>5. Minus(Pt(b, a), Times(Pt(yb, 0), i)) = Pt(Sub(b, k), a)
  <2>1. Times(Pt(yb, 0), i) = Pt(k, 0)
    BY <1>4, MultiplesOfG
  <2>2. Minus(Pt(b, a), Pt(k, 0)) = Pt(Sub(b, k), Sub(a, 0)) /\ Sub(a, 0) = a
    BY PointLaws, ZeroOne
  <2>3. QED
    BY <2>1, <2>2
<1>6. Pt(Sub(b, k), a) = Pt(0, a) <=> Sub(b, k) = 0
  BY PointsDiffer
<1>7. ASSUME Sub(b, k) = 0, x # y
      PROVE  b = 0
  <2>1. b = k
    BY <1>7, Rearranged
  <2>2. Mul(X, Mul(yb, i)) = Mul(Mul(yb, i), X) /\ Mul(Mul(yb, i), X) = Mul(yb, Mul(i, X)) /\ Mul(i, X) = Mul(X, i)
    BY <1>4, FieldLaws
  <2>3. Mul(yb, 1) = yb
    BY ZeroOne
  <2>4. Mul(X, b) = Mul(Y, b)
    BY <1>2, <1>3, <1>4, <2>1, <2>2, <2>3
  <2>5. QED
    BY <1>1, <1>7, <2>4, Neighbours
<1>8. ASSUME x = y
      PROVE  Sub(b, k) = 0
  <2>1. Mul(X, b) = Mul(b, X) /\ Mul(Mul(b, X), i) = Mul(b, Mul(X, i)) /\ Mul(b, 1) = b /\ Sub(b, b) = 0
    BY FieldLaws, ZeroOne
  <2>2. k = b
    BY <1>1, <1>2, <1>3, <1>4, <1>8, <2>1
  <2>3. QED
    BY <2>1, <2>2
<1>9. ASSUME b = 0
      PROVE  Sub(b, k) = 0
  <2>1. yb = 0
    BY <1>3, <1>9, ZeroOne
  <2>2. k = 0
    BY <1>4, <2>1, ZeroOne
  <2>3. Sub(b, b) = 0
    BY ZeroOne
  <2>4. QED
    BY <1>9, <2>2, <2>3
<1>10. QED
  BY <1>1, <1>2, <1>3, <1>5, <1>6, <1>7, <1>8, <1>9

\* Standard ElGamal likewise.
LEMMA StandardMany ==
  ASSUME NEW x \in 1..(Q - 1), NEW y \in 1..(Q - 1), NEW a \in Scalars, NEW b \in Scalars,
         x = y \/ y = x + 1 \/ x = y + 1
  PROVE  Minus(Pt(Add(Mul(y, b), a), 0), Times(Pt(b, 0), x)) = Pt(a, 0) <=> x = y \/ b = 0
<1>1. PICK X, Y \in Scalars : X = x /\ Y = y /\ (x # y => Y = Add(X, 1) \/ X = Add(Y, 1))
  <2>1. PICK n \in Nat : n = Q
    BY GroupAssumption
  <2>2. x \in 0..n - 1 /\ y \in 0..n - 1 /\ x % n = x /\ y % n = y
    BY <2>1
  <2>3. y = x + 1 => y = (x + 1) % n
    BY <2>2
  <2>4. x = y + 1 => x = (y + 1) % n
    BY <2>2
  <2>5. QED
    BY <2>1, <2>2, <2>3, <2>4 DEF Scalars, Add
<1>2. PICK xb, yb \in Scalars : xb = Mul(X, b) /\ yb = Mul(Y, b) /\ Mul(b, X) = xb
  BY Closed, FieldLaws
<1>3. PICK e, s \in Scalars : e = Add(yb, a) /\ s = Sub(yb, xb)
  BY Closed
<1>4. Minus(Pt(e, 0), Times(Pt(b, 0), X)) = Pt(Sub(e, xb), 0)
  <2>1. Times(Pt(b, 0), X) = Pt(xb, 0)
    BY <1>2, MultiplesOfG
  <2>2. QED
    BY <2>1, MultiplesOfG
<1>5. Sub(e, xb) = Add(s, a)
  BY <1>3, Rearranged
<1>6. Pt(Add(s, a), 0) = Pt(a, 0) <=> Add(s, a) = a
  BY PointsDiffer
<1>7. Add(s, a) = a <=> s = 0
  <2>1. Add(a, s) = Add(s, a) /\ Sub(Add(a, s), a) = s /\ Sub(a, a) = 0 /\ Add(0, a) = a
    BY FieldLaws, ZeroOne
  <2>2. QED
    BY <2>1
<1>8. s = 0 <=> xb = yb
  <2>1. Sub(xb, xb) = 0 /\ (Sub(yb, xb) = 0 => yb = xb)
    BY ZeroOne, Rearranged
  <2>2. QED
    BY <1>3, <2>1
<1>9. xb = yb <=> x = y \/ b = 0
  <2>1. b = 0 => xb = 0 /\ yb = 0
    BY <1>2, ZeroOne
  <2>2. ASSUME xb = yb, x # y
        PROVE  b = 0
    <3>1. Mul(Y, b) = Mul(X, b) /\ (Y = Add(X, 1) \/ X = Add(Y, 1))
      BY <1>1, <1>2, <2>2
    <3>2. QED
      BY <3>1, Neighbours
  <2>3. QED
    BY <1>1, <1>2, <2>1, <2>2
<1>10. QED
  BY <1>1, <1>2, <1>3, <1>4, <1>5, <1>6, <1>7, <1>8, <1>9
-----------------------------------------------------------------------------
(***************************************************************************)
(* The invariant of a value.                                               *)
(***************************************************************************)
CiphertextOf(a, b) == IF scheme = "twisted" THEN TwistedOf(sk, a, b) ELSE StandardOf(sk, a, b)

Value_Cipher ==
  /\ scheme \in {"standard", "twisted"} /\ sk \in 1..(Q - 2) /\ m \in Scalars /\ r \in Scalars
  /\ ct = CiphertextOf(m, r)

Value_Thrown ==
  verdict.kind = "threw" =>
    claim.kind = "thrown" /\ (~ValidInterval(claim.about.interval) \/ m >= MsgSize)

\* Keys of both recipients can be inverted.
LEMMA Keys ==
  ASSUME NEW x \in 1..(Q - 2)
  PROVE  x \in 1..(Q - 1) /\ x + 1 \in 1..(Q - 1) /\ x \in Scalars /\ x + 1 \in Scalars
BY GroupAssumption DEF Scalars

\* A fresh ciphertext.
LEMMA FreshIs ==
  ASSUME sk \in 1..(Q - 2), NEW a \in Scalars, NEW b \in Scalars
  PROVE  Fresh(a, b) = CiphertextOf(a, b)
BY Keys, TwistedIs, StandardIs DEF Fresh, CiphertextOf, pk

\* A ciphertext that is what it should be has all that EncryptsExactly asks.
LEMMA CipherExact ==
  ASSUME Value_Cipher
  PROVE  EncryptsExactly
<1>1. /\ sk \in 1..(Q - 2) /\ sk \in 1..(Q - 1) /\ sk + 1 \in 1..(Q - 1) /\ sk \in Scalars /\ sk + 1 \in Scalars
      /\ m \in Scalars /\ r \in Scalars
  BY Keys DEF Value_Cipher
<1>2. ct = Fresh(m, r)
  BY FreshIs DEF Value_Cipher
<1>3. many = <<Pt(sk, 0), Pt(sk + 1, 0)>>
  BY <1>1, KeyIs DEF many
<1> DEFINE keys == <<sk, sk + 1>>
<1>4. \A i \in 1..2 : /\ keys[i] \in 1..(Q - 1) /\ keys[i] \in Scalars /\ many[i] = Pt(keys[i], 0)
                      /\ Times(many[i], r) = Pt(Mul(keys[i], r), 0) /\ Mul(keys[i], r) \in Scalars
  <2> TAKE i \in 1..2
  <2>1. keys[i] \in 1..(Q - 1) /\ keys[i] \in Scalars /\ many[i] = Pt(keys[i], 0)
    BY <1>1, <1>3
  <2>2. QED
    BY <1>1, <2>1, MultiplesOfG, Closed
<1>5. \A i, j \in 1..2 : /\ keys[i] = keys[j] \/ keys[j] = keys[i] + 1 \/ keys[i] = keys[j] + 1
                         /\ keys[i] = keys[j] <=> i = j
  <2> TAKE i, j \in 1..2
  <2>1. sk \in Int /\ sk # sk + 1
    BY <1>1
  <2>2. QED
    BY <2>1
<1>6. DOMAIN many = 1..2
  BY <1>3
<1>7. CASE scheme = "twisted"
  <2>1. DecryptRaw(sk, ct) = Pt(0, m) /\ Times(H, m) = Pt(0, m)
    <3>1. Times(Pt(0, 1), m) = Pt(Mul(0, m), Mul(1, m)) /\ Mul(0, m) = 0 /\ Mul(1, m) = m /\ H = Pt(0, 1)
      BY <1>1, PointLaws, ZeroOne
    <3>2. ct = TwistedOf(sk, m, r)
      BY <1>7 DEF Value_Cipher, CiphertextOf
    <3>3. QED
      BY <1>1, <3>1, <3>2, TwistedIs
  <2>2. Msm(<<G, H>>, <<r, m>>) = Pt(r, m)
    <3>1. Encrypt(PublicKey(sk), m, r) = TwistedOf(sk, m, r)
      BY <1>1, TwistedIs
    <3>2. Encrypt(PublicKey(sk), m, r).c2 = TwistedOf(sk, m, r).c2
      BY <3>1
    <3>3. QED
      BY <3>2 DEF Encrypt, TwistedOf
  <2>3. \A i, j \in 1..2 : DecryptMany(keys[i], EncryptMany(many, m, r), j)
                             = Minus(Pt(r, m), Times(Pt(Mul(keys[j], r), 0), InvOf[keys[i]]))
    <3> TAKE i, j \in 1..2
    <3> DEFINE f == [k \in 1..2 |-> Times(many[k], r)]
    <3>1. Vec(f) = f
      BY VecIs
    <3>2. EncryptMany(many, m, r) = [vec_c1 |-> f, c2 |-> Pt(r, m)]
      BY <1>6, <2>2, <3>1 DEF EncryptMany
    <3>3. f[j] = Pt(Mul(keys[j], r), 0)
      BY <1>4
    <3> HIDE DEF keys, f
    <3>4. QED
      BY <3>2, <3>3 DEF DecryptMany
  <2>4. \A i, j \in 1..2 : DecryptMany(keys[i], EncryptMany(many, m, r), j) = Pt(0, m) <=> i = j \/ r = 0
    <3> TAKE i, j \in 1..2
    <3>1. PICK x, y \in 1..(Q - 1) : x = keys[i] /\ y = keys[j]
      BY <1>4
    <3>2. (x = y \/ y = x + 1 \/ x = y + 1) /\ (x = y <=> i = j)
      BY <1>5, <3>1
    <3>3. Minus(Pt(r, m), Times(Pt(Mul(y, r), 0), InvOf[x])) = Pt(0, m) <=> x = y \/ r = 0
      BY <1>1, <3>2, TwistedMany
    <3>4. QED
      BY <2>3, <3>1, <3>2, <3>3
  <2>5. QED
    BY <1>2, <1>7, <2>1, <2>4 DEF EncryptsExactly
<1>8. CASE scheme # "twisted"
  <2>1. Standard!DecryptRaw(sk, ct) = Pt(m, 0) /\ Times(G, m) = Pt(m, 0)
    <3>1. ct = StandardOf(sk, m, r)
      BY <1>8 DEF Value_Cipher, CiphertextOf
    <3>2. QED
      BY <1>1, <3>1, StandardIs, MultiplesOfG
  <2>2. \A i, j \in 1..2 : Standard!DecryptMany(keys[i], Standard!EncryptMany(many, m, r), j)
                             = Minus(Pt(Add(Mul(keys[j], r), m), 0), Times(Pt(r, 0), keys[i]))
    <3> TAKE i, j \in 1..2
    <3> DEFINE f == [k \in 1..2 |-> Plus(Times(many[k], r), Times(G, m))]
    <3>1. Vec(f) = f
      BY VecIs
    <3>2. Times(G, r) = Pt(r, 0)
      BY <1>1, MultiplesOfG
    <3>3. Standard!EncryptMany(many, m, r) = [c1 |-> Pt(r, 0), vec_c2 |-> f]
      BY <1>6, <3>1, <3>2, OneGroup DEF Standard!EncryptMany
    <3>4. f[j] = Pt(Add(Mul(keys[j], r), m), 0)
      <4>1. f[j] = Plus(Pt(Mul(keys[j], r), 0), Pt(m, 0)) /\ Mul(keys[j], r) \in Scalars
        BY <1>4, <2>1
      <4>2. QED
        BY <1>1, <4>1, MultiplesOfG
    <3> HIDE DEF keys, f
    <3>5. QED
      BY <3>3, <3>4, OneGroup DEF Standard!DecryptMany
  <2>3. \A i, j \in 1..2 : Standard!DecryptMany(keys[i], Standard!EncryptMany(many, m, r), j) = Pt(m, 0) <=> i = j \/ r = 0
    <3> TAKE i, j \in 1..2
    <3>1. PICK x, y \in 1..(Q - 1) : x = keys[i] /\ y = keys[j]
      BY <1>4
    <3>2. (x = y \/ y = x + 1 \/ x = y + 1) /\ (x = y <=> i = j)
      BY <1>5, <3>1
    <3>3. Minus(Pt(Add(Mul(y, r), m), 0), Times(Pt(r, 0), x)) = Pt(m, 0) <=> x = y \/ r = 0
      BY <1>1, <3>2, StandardMany
    <3>4. QED
      BY <2>2, <3>1, <3>2, <3>3
  <2>4. QED
    BY <1>2, <1>8, <2>1, <2>3 DEF EncryptsExactly
<1>9. QED
  BY <1>7, <1>8

\* An operation that makes of the ciphertext what it should.
LEMMA BecomesKeeps ==
  ASSUME Value_Cipher, NEW e, NEW a \in Scalars, NEW b \in Scalars,
         Becomes(e, a, b), e = CiphertextOf(a, b)
  PROVE  Value_Cipher'
BY DEF Value_Cipher, CiphertextOf, Becomes, TwistedOf, StandardOf

\* Every operation does.
LEMMA CipherKept ==
  ASSUME Value_Cipher, [ValueNext]_valueVars
  PROVE  Value_Cipher'
<1>1. /\ sk \in 1..(Q - 2) /\ sk \in 1..(Q - 1) /\ m \in Scalars /\ r \in Scalars
      /\ ct = CiphertextOf(m, r)
  BY Keys DEF Value_Cipher
<1>2. ASSUME NEW a \in Messages, NEW b \in Coins, Addition(a, b)
      PROVE  Value_Cipher'
  <2>1. a \in Scalars /\ b \in Scalars
    BY DrawnAssumption
  <2>2. Add(m, a) \in Scalars /\ Add(r, b) \in Scalars
    BY <1>1, <2>1, Closed
  <2>3. Fresh(a, b) = CiphertextOf(a, b)
    BY <1>1, <2>1, FreshIs
  <2>4. (IF scheme = "twisted" THEN HomoAdd(ct, Fresh(a, b)) ELSE Standard!HomoAdd(ct, Fresh(a, b)))
          = CiphertextOf(Add(m, a), Add(r, b))
    BY <1>1, <2>1, <2>3, TwistedIs, StandardIs DEF CiphertextOf
  <2>5. QED
    BY <1>2, <2>2, <2>4, BecomesKeeps DEF Addition
<1>3. ASSUME NEW a \in Messages, NEW b \in Coins, Subtraction(a, b)
      PROVE  Value_Cipher'
  <2>1. a \in Scalars /\ b \in Scalars
    BY DrawnAssumption
  <2>2. Sub(m, a) \in Scalars /\ Sub(r, b) \in Scalars
    BY <1>1, <2>1, Closed
  <2>3. Fresh(a, b) = CiphertextOf(a, b)
    BY <1>1, <2>1, FreshIs
  <2>4. (IF scheme = "twisted" THEN HomoSub(ct, Fresh(a, b)) ELSE Standard!HomoSub(ct, Fresh(a, b)))
          = CiphertextOf(Sub(m, a), Sub(r, b))
    BY <1>1, <2>1, <2>3, TwistedIs, StandardIs DEF CiphertextOf
  <2>5. QED
    BY <1>3, <2>2, <2>4, BecomesKeeps DEF Subtraction
<1>4. ASSUME NEW k \in Factors, Multiplication(k)
      PROVE  Value_Cipher'
  <2>1. k \in Scalars
    BY DrawnAssumption
  <2>2. Mul(m, k) \in Scalars /\ Mul(r, k) \in Scalars
    BY <1>1, <2>1, Closed
  <2>3. (IF scheme = "twisted" THEN HomoMul(ct, k) ELSE Standard!HomoMul(ct, k)) = CiphertextOf(Mul(m, k), Mul(r, k))
    BY <1>1, <2>1, TwistedIs, StandardIs DEF CiphertextOf
  <2>4. QED
    BY <1>4, <2>2, <2>3, BecomesKeeps DEF Multiplication
<1>5. ASSUME NEW b \in Coins, ReEncryption(b)
      PROVE  Value_Cipher'
  <2>1. b \in Scalars
    BY DrawnAssumption
  <2>2. (IF scheme = "twisted" THEN ReEnc(pk, sk, ct, b) ELSE Standard!ReEnc(pk, sk, ct, b)) = CiphertextOf(m, b)
    BY <1>1, <2>1, TwistedIs, StandardIs DEF CiphertextOf, pk
  <2>3. QED
    BY <1>1, <1>5, <2>1, <2>2, BecomesKeeps DEF ReEncryption
<1>6. ASSUME NEW b \in Coins, ReRandomization(b)
      PROVE  Value_Cipher'
  <2>1. b \in Scalars
    BY DrawnAssumption
  <2>2. Add(r, b) \in Scalars
    BY <1>1, <2>1, Closed
  <2>3. (IF scheme = "twisted" THEN ReRand(pk, ct, b) ELSE Standard!ReRand(pk, ct, b)) = CiphertextOf(m, Add(r, b))
    BY <1>1, <2>1, TwistedIs, StandardIs DEF CiphertextOf, pk
  <2>4. QED
    BY <1>1, <1>6, <2>2, <2>3, BecomesKeeps DEF ReRandomization
<1>7. ASSUME UNCHANGED <<scheme, sk, ct, m, r>>
      PROVE  Value_Cipher'
  BY <1>7 DEF Value_Cipher, CiphertextOf, TwistedOf, StandardOf
<1>8. ASSUME NEW c, NEW context, Verify(c, context)
      PROVE  UNCHANGED <<scheme, sk, ct, m, r>>
  BY <1>8 DEF Verify
<1>9. ASSUME NEW c, NEW mask, NEW tape, Prove(c, mask, tape)
      PROVE  UNCHANGED <<scheme, sk, ct, m, r>>
  BY <1>9 DEF Prove
<1>10. CASE UNCHANGED valueVars
  BY <1>7, <1>10 DEF valueVars
<1>11. QED
  BY <1>2, <1>3, <1>4, <1>5, <1>6, <1>7, <1>8, <1>9, <1>10 DEF ValueNext

\* Once proving has thrown, nothing more becomes of the value, and it has
\* thrown for a reason.
LEMMA ThrownKept ==
  ASSUME Value_Cipher, Value_Thrown, [ValueNext]_valueVars
  PROVE  Value_Thrown'
<1>1. ASSUME NEW e, NEW a, NEW b, Becomes(e, a, b)
      PROVE  Value_Thrown'
  <2>1. claim.kind = "none" /\ UNCHANGED <<claim, verdict>>
    BY <1>1 DEF Becomes, NoClaim
  <2>2. QED
    BY <2>1 DEF Value_Thrown
<1>2. ASSUME NEW c, NEW mask, NEW tape, Prove(c, mask, tape)
      PROVE  Value_Thrown'
  <2>1. scheme = "twisted" /\ claim.kind = "none" /\ UNCHANGED <<scheme, sk, ct, m, r>>
    BY <1>2 DEF Prove, NoClaim
  <2>2. CASE ~ProveThrows(c)
    <3>1. UNCHANGED verdict
      BY <1>2, <2>2 DEF Prove
    <3>2. QED
      BY <2>1, <3>1 DEF Value_Thrown
  <2>3. CASE ProveThrows(c)
    <3>1. claim' = [kind |-> "thrown", about |-> c]
      BY <1>2, <2>3 DEF Prove
    <3>2. ~ValidInterval(c.interval) \/ m >= MsgSize
      <4> SUFFICES ASSUME DecryptExp(sk, ct) = {}, ~(m >= MsgSize)
                   PROVE  FALSE
        BY <2>3 DEF ProveThrows
      <4>1. m \in Scalars /\ DecryptRaw(sk, ct) = Times(H, m)
        BY <2>1, CipherExact DEF EncryptsExactly, Value_Cipher
      <4>2. m \in 0..(MsgSize - 1)
        <5>1. PICK n \in Nat : n = MsgSize
          BY MessageAssumption
        <5>2. m \in Nat
          BY <4>1, GroupAssumption DEF Scalars
        <5>3. QED
          BY <5>1, <5>2
      <4>3. QED
        BY <4>1, <4>2 DEF DecryptExp
    <3>3. claim'.kind = "thrown" /\ claim'.about = c
      BY <3>1
    <3>4. ValidInterval(claim'.about.interval) = ValidInterval(c.interval) /\ m' = m
      BY <2>1, <3>3
    <3>5. QED
      BY <3>2, <3>3, <3>4 DEF Value_Thrown, ValidInterval
  <2>4. QED
    BY <2>2, <2>3
<1>3. ASSUME NEW c, NEW context, Verify(c, context)
      PROVE  Value_Thrown'
  <2>1. verdict'.kind = "done"
    BY <1>3 DEF Verify
  <2>2. QED
    BY <2>1 DEF Value_Thrown
<1>4. CASE UNCHANGED valueVars
  BY <1>4 DEF valueVars, Value_Thrown, ValidInterval
<1>5. QED
  BY <1>1, <1>2, <1>3, <1>4 DEF ValueNext, Addition, Subtraction, Multiplication, ReEncryption, ReRandomization

\* The invariant holds at first and is kept by every step.
LEMMA ValueInvariant == ValueSpec => [](Value_Cipher /\ Value_Thrown)
<1>1. ValueInit => Value_Cipher /\ Value_Thrown
  <2> SUFFICES ASSUME ValueInit
               PROVE  Value_Cipher /\ Value_Thrown
    OBVIOUS
  <2>1. /\ scheme \in {"standard", "twisted"} /\ sk \in 1..(Q - 2) /\ m \in Scalars /\ r \in Scalars
        /\ ct = Fresh(m, r) /\ verdict.kind = "none"
    BY KeyAssumption, DrawnAssumption DEF ValueInit, NoVerdict
  <2>2. Fresh(m, r) = CiphertextOf(m, r)
    BY <2>1, FreshIs
  <2>3. QED
    BY <2>1, <2>2 DEF Value_Cipher, Value_Thrown
<1>2. Value_Cipher /\ Value_Thrown /\ [ValueNext]_valueVars => (Value_Cipher /\ Value_Thrown)'
  BY CipherKept, ThrownKept
<1>3. QED
  BY <1>1, <1>2, PTL DEF ValueSpec

\* After any sequence of operations the ciphertext is what encrypting the right
\* plaintext with the right randomness gives; it decrypts to that plaintext,
\* and a common one for either recipient at its index only: in a group of any
\* prime order, for all keys, messages and coins (twisted_elgamal.cpp 62-225,
\* elgamal.cpp 55-214).
THEOREM CiphertextsAreExact == ValueSpec => []EncryptsExactly
<1>1. Value_Cipher /\ Value_Thrown => EncryptsExactly
  BY CipherExact
<1>2. QED
  BY <1>1, ValueInvariant, PTL

\* Proving an interval throws for a bad interval or a plaintext beyond the
\* message space and for nothing else
\* (twisted_elgamal_range_proof.cpp 73-78, 262-274).
THEOREM ProvingThrowsOnlyWhen == ValueSpec => []ThrowsOnlyWhen
<1>1. Value_Cipher /\ Value_Thrown => ThrowsOnlyWhen
  BY DEF Value_Thrown, ThrowsOnlyWhen
<1>2. QED
  BY <1>1, ValueInvariant, PTL
=============================================================================
