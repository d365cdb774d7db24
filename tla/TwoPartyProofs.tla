---------------------------- MODULE TwoPartyProofs ----------------------------
(***************************************************************************)
(* Lemmas about TwoParty that hold for every pair of mirrored programs of  *)
(* calls, whatever the messages carry and however many messages the        *)
(* sockets hold, and the programs of Programs, which are mirrored.  The    *)
(* protocols' own proofs cite them.                                        *)
(***************************************************************************)
EXTENDS Programs, SequenceTheorems, TLAPS

\* The sequences and functions a session's state is made of.
SessionOK ==
  /\ \E C : todo \in [Party -> Seq(C)]
  /\ \E M : wire \in [Party -> Seq(M)]
  /\ DOMAIN status = Party /\ status = [p \in Party |-> status[p]]

\* What any one call, return or failure does to a session, but for the data.
SessionStep ==
  \/ \E p \in Party : \/ \E data : Send(p, data)
                      \/ Recv(p) \/ PeerClosed(p) \/ NetworkBreaks(p) \/ Return(p)
  \/ UNCHANGED session

\* Each party has the other for its peer.
LEMMA PeerFacts ==
  /\ Party = {"S", "R"}
  /\ \A p \in Party : Peer(p) \in Party /\ Peer(p) # p /\ Peer(Peer(p)) = p
  /\ \A p, q \in Party : q = p \/ q = Peer(p)
BY DEF Party, Peer

\* The messages on a wire after one more is sent.
LEMMA MessageAppended ==
  ASSUME NEW M, NEW s \in Seq(M), NEW m
  PROVE  /\ Append(s, m) \in Seq(M \cup {m})
         /\ Len(Append(s, m)) = Len(s) + 1
         /\ \A k \in 1..Len(s) : Append(s, m)[k] = s[k]
         /\ Append(s, m)[Len(s) + 1] = m
<1>1. s \in Seq(M \cup {m})
  BY SeqMonotonic
<1>2. QED
  BY <1>1, AppendProperties

\* A step keeps a session's state in shape.
LEMMA SessionShape ==
  ASSUME SessionOK, SessionStep
  PROVE  SessionOK'
<1>1. PICK C : todo \in [Party -> Seq(C)]
  BY DEF SessionOK
<1>2. PICK M : wire \in [Party -> Seq(M)]
  BY DEF SessionOK
<1>3. ASSUME NEW p \in Party, NEW data, Send(p, data)
      PROVE  SessionOK'
  <2> DEFINE m == [name |-> NextName(p), data |-> data]
  <2>1. todo[p] \in Seq(C) /\ todo[p] # <<>>
    BY <1>1, <1>3 DEF Send, AtCall
  <2>2. Tail(todo[p]) \in Seq(C)
    BY <2>1, HeadTailProperties
  <2>3. todo' \in [Party -> Seq(C)]
    BY <1>1, <1>3, <2>2 DEF Send
  <2>4. Append(wire[p], m) \in Seq(M \cup {m})
    BY <1>2, MessageAppended
  <2>5. \A q \in Party : wire[q] \in Seq(M \cup {m})
    BY <1>2, SeqMonotonic
  <2>6. wire' \in [Party -> Seq(M \cup {m})]
    BY <1>2, <1>3, <2>4, <2>5 DEF Send
  <2>7. status' = status
    BY <1>3 DEF Send
  <2>8. QED
    BY <2>3, <2>6, <2>7 DEF SessionOK
<1>4. ASSUME NEW p \in Party, Recv(p)
      PROVE  SessionOK'
  <2>1. todo[p] \in Seq(C) /\ todo[p] # <<>> /\ wire[Peer(p)] \in Seq(M) /\ wire[Peer(p)] # <<>>
    BY <1>1, <1>2, <1>4, PeerFacts DEF Recv, AtCall
  <2>2. Tail(todo[p]) \in Seq(C) /\ Tail(wire[Peer(p)]) \in Seq(M)
    BY <2>1, HeadTailProperties
  <2>3. todo' \in [Party -> Seq(C)] /\ wire' \in [Party -> Seq(M)]
    BY <1>1, <1>2, <1>4, <2>2 DEF Recv
  <2>4. status' = status \/ status' = [status EXCEPT ![p] = "desync"]
    BY <1>4 DEF Recv
  <2>5. QED
    BY <2>3, <2>4 DEF SessionOK
<1>5. ASSUME NEW p \in Party, PeerClosed(p) \/ NetworkBreaks(p) \/ Return(p)
      PROVE  SessionOK'
  BY <1>1, <1>2, <1>5 DEF SessionOK, PeerClosed, NetworkBreaks, Return
<1>6. CASE UNCHANGED session
  BY <1>1, <1>2, <1>6 DEF SessionOK, session
<1>7. QED
  BY <1>3, <1>4, <1>5, <1>6 DEF SessionStep
-----------------------------------------------------------------------------
\* Programs that mirror each other start in step ...
LEMMA StartInStep ==
  ASSUME NEW C, NEW programS \in Seq(C), NEW programR \in Seq(C),
         Len(programS) = Len(programR),
         \A k \in 1..Len(programS) : Mirrored(programS[k], programR[k]),
         Start(programS, programR)
  PROVE  SessionOK /\ InStep
<1> USE DEF Start
<1>1. SessionOK
  <2>1. todo \in [Party -> Seq(C)] /\ wire \in [Party -> Seq({})]
    OBVIOUS
  <2>2. QED
    BY <2>1 DEF SessionOK
<1>2. Ahead("S")
  <2>1. todo["S"] = programS /\ todo["R"] = programR /\ wire["S"] = <<>> /\ wire["R"] = <<>>
    BY DEF Party
  <2>2. Len(wire["S"]) = 0 /\ Len(programS) \in Nat
    BY <2>1, LenProperties
  <2>3. Peer("S") = "R"
    BY DEF Peer
  <2>4. \A k \in 1..Len(programS) : Mirrored(todo["S"][k], todo["R"][Len(wire["S"]) + k])
    BY <2>1, <2>2
  <2>5. \A k \in 1..Len(wire["S"]) : FALSE
    BY <2>2
  <2>6. Len(todo["R"]) = Len(wire["S"]) + Len(todo["S"])
    BY <2>1, <2>2
  <2>7. QED
    BY <2>1, <2>3, <2>4, <2>5, <2>6 DEF Ahead
<1>3. QED
  BY <1>1, <1>2 DEF InStep, Party

\* If nothing is on the wire either party is ahead.
LEMMA AheadSymmetric ==
  ASSUME SessionOK, NEW p \in Party, Ahead(p), wire[p] = <<>>
  PROVE  Ahead(Peer(p))
<1>1. PICK C : todo \in [Party -> Seq(C)]
  BY DEF SessionOK
<1>2. todo[p] \in Seq(C) /\ todo[Peer(p)] \in Seq(C) /\ Peer(Peer(p)) = p
  BY <1>1, PeerFacts
<1>3. Len(wire[p]) = 0 /\ Len(todo[p]) \in Nat /\ Len(todo[Peer(p)]) \in Nat
  BY <1>2, LenProperties
<1>4. Len(wire[Peer(p)]) = 0
  BY <1>3 DEF Ahead
<1>5. Len(todo[Peer(p)]) = Len(todo[p])
  BY <1>3 DEF Ahead
<1>6. \A k \in 1..Len(todo[p]) : Mirrored(todo[p][k], todo[Peer(p)][k])
  BY <1>3 DEF Ahead
<1>7. \A k \in 1..Len(todo[Peer(p)]) : Mirrored(todo[Peer(p)][k], todo[p][k])
  BY <1>5, <1>6 DEF Mirrored
<1>8. QED
  BY <1>2, <1>3, <1>4, <1>5, <1>7 DEF Ahead

\* Only the party ahead sends: its peer has a call to receive first.
LEMMA SenderIsAhead ==
  ASSUME SessionOK, InStep, NEW p \in Party, AtCall(p, "send")
  PROVE  Ahead(p)
<1> DEFINE q == Peer(p)
<1>1. PICK C : todo \in [Party -> Seq(C)]
  BY DEF SessionOK
<1>2. PICK M : wire \in [Party -> Seq(M)]
  BY DEF SessionOK
<1>3. q \in Party /\ Peer(q) = p
  BY PeerFacts
<1>4. todo[p] \in Seq(C) /\ todo[p] # <<>> /\ todo[p][1].op = "send"
  BY <1>1 DEF AtCall
<1>5. wire[q] \in Seq(M)
  BY <1>2, <1>3
<1>6. CASE Ahead(q)
  <2>1. Len(wire[q]) \in Nat /\ (Len(wire[q]) = 0 => wire[q] = <<>>)
    BY <1>5
  <2>2. \A k \in 1..Len(wire[q]) : todo[p][k].op = "recv"
    BY <1>3, <1>6 DEF Ahead
  <2>3. wire[q] = <<>>
    BY <1>4, <2>1, <2>2
  <2>4. QED
    BY <1>3, <1>6, <2>3, AheadSymmetric
<1>7. QED
  BY <1>6, PeerFacts DEF InStep

\* Only the peer of the party ahead has a message to read, the one it expects.
LEMMA ReaderIsBehind ==
  ASSUME SessionOK, InStep, NEW p \in Party, AtCall(p, "recv"), wire[Peer(p)] # <<>>
  PROVE  Ahead(Peer(p)) /\ Head(wire[Peer(p)]).name = NextName(p)
<1> DEFINE q == Peer(p)
<1>1. PICK C : todo \in [Party -> Seq(C)]
  BY DEF SessionOK
<1>2. PICK M : wire \in [Party -> Seq(M)]
  BY DEF SessionOK
<1>3. q \in Party /\ Peer(q) = p
  BY PeerFacts
<1>4. Ahead(q)
  <2>1. ~Ahead(p)
    BY DEF Ahead
  <2>2. QED
    BY <2>1, PeerFacts DEF InStep
<1>5. todo[p] \in Seq(C) /\ todo[p] # <<>> /\ wire[q] \in Seq(M) /\ wire[q] # <<>>
  BY <1>1, <1>2, <1>3 DEF AtCall
<1>6. 1 \in 1..Len(wire[q]) /\ Head(wire[q]) = wire[q][1] /\ Head(todo[p]) = todo[p][1]
  BY <1>5
<1>7. todo[p][1].name = wire[q][1].name
  BY <1>3, <1>4, <1>6 DEF Ahead
<1>8. QED
  BY <1>4, <1>6, <1>7 DEF NextName

\* A send keeps the two parties in step ...
LEMMA SendInStep ==
  ASSUME SessionOK, InStep, NEW p \in Party, NEW data, Send(p, data)
  PROVE  InStep'
<1> DEFINE q == Peer(p)
           m == [name |-> NextName(p), data |-> data]
<1>1. PICK C : todo \in [Party -> Seq(C)]
  BY DEF SessionOK
<1>2. PICK M : wire \in [Party -> Seq(M)]
  BY DEF SessionOK
<1>3. q \in Party /\ q # p /\ Peer(q) = p
  BY PeerFacts
<1>4. Ahead(p)
  BY SenderIsAhead DEF Send
<1>5. todo[p] \in Seq(C) /\ todo[p] # <<>> /\ todo[q] \in Seq(C) /\ wire[p] \in Seq(M)
  BY <1>1, <1>2, <1>3 DEF Send, AtCall
<1>6. /\ todo'[p] = Tail(todo[p]) /\ todo'[q] = todo[q]
      /\ wire'[p] = Append(wire[p], m) /\ wire'[q] = wire[q]
      /\ status' = status
  BY <1>1, <1>2, <1>3 DEF Send
<1>7. PICK n \in Nat \ {0}, g \in Nat : n = Len(todo[p]) /\ g = Len(wire[p])
  <2>1. Len(todo[p]) \in Nat \ {0} /\ Len(wire[p]) \in Nat
    BY <1>5, LenProperties, EmptySeq
  <2>2. QED
    BY <2>1
<1>8. Len(todo'[p]) = n - 1 /\ Len(wire'[p]) = g + 1 /\ Len(todo[q]) = g + n
  <2>1. Len(todo'[p]) = n - 1
    BY <1>5, <1>6, <1>7, HeadTailProperties
  <2>2. Len(wire'[p]) = g + 1
    BY <1>5, <1>6, <1>7, MessageAppended
  <2>3. QED
    BY <1>4, <1>7, <2>1, <2>2 DEF Ahead
<1>9. /\ \A k \in 1..n - 1 : todo'[p][k] = todo[p][k + 1]
      /\ \A k \in 1..g : wire'[p][k] = wire[p][k]
      /\ wire'[p][g + 1] = m
  <2>1. \A k \in 1..Len(Tail(todo[p])) : Tail(todo[p])[k] = todo[p][k + 1]
    BY <1>5, HeadTailProperties
  <2>2. /\ \A k \in 1..Len(wire[p]) : Append(wire[p], m)[k] = wire[p][k]
        /\ Append(wire[p], m)[Len(wire[p]) + 1] = m
    BY <1>5, MessageAppended
  <2>3. QED
    BY <1>6, <1>7, <1>8, <2>1, <2>2
<1>10. todo[q][g + 1].op = "recv" /\ todo[q][g + 1].name = m.name
  <2>1. todo[p][1].op = "send" /\ todo[p][1].name = m.name
    BY <1>5 DEF Send, AtCall, NextName
  <2>2. Mirrored(todo[p][1], todo[q][g + 1])
    BY <1>4, <1>7 DEF Ahead
  <2>3. QED
    BY <2>1, <2>2 DEF Mirrored
<1>11. \A k \in 1..g + 1 :
         todo'[q][k].op = "recv" /\ todo'[q][k].name = wire'[p][k].name
  <2> TAKE k \in 1..g + 1
  <2>1. CASE k = g + 1
    BY <1>6, <1>9, <1>10, <2>1
  <2>2. CASE k # g + 1
    <3>1. k \in 1..g
      BY <2>2
    <3>2. wire'[p][k] = wire[p][k]
      BY <1>9, <3>1
    <3>3. QED
      BY <1>4, <1>6, <1>7, <3>1, <3>2 DEF Ahead
  <2>3. QED
    BY <2>1, <2>2
<1>12. \A k \in 1..n - 1 : Mirrored(todo'[p][k], todo'[q][(g + 1) + k])
  <2> TAKE k \in 1..n - 1
  <2>1. k + 1 \in 1..n /\ (g + 1) + k = g + (k + 1)
    OBVIOUS
  <2>2. Mirrored(todo[p][k + 1], todo[q][g + (k + 1)])
    BY <1>4, <1>7, <2>1 DEF Ahead
  <2>3. todo'[p][k] = todo[p][k + 1]
    BY <1>9
  <2>4. QED
    BY <1>6, <2>1, <2>2, <2>3
<1>13. Len(todo'[q]) = (g + 1) + (n - 1) /\ wire'[q] = <<>>
  <2>1. wire[q] = <<>>
    BY <1>4 DEF Ahead
  <2>2. g + n = (g + 1) + (n - 1)
    OBVIOUS
  <2>3. QED
    BY <1>6, <1>8, <2>1, <2>2
<1>14. Ahead(p)'
  BY <1>8, <1>11, <1>12, <1>13 DEF Ahead
<1>15. \A r \in Party : status'[r] = "returned" => todo'[r] = <<>>
  <2>1. status[p] # "returned"
    BY DEF Send, AtCall
  <2>2. QED
    BY <1>6, <2>1, PeerFacts DEF InStep
<1>16. QED
  BY <1>6, <1>14, <1>15 DEF InStep

\* ... and so does a recv.
LEMMA RecvInStep ==
  ASSUME SessionOK, InStep, NEW p \in Party, Recv(p)
  PROVE  /\ InStep'
         /\ Head(wire[Peer(p)]).name = NextName(p)
         /\ status' = status
<1> DEFINE q == Peer(p)
<1>1. PICK C : todo \in [Party -> Seq(C)]
  BY DEF SessionOK
<1>2. PICK M : wire \in [Party -> Seq(M)]
  BY DEF SessionOK
<1>3. q \in Party /\ q # p /\ Peer(q) = p
  BY PeerFacts
<1>4. Ahead(q) /\ Head(wire[q]).name = NextName(p)
  BY ReaderIsBehind DEF Recv
<1>5. /\ todo[p] \in Seq(C) /\ todo[p] # <<>> /\ todo[q] \in Seq(C)
      /\ wire[q] \in Seq(M) /\ wire[q] # <<>>
  BY <1>1, <1>2, <1>3 DEF Recv, AtCall
<1>6. /\ todo'[p] = Tail(todo[p]) /\ todo'[q] = todo[q]
      /\ wire'[q] = Tail(wire[q]) /\ wire'[p] = wire[p]
      /\ status' = status
  BY <1>1, <1>2, <1>3, <1>4 DEF Recv
<1>7. PICK n \in Nat, g \in Nat \ {0} : n = Len(todo[q]) /\ g = Len(wire[q])
  <2>1. Len(todo[q]) \in Nat /\ Len(wire[q]) \in Nat
    BY <1>5, LenProperties
  <2>2. Len(wire[q]) # 0
    BY <1>5, EmptySeq
  <2> HIDE DEF q
  <2>3. QED
    BY <2>1, <2>2
<1>8. Len(todo[p]) = g + n /\ Len(todo'[p]) = (g - 1) + n /\ Len(wire'[q]) = g - 1
  <2>1. Len(todo[p]) = g + n
    BY <1>3, <1>4, <1>7 DEF Ahead
  <2>2. Len(todo'[p]) = Len(todo[p]) - 1 /\ Len(wire'[q]) = Len(wire[q]) - 1
    BY <1>5, <1>6, HeadTailProperties
  <2>3. QED
    BY <1>7, <2>1, <2>2
<1>9. /\ \A k \in 1..(g - 1) + n : todo'[p][k] = todo[p][k + 1]
      /\ \A k \in 1..g - 1 : wire'[q][k] = wire[q][k + 1]
  <2>1. \A k \in 1..Len(Tail(todo[p])) : Tail(todo[p])[k] = todo[p][k + 1]
    BY <1>5, HeadTailProperties
  <2>2. \A k \in 1..Len(Tail(wire[q])) : Tail(wire[q])[k] = wire[q][k + 1]
    BY <1>5, HeadTailProperties
  <2>3. QED
    BY <1>6, <1>8, <2>1, <2>2
<1>10. \A k \in 1..g - 1 :
         todo'[p][k].op = "recv" /\ todo'[p][k].name = wire'[q][k].name
  <2> TAKE k \in 1..g - 1
  <2>1. k + 1 \in 1..g /\ k \in 1..(g - 1) + n
    OBVIOUS
  <2>2. todo'[p][k] = todo[p][k + 1] /\ wire'[q][k] = wire[q][k + 1]
    BY <1>9, <2>1
  <2>3. QED
    BY <1>3, <1>4, <1>7, <2>1, <2>2 DEF Ahead
<1>11. \A k \in 1..n : Mirrored(todo'[q][k], todo'[p][(g - 1) + k])
  <2> TAKE k \in 1..n
  <2>1. Mirrored(todo[q][k], todo[p][g + k])
    BY <1>3, <1>4, <1>7 DEF Ahead
  <2>2. (g - 1) + k \in 1..(g - 1) + n /\ ((g - 1) + k) + 1 = g + k
    OBVIOUS
  <2>3. todo'[p][(g - 1) + k] = todo[p][g + k]
    BY <1>9, <2>2
  <2>4. QED
    BY <1>6, <2>1, <2>3
<1>12. wire'[p] = <<>> /\ Len(todo'[q]) = n
  BY <1>3, <1>4, <1>6, <1>7 DEF Ahead
<1>13. Ahead(q)'
  BY <1>3, <1>8, <1>10, <1>11, <1>12 DEF Ahead
<1>14. \A r \in Party : status'[r] = "returned" => todo'[r] = <<>>
  <2>1. status[p] # "returned"
    BY DEF Recv, AtCall
  <2>2. QED
    BY <1>6, <2>1, PeerFacts DEF InStep
<1>15. QED
  BY <1>3, <1>4, <1>6, <1>13, <1>14 DEF InStep

\* ... and every step keeps them in step.
LEMMA StepInStep ==
  ASSUME SessionOK, InStep, SessionStep
  PROVE  InStep'
<1>1. ASSUME NEW p \in Party, PeerClosed(p) \/ NetworkBreaks(p) \/ Return(p)
      PROVE  InStep'
  <2>1. UNCHANGED <<todo, wire>>
    BY <1>1 DEF PeerClosed, NetworkBreaks, Return
  <2>2. \A r \in Party : Ahead(r)' <=> Ahead(r)
    BY <2>1 DEF Ahead
  <2>3. \A r \in Party : /\ status'[r] # "desync"
                         /\ status'[r] = "returned" => todo[r] = <<>>
    BY <1>1 DEF SessionOK, InStep, PeerClosed, NetworkBreaks, Return
  <2>4. QED
    BY <2>1, <2>2, <2>3 DEF InStep
<1>2. CASE UNCHANGED session
  <2>1. \A r \in Party : Ahead(r)' <=> Ahead(r)
    BY <1>2 DEF Ahead, session
  <2>2. QED
    BY <1>2, <2>1 DEF InStep, session
<1>3. QED
  BY <1>1, <1>2, SendInStep, RecvInStep DEF SessionStep

\* Parties in step misread nothing and leave nothing behind.
LEMMA InStepNoDesync ==
  ASSUME SessionOK, InStep
  PROVE  NoDesync
<1>1. ASSUME \A p \in Party : status[p] = "returned"
      PROVE  \A p \in Party : wire[p] = <<>>
  <2>1. PICK M : wire \in [Party -> Seq(M)]
    BY DEF SessionOK
  <2>2. PICK p \in Party : Ahead(p)
    BY DEF InStep
  <2>3. Peer(p) \in Party /\ wire[Peer(p)] = <<>> /\ wire[p] \in Seq(M)
    BY <2>1, <2>2, PeerFacts DEF Ahead
  <2>4. todo[p] = <<>> /\ todo[Peer(p)] = <<>>
    BY <1>1, <2>3 DEF InStep
  <2>5. Len(wire[p]) = 0
    BY <2>2, <2>3, <2>4 DEF Ahead
  <2>6. QED
    BY <2>3, <2>5, PeerFacts
<1>2. QED
  BY <1>1 DEF InStep, NoDesync
-----------------------------------------------------------------------------
(***************************************************************************)
(* What a party holds, and that it is what its peer sent.                  *)
(***************************************************************************)
\* How far p has come in its program, and that it holds all it has received.
SoFar(p, program) ==
  \E k \in 0..Len(program) :
    /\ Len(todo[p]) = Len(program) - k
    /\ \A i \in 1..Len(program) - k : todo[p][i] = program[k + i]
    /\ \A i \in 1..k : program[i].op = "recv" => program[i].name \in DOMAIN inbox[p]

InboxOK == inbox = [p \in Party |-> inbox[p]]

\* The data of the messages named in N is what data says, on the wire and
\* when it was received.
Delivers(N, data) ==
  \A p \in Party :
    /\ \A k \in 1..Len(wire[p]) :
         wire[p][k].name \in N => wire[p][k].data = data[p][wire[p][k].name]
    /\ \A n \in DOMAIN inbox[p] \cap N : inbox[p][n] = data[Peer(p)][n]

\* A recv keeps what was received before, but for the name it receives.
LEMMA ReceiveKeeps ==
  ASSUME SessionOK, InStep, InboxOK, NEW p \in Party, Recv(p)
  PROVE  /\ DOMAIN inbox'[p] = DOMAIN inbox[p] \cup {NextName(p)}
         /\ inbox'[p][NextName(p)] = Head(wire[Peer(p)]).data
         /\ \A n \in DOMAIN inbox[p] : n # NextName(p) => inbox'[p][n] = inbox[p][n]
         /\ inbox'[Peer(p)] = inbox[Peer(p)]
         /\ InboxOK'
<1> DEFINE m == Head(wire[Peer(p)])
<1>1. m.name = NextName(p)
  BY ReaderIsBehind DEF Recv
<1>2. inbox' = [inbox EXCEPT ![p] = With(@, m)]
  BY <1>1 DEF Recv
<1>3. inbox'[p] = With(inbox[p], m) /\ inbox'[Peer(p)] = inbox[Peer(p)]
  BY <1>2, PeerFacts DEF InboxOK
<1>4. InboxOK'
  BY <1>2 DEF InboxOK
<1>5. inbox'[p] = [x \in {m.name} \cup DOMAIN inbox[p] |-> IF x = m.name THEN m.data ELSE inbox[p][x]]
  BY <1>3 DEF With
<1>6. QED
  BY <1>1, <1>3, <1>4, <1>5

\* What a party holds of its program's messages.
LEMMA SoFarStep ==
  ASSUME SessionOK, InStep, InboxOK, SessionStep,
         NEW C, NEW program \in Seq(C), NEW p \in Party, SoFar(p, program)
  PROVE  SoFar(p, program)'
<1>1. PICK D : todo \in [Party -> Seq(D)]
  BY DEF SessionOK
<1>2. PICK n \in Nat : n = Len(program)
  OBVIOUS
<1>3. PICK k \in 0..n :
        /\ Len(todo[p]) = n - k
        /\ \A i \in 1..n - k : todo[p][i] = program[k + i]
        /\ \A i \in 1..k : program[i].op = "recv" => program[i].name \in DOMAIN inbox[p]
  BY <1>2 DEF SoFar
<1>4. ASSUME todo'[p] = todo[p], DOMAIN inbox[p] \subseteq DOMAIN inbox'[p]
      PROVE  SoFar(p, program)'
  <2>1. \A i \in 1..k : program[i].op = "recv" => program[i].name \in DOMAIN inbox'[p]
    BY <1>3, <1>4
  <2>2. Len(todo'[p]) = n - k /\ \A i \in 1..n - k : todo'[p][i] = program[k + i]
    BY <1>3, <1>4
  <2>3. QED
    BY <1>2, <2>1, <2>2 DEF SoFar
<1>5. ASSUME AtCall(p, "send") \/ AtCall(p, "recv"),
             todo'[p] = Tail(todo[p]), DOMAIN inbox[p] \subseteq DOMAIN inbox'[p],
             AtCall(p, "recv") => NextName(p) \in DOMAIN inbox'[p]
      PROVE  SoFar(p, program)'
  <2>1. todo[p] \in Seq(D) /\ todo[p] # <<>>
    BY <1>1, <1>5 DEF AtCall
  <2>2. PICK len \in Nat \ {0} : len = Len(todo[p])
    BY <2>1
  <2>3. len = n - k
    BY <1>3, <2>2
  <2>4. k + 1 \in 0..n
    BY <1>2, <2>3
  <2>5. Len(todo'[p]) = n - (k + 1)
    <3>1. Len(todo'[p]) = len - 1
      BY <1>5, <2>1, <2>2, HeadTailProperties
    <3>2. QED
      BY <1>2, <2>3, <3>1
  <2>6. ASSUME NEW i \in 1..n - (k + 1)
        PROVE  todo'[p][i] = program[(k + 1) + i]
    <3>1. todo'[p][i] = todo[p][i + 1]
      <4>1. i \in 1..Len(Tail(todo[p]))
        BY <1>5, <2>5
      <4>2. QED
        BY <1>5, <2>1, <4>1, HeadTailProperties
    <3>2. i + 1 \in 1..n - k /\ k + (i + 1) = (k + 1) + i
      BY <1>2
    <3>3. todo[p][i + 1] = program[k + (i + 1)]
      BY <1>3, <3>2
    <3>4. QED
      BY <3>1, <3>2, <3>3
  <2>7. program[k + 1] = Head(todo[p])
    <3>1. 1 \in 1..n - k
      BY <2>2, <2>3
    <3>2. todo[p][1] = program[k + 1]
      BY <1>3, <3>1
    <3>3. QED
      BY <2>1, <3>2
  <2>8. ASSUME NEW i \in 1..k + 1, program[i].op = "recv"
        PROVE  program[i].name \in DOMAIN inbox'[p]
    <3>1. CASE i = k + 1
      BY <1>5, <2>7, <2>8, <3>1 DEF AtCall, NextName
    <3>2. CASE i # k + 1
      <4>1. i \in 1..k
        BY <3>2
      <4>2. QED
        BY <1>3, <1>5, <2>8, <4>1
    <3>3. QED
      BY <3>1, <3>2
  <2>9. QED
    BY <1>2, <2>4, <2>5, <2>6, <2>8 DEF SoFar
<1>6. ASSUME NEW q \in Party, NEW data, Send(q, data)
      PROVE  SoFar(p, program)'
  <2>1. inbox' = inbox
    BY <1>6 DEF Send
  <2>2. CASE p = q
    <3>1. todo'[p] = Tail(todo[p]) /\ AtCall(p, "send")
      BY <1>1, <1>6, <2>2 DEF Send
    <3>2. ~AtCall(p, "recv")
      BY <3>1 DEF AtCall
    <3>3. QED
      BY <1>5, <2>1, <3>1, <3>2
  <2>3. CASE p # q
    BY <1>1, <1>4, <1>6, <2>1, <2>3 DEF Send
  <2>4. QED
    BY <2>2, <2>3
<1>7. ASSUME NEW q \in Party, Recv(q)
      PROVE  SoFar(p, program)'
  <2>1. CASE p = q
    <3>1. todo'[p] = Tail(todo[p]) /\ AtCall(p, "recv")
      BY <1>1, <1>7, <2>1 DEF Recv
    <3>2. DOMAIN inbox'[p] = DOMAIN inbox[p] \cup {NextName(p)}
      BY <1>7, <2>1, ReceiveKeeps
    <3>3. QED
      BY <1>5, <3>1, <3>2
  <2>2. CASE p # q
    <3>1. p = Peer(q)
      BY <2>2, PeerFacts
    <3>2. inbox'[p] = inbox[p]
      BY <1>7, <3>1, ReceiveKeeps
    <3>3. todo'[p] = todo[p]
      BY <1>1, <1>7, <2>2 DEF Recv
    <3>4. QED
      BY <1>4, <3>2, <3>3
  <2>3. QED
    BY <2>1, <2>2
<1>8. ASSUME UNCHANGED <<todo, inbox>>
      PROVE  SoFar(p, program)'
  BY <1>4, <1>8
<1>9. QED
  BY <1>6, <1>7, <1>8 DEF SessionStep, PeerClosed, NetworkBreaks, Return, session

\* The next message of a party that is at a call is the next of its program.
LEMMA AtNext ==
  ASSUME SessionOK, NEW p \in Party, NEW op, AtCall(p, op),
         NEW C, NEW program \in Seq(C), SoFar(p, program)
  PROVE  \E j \in 1..Len(program) :
           /\ program[j].op = op /\ program[j].name = NextName(p)
           /\ \A i \in 1..j - 1 : program[i].op = "recv" => program[i].name \in DOMAIN inbox[p]
<1>1. PICK D : todo \in [Party -> Seq(D)]
  BY DEF SessionOK
<1>2. PICK n \in Nat : n = Len(program)
  OBVIOUS
<1>3. PICK k \in 0..n :
        /\ Len(todo[p]) = n - k
        /\ \A i \in 1..n - k : todo[p][i] = program[k + i]
        /\ \A i \in 1..k : program[i].op = "recv" => program[i].name \in DOMAIN inbox[p]
  BY <1>2 DEF SoFar
<1>4. todo[p] \in Seq(D) /\ todo[p] # <<>> /\ Head(todo[p]).op = op
  BY <1>1 DEF AtCall
<1>5. PICK len \in Nat \ {0} : len = Len(todo[p])
  BY <1>4
<1>6. len = n - k
  BY <1>3, <1>5
<1>7. 1 \in 1..n - k /\ k + 1 \in 1..n /\ (k + 1) - 1 = k
  BY <1>2, <1>6
<1>8. program[k + 1] = Head(todo[p])
  <2>1. todo[p][1] = program[k + 1]
    BY <1>3, <1>7
  <2>2. QED
    BY <1>4, <2>1
<1>9. QED
  BY <1>2, <1>3, <1>4, <1>7, <1>8 DEF NextName

\* A party that has returned holds all its program receives.
LEMMA HoldsAll ==
  ASSUME SessionOK, InStep, NEW p \in Party, status[p] = "returned" \/ todo[p] = <<>>,
         NEW C, NEW program \in Seq(C), SoFar(p, program),
         NEW i \in 1..Len(program), program[i].op = "recv"
  PROVE  program[i].name \in DOMAIN inbox[p]
<1>1. PICK n \in Nat : n = Len(program)
  OBVIOUS
<1>2. PICK k \in 0..n :
        /\ Len(todo[p]) = n - k
        /\ \A j \in 1..k : program[j].op = "recv" => program[j].name \in DOMAIN inbox[p]
  BY <1>1 DEF SoFar
<1>3. todo[p] = <<>>
  BY DEF InStep
<1>4. k = n
  <2>1. Len(todo[p]) = 0
    BY <1>3
  <2>2. QED
    BY <1>2, <2>1
<1>5. QED
  BY <1>1, <1>2, <1>4

\* A step of the session that sends what data says.
HonestStep(N, data) ==
  \/ \E p \in Party :
       \/ \E d : Send(p, d) /\ (NextName(p) \in N => d = data[p][NextName(p)])
       \/ Recv(p) \/ PeerClosed(p) \/ NetworkBreaks(p) \/ Return(p)
  \/ UNCHANGED session

\* Messages that were sent as the data say are received as the data say.
LEMMA DeliversStep ==
  ASSUME SessionOK, InStep, InboxOK,
         NEW N, NEW expected, Delivers(N, expected), HonestStep(N, expected)
  PROVE  Delivers(N, expected)'
<1> USE DEF Delivers
<1>1. PICK M : wire \in [Party -> Seq(M)]
  BY DEF SessionOK
<1>2. ASSUME NEW p \in Party, NEW data, Send(p, data), NEW q \in Party,
             NextName(p) \in N => data = expected[p][NextName(p)]
      PROVE  /\ \A k \in 1..Len(wire'[q]) :
                  wire'[q][k].name \in N => wire'[q][k].data = expected[q][wire'[q][k].name]
             /\ \A n \in DOMAIN inbox'[q] \cap N : inbox'[q][n] = expected[Peer(q)][n]
  <2> DEFINE m == [name |-> NextName(p), data |-> data]
  <2>1. inbox' = inbox
    BY <1>2 DEF Send
  <2>2. CASE p # q
    <3>1. wire'[q] = wire[q]
      BY <1>1, <1>2, <2>2 DEF Send
    <3>2. QED
      BY <2>1, <3>1
  <2>3. CASE p = q
    <3>1. wire'[q] = Append(wire[q], m) /\ wire[q] \in Seq(M)
      BY <1>1, <1>2, <2>3 DEF Send
    <3>2. PICK g \in Nat : g = Len(wire[q])
      BY <3>1
    <3>3. Len(wire'[q]) = g + 1 /\ wire'[q][g + 1] = m
      BY <3>1, <3>2, MessageAppended
    <3>4. \A k \in 1..g : wire'[q][k] = wire[q][k]
      BY <3>1, <3>2, MessageAppended
    <3>5. m.name \in N => m.data = expected[q][m.name]
      BY <1>2, <2>3
    <3>6. ASSUME NEW k \in 1..g + 1, wire'[q][k].name \in N
          PROVE  wire'[q][k].data = expected[q][wire'[q][k].name]
      <4>1. CASE k = g + 1
        BY <3>3, <3>5, <3>6, <4>1
      <4>2. CASE k # g + 1
        <5>1. k \in 1..g
          BY <4>2
        <5>2. wire'[q][k] = wire[q][k]
          BY <3>4, <5>1
        <5>3. QED
          BY <3>2, <3>6, <5>1, <5>2
      <4>3. QED
        BY <4>1, <4>2
    <3>7. QED
      BY <2>1, <3>3, <3>6
  <2>4. QED
    BY <2>2, <2>3
<1>3. ASSUME NEW p \in Party, Recv(p), NEW q \in Party
      PROVE  /\ \A k \in 1..Len(wire'[q]) :
                  wire'[q][k].name \in N => wire'[q][k].data = expected[q][wire'[q][k].name]
             /\ \A n \in DOMAIN inbox'[q] \cap N : inbox'[q][n] = expected[Peer(q)][n]
  <2>1. Peer(p) \in Party /\ Peer(p) # p /\ Peer(Peer(p)) = p
    BY PeerFacts
  <2>2. Head(wire[Peer(p)]).name = NextName(p)
    BY RecvInStep, <1>3
  <2>3. wire[Peer(p)] \in Seq(M) /\ wire[Peer(p)] # <<>>
    BY <1>1, <1>3, <2>1 DEF Recv
  <2>4. CASE q = p
    <3>1. wire'[q] = wire[q]
      BY <1>1, <1>3, <2>1, <2>4 DEF Recv
    <3>2. Head(wire[Peer(p)]).name \in N =>
            Head(wire[Peer(p)]).data = expected[Peer(p)][Head(wire[Peer(p)]).name]
      <4>1. 1 \in 1..Len(wire[Peer(p)]) /\ Head(wire[Peer(p)]) = wire[Peer(p)][1]
        BY <2>3
      <4>2. QED
        BY <2>1, <4>1
    <3>3. \A n \in DOMAIN inbox'[q] \cap N : inbox'[q][n] = expected[Peer(q)][n]
      <4> TAKE n \in DOMAIN inbox'[q] \cap N
      <4>1. CASE n = NextName(p)
        BY <1>3, <2>2, <2>4, <3>2, <4>1, ReceiveKeeps
      <4>2. CASE n # NextName(p)
        <5>1. n \in DOMAIN inbox[p] /\ inbox'[p][n] = inbox[p][n]
          BY <1>3, <2>4, <4>2, ReceiveKeeps
        <5>2. QED
          BY <2>4, <5>1
      <4>3. QED
        BY <4>1, <4>2
    <3>4. QED
      BY <3>1, <3>3
  <2>5. CASE q = Peer(p)
    <3>1. wire'[q] = Tail(wire[q]) /\ inbox'[q] = inbox[q]
      BY <1>1, <1>3, <2>1, <2>5, ReceiveKeeps DEF Recv
    <3>2. PICK g \in Nat \ {0} : g = Len(wire[q])
      BY <2>3, <2>5
    <3>3. Len(wire'[q]) = g - 1 /\ \A k \in 1..g - 1 : wire'[q][k] = wire[q][k + 1]
      <4>1. Len(wire'[q]) = g - 1
        BY <2>3, <2>5, <3>1, <3>2, HeadTailProperties
      <4>2. \A k \in 1..Len(Tail(wire[q])) : Tail(wire[q])[k] = wire[q][k + 1]
        BY <2>3, <2>5, HeadTailProperties
      <4>3. QED
        BY <3>1, <4>1, <4>2
    <3>4. \A k \in 1..g - 1 : wire'[q][k].name \in N => wire'[q][k].data = expected[q][wire'[q][k].name]
      <4> TAKE k \in 1..g - 1
      <4>1. k + 1 \in 1..g
        OBVIOUS
      <4>2. QED
        BY <3>2, <3>3, <4>1
    <3>5. QED
      BY <3>1, <3>3, <3>4
  <2>6. QED
    BY <2>4, <2>5, PeerFacts
<1>4. ASSUME UNCHANGED <<wire, inbox>>
      PROVE  Delivers(N, expected)'
  BY <1>4
<1>5. QED
  BY <1>2, <1>3, <1>4 DEF HonestStep, PeerClosed, NetworkBreaks, Return, session

\* An inbox stays a function of the names received.
LEMMA InboxShape ==
  ASSUME SessionOK, InStep, InboxOK, SessionStep
  PROVE  InboxOK'
<1>1. ASSUME NEW p \in Party, Recv(p)
      PROVE  InboxOK'
  BY <1>1, ReceiveKeeps
<1>2. ASSUME UNCHANGED inbox
      PROVE  InboxOK'
  BY <1>2 DEF InboxOK
<1>3. QED
  BY <1>1, <1>2 DEF SessionStep, Send, PeerClosed, NetworkBreaks, Return, session

\* At the start nothing of a program has been made.
LEMMA StartSoFar ==
  ASSUME NEW C, NEW programS \in Seq(C), NEW programR \in Seq(C), Start(programS, programR)
  PROVE  /\ InboxOK
         /\ SoFar("S", programS) /\ SoFar("R", programR)
         /\ \A N, data : Delivers(N, data)
<1> USE DEF Start, Party
<1>1. InboxOK
  BY DEF InboxOK
<1>2. ASSUME NEW p \in Party, NEW program \in Seq(C), todo[p] = program
      PROVE  SoFar(p, program)
  <2>1. PICK n \in Nat : n = Len(program)
    OBVIOUS
  <2>2. 0 \in 0..n /\ n - 0 = n /\ \A i \in 1..n : 0 + i = i
    OBVIOUS
  <2>3. \A i \in 1..0 : FALSE
    OBVIOUS
  <2>4. QED
    BY <1>2, <2>1, <2>2, <2>3 DEF SoFar
<1>3. ASSUME NEW N, NEW data
      PROVE  Delivers(N, data)
  <2>1. \A p \in Party : wire[p] = <<>> /\ inbox[p] = <<>>
    OBVIOUS
  <2>2. Len(<<>>) = 0 /\ DOMAIN <<>> = {}
    OBVIOUS
  <2>3. \A k \in 1..0 : FALSE
    OBVIOUS
  <2>4. QED
    BY <2>1, <2>2, <2>3 DEF Delivers
<1>4. QED
  BY <1>1, <1>2, <1>3
Calls(s) == {s[i] : i \in 1..Len(s)}

\* The calls of two programs run one after the other.
LEMMA CallsConcat ==
  ASSUME NEW C, NEW s \in Seq(C), NEW t \in Seq(C)
  PROVE  Calls(s \o t) = Calls(s) \cup Calls(t)
<1>1. PICK m \in Nat, n \in Nat : m = Len(s) /\ n = Len(t)
  OBVIOUS
<1>2. Len(s \o t) = m + n
  <2>1. Len(s \o t) = Len(s) + Len(t)
    BY ConcatProperties
  <2>2. QED
    BY <1>1, <2>1
<1>3. \A i \in 1..m : (s \o t)[i] = s[i]
  <2> TAKE i \in 1..m
  <2>1. i \in 1..Len(s) + Len(t) /\ i <= Len(s)
    BY <1>1
  <2>2. QED
    BY <2>1, ConcatProperties
<1>4. \A i \in 1..n : (s \o t)[m + i] = t[i]
  <2> TAKE i \in 1..n
  <2>1. m + i \in 1..Len(s) + Len(t) /\ ~(m + i <= Len(s)) /\ (m + i) - Len(s) = i
    BY <1>1
  <2>2. QED
    BY <2>1, ConcatProperties
<1>5. ASSUME NEW c \in Calls(s \o t)
      PROVE  c \in Calls(s) \cup Calls(t)
  <2>1. PICK i \in 1..m + n : c = (s \o t)[i]
    BY <1>2 DEF Calls
  <2>2. CASE i <= m
    <3>1. i \in 1..m
      BY <2>2
    <3>2. QED
      BY <1>1, <1>3, <2>1, <3>1 DEF Calls
  <2>3. CASE ~(i <= m)
    <3>1. i - m \in 1..n /\ m + (i - m) = i
      BY <2>3
    <3>2. c = t[i - m]
      BY <1>4, <2>1, <3>1
    <3>3. QED
      BY <1>1, <3>1, <3>2 DEF Calls
  <2>4. QED
    BY <2>2, <2>3
<1>6. ASSUME NEW c \in Calls(s)
      PROVE  c \in Calls(s \o t)
  <2>1. PICK i \in 1..m : c = s[i]
    BY <1>1 DEF Calls
  <2>2. i \in 1..m + n
    OBVIOUS
  <2>3. QED
    BY <1>2, <1>3, <2>1, <2>2 DEF Calls
<1>7. ASSUME NEW c \in Calls(t)
      PROVE  c \in Calls(s \o t)
  <2>1. PICK i \in 1..n : c = t[i]
    BY <1>1 DEF Calls
  <2>2. m + i \in 1..m + n
    OBVIOUS
  <2>3. QED
    BY <1>2, <1>4, <2>1, <2>2 DEF Calls
<1>8. QED
  BY <1>5, <1>6, <1>7

\* The calls of a program of one call, ...
LEMMA CallsOne ==
  ASSUME NEW a
  PROVE  Calls(<<a>>) = {a} /\ <<a>> \in Seq({a})
<1> DEFINE s == <<a>>
<1>1. Len(s) = 1 /\ s[1] = a /\ s \in Seq({a})
  OBVIOUS
<1> HIDE DEF s
<1>2. Calls(s) = {a}
  BY <1>1 DEF Calls
<1>3. QED
  BY <1>1, <1>2 DEF s

\* ... of two, ...
LEMMA CallsTwo ==
  ASSUME NEW a, NEW b
  PROVE  Calls(<<a, b>>) = {a, b} /\ <<a, b>> \in Seq({a, b})
<1> DEFINE s == <<a, b>>
<1>1. Len(s) = 2 /\ s[1] = a /\ s[2] = b /\ s \in Seq({a, b})
  OBVIOUS
<1> HIDE DEF s
<1>2. \A i \in 1..2 : i = 1 \/ i = 2
  OBVIOUS
<1>3. Calls(s) = {a, b}
  BY <1>1, <1>2 DEF Calls
<1>4. QED
  BY <1>1, <1>3 DEF s

\* ... of three ...
LEMMA CallsThree ==
  ASSUME NEW a, NEW b, NEW c
  PROVE  Calls(<<a, b, c>>) = {a, b, c} /\ <<a, b, c>> \in Seq({a, b, c})
<1> DEFINE s == <<a, b, c>>
<1>1. Len(s) = 3 /\ s[1] = a /\ s[2] = b /\ s[3] = c /\ s \in Seq({a, b, c})
  OBVIOUS
<1> HIDE DEF s
<1>2. \A i \in 1..3 : i = 1 \/ i = 2 \/ i = 3
  OBVIOUS
<1>3. Calls(s) = {a, b, c}
  BY <1>1, <1>2 DEF Calls
<1>4. QED
  BY <1>1, <1>3 DEF s

\* ... and of five.
LEMMA CallsFive ==
  ASSUME NEW a, NEW b, NEW c, NEW d, NEW e
  PROVE  Calls(<<a, b, c, d, e>>) = {a, b, c, d, e} /\ <<a, b, c, d, e>> \in Seq({a, b, c, d, e})
<1> DEFINE s == <<a, b, c, d, e>>
<1>1. /\ Len(s) = 5 /\ s[1] = a /\ s[2] = b /\ s[3] = c /\ s[4] = d /\ s[5] = e
      /\ s \in Seq({a, b, c, d, e})
  OBVIOUS
<1> HIDE DEF s
<1>2. \A i \in 1..5 : i = 1 \/ i = 2 \/ i = 3 \/ i = 4 \/ i = 5
  OBVIOUS
<1>3. Calls(s) = {a, b, c, d, e}
  BY <1>1, <1>2 DEF Calls
<1>4. QED
  BY <1>1, <1>3 DEF s

\* The program s makes the calls of A and no other.
Consists(s, A) == s \in Seq(A) /\ Calls(s) = A

\* A program consists of its calls.
LEMMA ConsistsOf ==
  /\ Consists(<< >>, {})
  /\ \A a : Consists(<<a>>, {a})
  /\ \A a, b : Consists(<<a, b>>, {a, b})
  /\ \A a, b, c, d, e : Consists(<<a, b, c, d, e>>, {a, b, c, d, e})
<1>1. Consists(<< >>, {})
  <2>1. << >> \in Seq({}) /\ Len(<< >>) = 0 /\ 1..0 = {}
    OBVIOUS
  <2>2. QED
    BY <2>1 DEF Consists, Calls
<1>2. QED
  BY <1>1, CallsOne, CallsTwo, CallsFive DEF Consists

\* Programs run one after the other consist of the calls of both.
LEMMA ConsistsConcat ==
  ASSUME NEW s, NEW A, Consists(s, A), NEW t, NEW B, Consists(t, B)
  PROVE  Consists(s \o t, A \cup B)
<1>1. s \in Seq(A \cup B) /\ t \in Seq(A \cup B)
  BY SeqMonotonic DEF Consists
<1>2. s \o t \in Seq(A \cup B)
  BY <1>1, ConcatProperties
<1>3. Calls(s \o t) = Calls(s) \cup Calls(t)
  BY <1>1, CallsConcat
<1>4. QED
  BY <1>2, <1>3 DEF Consists

\* The calls of Naor-Pinkas OT and of the extension's two roles.
LEMMA OtCallSets ==
  /\ Consists(NpOtSender, {Snd("c"), Snd("vec_x"), Rcv("vec_pk0"), Snd("vec_y0"), Snd("vec_y1")})
  /\ Consists(NpOtReceiver, {Rcv("c"), Rcv("vec_x"), Snd("vec_pk0"), Rcv("vec_y0"), Rcv("vec_y1")})
  /\ Consists(RandomSender,
       {Rcv("c"), Rcv("vec_x"), Snd("vec_pk0"), Rcv("vec_y0"), Rcv("vec_y1")} \cup {Rcv("matrix_p")})
  /\ Consists(RandomReceiver,
       {Snd("c"), Snd("vec_x"), Rcv("vec_pk0"), Snd("vec_y0"), Snd("vec_y1")} \cup {Snd("matrix_p")})
<1>1. /\ Consists(NpOtSender, {Snd("c"), Snd("vec_x"), Rcv("vec_pk0"), Snd("vec_y0"), Snd("vec_y1")})
      /\ Consists(NpOtReceiver, {Rcv("c"), Rcv("vec_x"), Snd("vec_pk0"), Rcv("vec_y0"), Rcv("vec_y1")})
      /\ Consists(<< Snd("matrix_p") >>, {Snd("matrix_p")})
      /\ Consists(<< Rcv("matrix_p") >>, {Rcv("matrix_p")})
  BY ConsistsOf DEF NpOtSender, NpOtReceiver
<1>2. QED
  BY <1>1, ConsistsConcat DEF RandomSender, RandomReceiver

\* A party makes a call of its program, and holds what the calls before it
\* received.
LEMMA CallMade ==
  ASSUME SessionOK, NEW p \in Party, NEW op, AtCall(p, op),
         NEW C, NEW program \in Seq(C), SoFar(p, program)
  PROVE  \E c \in Calls(program) : c.op = op /\ c.name = NextName(p)
BY AtNext DEF Calls

\* A party at a call holds what its program received before that call.
LEMMA HeldBefore ==
  ASSUME SessionOK, NEW p \in Party, NEW op, AtCall(p, op),
         NEW C, NEW s \in Seq(C), NEW t \in Seq(C), SoFar(p, s \o t),
         \A c \in Calls(s) : ~(c.op = op /\ c.name = NextName(p))
  PROVE  \A c \in Calls(s) : c.op = "recv" => c.name \in DOMAIN inbox[p]
<1>1. PICK m \in Nat, n \in Nat : m = Len(s) /\ n = Len(t)
  OBVIOUS
<1>2. s \o t \in Seq(C) /\ Len(s \o t) = m + n
  <2>1. s \o t \in Seq(C) /\ Len(s \o t) = Len(s) + Len(t)
    BY ConcatProperties
  <2>2. QED
    BY <1>1, <2>1
<1>3. \A i \in 1..m : (s \o t)[i] = s[i]
  <2> TAKE i \in 1..m
  <2>1. i \in 1..Len(s) + Len(t) /\ i <= Len(s)
    BY <1>1
  <2>2. QED
    BY <2>1, ConcatProperties
<1>4. PICK j \in 1..m + n :
        /\ (s \o t)[j].op = op /\ (s \o t)[j].name = NextName(p)
        /\ \A i \in 1..j - 1 : (s \o t)[i].op = "recv" => (s \o t)[i].name \in DOMAIN inbox[p]
  <2> DEFINE program == s \o t
  <2>1. program \in Seq(C) /\ Len(program) = m + n
    BY <1>2
  <2> HIDE DEF program
  <2>2. SoFar(p, program)
    BY DEF program
  <2>3. \E j \in 1..Len(program) :
          /\ program[j].op = op /\ program[j].name = NextName(p)
          /\ \A i \in 1..j - 1 : program[i].op = "recv" => program[i].name \in DOMAIN inbox[p]
    BY <2>1, <2>2, AtNext, SMTT(30)
  <2>4. QED
    BY <2>1, <2>3 DEF program
<1>5. j \notin 1..m
  BY <1>1, <1>3, <1>4 DEF Calls
<1>6. \A i \in 1..m : i \in 1..j - 1
  BY <1>5
<1>7. QED
  BY <1>1, <1>3, <1>4, <1>6 DEF Calls

\* Whatever is on the wire, its reader's program receives.
LEMMA OnWire ==
  ASSUME SessionOK, InStep, NEW p \in Party, NEW k \in 1..Len(wire[p]),
         NEW C, NEW program \in Seq(C), SoFar(Peer(p), program)
  PROVE  \E c \in Calls(program) : c.op = "recv" /\ c.name = wire[p][k].name
<1>1. PICK D : todo \in [Party -> Seq(D)]
  BY DEF SessionOK
<1>2. PICK M : wire \in [Party -> Seq(M)]
  BY DEF SessionOK
<1> DEFINE q == Peer(p)
<1>3. q \in Party /\ q # p /\ Peer(q) = p /\ \A x \in Party : x = p \/ x = q
  BY PeerFacts
<1>4. PICK g \in Nat : g = Len(wire[p])
  BY <1>2
<1>5. wire[p] # <<>>
  <2>1. wire[p] = <<>> => Len(wire[p]) = 0
    OBVIOUS
  <2>2. QED
    BY <1>4, <2>1
<1>6. Ahead(p)
  <2>1. PICK x \in Party : Ahead(x)
    BY DEF InStep
  <2>2. x = q => wire[p] = <<>>
    BY <1>3, <2>1 DEF Ahead
  <2>3. QED
    BY <1>3, <1>5, <2>1, <2>2
<1>7. PICK t \in Nat, h \in Nat : t = Len(todo[q]) /\ h = Len(todo[p])
  BY <1>1, <1>3
<1>8. t = g + h /\ todo[q][k].op = "recv" /\ todo[q][k].name = wire[p][k].name
  BY <1>4, <1>6, <1>7 DEF Ahead
<1>9. PICK n \in Nat : n = Len(program)
  OBVIOUS
<1>10. PICK j \in 0..n : Len(todo[q]) = n - j /\ \A i \in 1..n - j : todo[q][i] = program[j + i]
  BY <1>9 DEF SoFar
<1>11. k \in 1..n - j /\ j + k \in 1..n
  <2>1. t = n - j /\ k \in 1..g
    BY <1>4, <1>7, <1>10
  <2>2. QED
    BY <1>8, <2>1
<1>12. program[j + k].op = "recv" /\ program[j + k].name = wire[p][k].name
  BY <1>8, <1>10, <1>11
<1>13. QED
  BY <1>9, <1>11, <1>12 DEF Calls

\* A party that has made all its calls holds whatever its program receives.
LEMMA ReturnedHoldsAll ==
  ASSUME SessionOK, InStep, NEW p \in Party, status[p] = "returned" \/ todo[p] = <<>>,
         NEW C, NEW program \in Seq(C), SoFar(p, program)
  PROVE  \A c \in Calls(program) : c.op = "recv" => c.name \in DOMAIN inbox[p]
BY HoldsAll DEF Calls
-----------------------------------------------------------------------------
(***************************************************************************)
(* Programs put together from mirrored parts are mirrored.                 *)
(***************************************************************************)
IsCall(c) == c = [op |-> c.op, name |-> c.name]
Matching(c, d) == Mirrored(c, d) /\ IsCall(c) /\ IsCall(d)

Mirror(s, t) ==
  /\ \E C : s \in Seq(C) /\ t \in Seq(C)
  /\ Len(s) = Len(t)
  /\ \A k \in 1..Len(s) : Matching(s[k], t[k])

\* Two programs without calls mirror each other, ...
LEMMA MirrorNone == Mirror(<< >>, << >>)
<1>1. << >> \in Seq({}) /\ Len(<< >>) = 0
  OBVIOUS
<1>2. QED
  BY <1>1 DEF Mirror

\* Short programs, written out.
LEMMA MirrorOne ==
  ASSUME NEW a1,
         NEW b1,
         Matching(a1, b1)
  PROVE  Mirror(<<a1>>, <<b1>>)
<1> DEFINE s == <<a1>>
           t == <<b1>>
           C == {a1, b1}
<1>1. s \in Seq(C) /\ t \in Seq(C) /\ Len(s) = 1 /\ Len(t) = 1
  OBVIOUS
<1>2. ASSUME NEW k \in 1..1
      PROVE  Matching(s[k], t[k])
  OBVIOUS
<1> HIDE DEF s, t, C
<1>3. Mirror(s, t)
  BY <1>1, <1>2 DEF Mirror
<1>4. QED
  BY <1>3 DEF s, t

\* ... and so do a pair of calls and its counterpart, ...
LEMMA MirrorTwo ==
  ASSUME NEW a1, NEW a2,
         NEW b1, NEW b2,
         Matching(a1, b1), Matching(a2, b2)
  PROVE  Mirror(<<a1, a2>>, <<b1, b2>>)
<1> DEFINE s == <<a1, a2>>
           t == <<b1, b2>>
           C == {a1, a2, b1, b2}
<1>1. s \in Seq(C) /\ t \in Seq(C) /\ Len(s) = 2 /\ Len(t) = 2
  OBVIOUS
<1>2. ASSUME NEW k \in 1..2
      PROVE  Matching(s[k], t[k])
  OBVIOUS
<1> HIDE DEF s, t, C
<1>3. Mirror(s, t)
  BY <1>1, <1>2 DEF Mirror
<1>4. QED
  BY <1>3 DEF s, t

\* ... three calls ...
LEMMA MirrorThree ==
  ASSUME NEW a1, NEW a2, NEW a3,
         NEW b1, NEW b2, NEW b3,
         Matching(a1, b1), Matching(a2, b2), Matching(a3, b3)
  PROVE  Mirror(<<a1, a2, a3>>, <<b1, b2, b3>>)
<1> DEFINE s == <<a1, a2, a3>>
           t == <<b1, b2, b3>>
           C == {a1, a2, a3, b1, b2, b3}
<1>1. s \in Seq(C) /\ t \in Seq(C) /\ Len(s) = 3 /\ Len(t) = 3
  OBVIOUS
<1>2. ASSUME NEW k \in 1..3
      PROVE  Matching(s[k], t[k])
  OBVIOUS
<1> HIDE DEF s, t, C
<1>3. Mirror(s, t)
  BY <1>1, <1>2 DEF Mirror
<1>4. QED
  BY <1>3 DEF s, t

\* ... and five.
LEMMA MirrorFive ==
  ASSUME NEW a1, NEW a2, NEW a3, NEW a4, NEW a5,
         NEW b1, NEW b2, NEW b3, NEW b4, NEW b5,
         Matching(a1, b1), Matching(a2, b2), Matching(a3, b3), Matching(a4, b4), Matching(a5, b5)
  PROVE  Mirror(<<a1, a2, a3, a4, a5>>, <<b1, b2, b3, b4, b5>>)
<1> DEFINE s == <<a1, a2, a3, a4, a5>>
           t == <<b1, b2, b3, b4, b5>>
           C == {a1, a2, a3, a4, a5, b1, b2, b3, b4, b5}
<1>1. s \in Seq(C) /\ t \in Seq(C) /\ Len(s) = 5 /\ Len(t) = 5
  OBVIOUS
<1>2. ASSUME NEW k \in 1..5
      PROVE  Matching(s[k], t[k])
  OBVIOUS
<1> HIDE DEF s, t, C
<1>3. Mirror(s, t)
  BY <1>1, <1>2 DEF Mirror
<1>4. QED
  BY <1>3 DEF s, t

\* A send matches the recv of its name, both ways round.
LEMMA MatchingCalls ==
  ASSUME NEW x
  PROVE  Matching(Snd(x), Rcv(x)) /\ Matching(Rcv(x), Snd(x))
BY DEF Matching, Mirrored, IsCall, Snd, Rcv

\* Programs that mirror each other still do after each other.
LEMMA MirrorConcat ==
  ASSUME NEW s1, NEW t1, Mirror(s1, t1), NEW s2, NEW t2, Mirror(s2, t2)
  PROVE  Mirror(s1 \o s2, t1 \o t2)
<1>1. PICK C : s1 \in Seq(C) /\ t1 \in Seq(C)
  BY DEF Mirror
<1>2. PICK D : s2 \in Seq(D) /\ t2 \in Seq(D)
  BY DEF Mirror
<1> DEFINE E == C \cup D
<1>3. s1 \in Seq(E) /\ t1 \in Seq(E) /\ s2 \in Seq(E) /\ t2 \in Seq(E)
  BY <1>1, <1>2, SeqMonotonic
<1>4. PICK m \in Nat, n \in Nat : Len(s1) = m /\ Len(t1) = m /\ Len(s2) = n /\ Len(t2) = n
  <2>1. Len(s1) \in Nat /\ Len(s2) \in Nat
    BY <1>3
  <2>2. QED
    BY <2>1 DEF Mirror
<1>5. /\ s1 \o s2 \in Seq(E) /\ t1 \o t2 \in Seq(E)
      /\ Len(s1 \o s2) = m + n /\ Len(t1 \o t2) = m + n
  <2>1. /\ s1 \o s2 \in Seq(E) /\ Len(s1 \o s2) = Len(s1) + Len(s2)
        /\ t1 \o t2 \in Seq(E) /\ Len(t1 \o t2) = Len(t1) + Len(t2)
    BY <1>3, ConcatProperties
  <2>2. QED
    BY <1>4, <2>1
<1>6. ASSUME NEW k \in 1..m + n
      PROVE  Matching((s1 \o s2)[k], (t1 \o t2)[k])
  <2>1. CASE k <= m
    <3>1. (s1 \o s2)[k] = s1[k] /\ (t1 \o t2)[k] = t1[k]
      <4>1. k \in 1..Len(s1) + Len(s2) /\ k \in 1..Len(t1) + Len(t2)
        BY <1>4
      <4>2. QED
        BY <1>3, <1>4, <2>1, <4>1, ConcatProperties
    <3>2. Matching(s1[k], t1[k])
      BY <1>4, <2>1 DEF Mirror
    <3>3. QED
      BY <3>1, <3>2
  <2>2. CASE ~(k <= m)
    <3>1. k - m \in 1..n
      BY <2>2
    <3>2. (s1 \o s2)[k] = s2[k - m] /\ (t1 \o t2)[k] = t2[k - m]
      <4>1. k \in 1..Len(s1) + Len(s2) /\ k \in 1..Len(t1) + Len(t2)
        BY <1>4
      <4>2. QED
        BY <1>3, <1>4, <2>2, <4>1, ConcatProperties, SMTT(30)
    <3>3. Matching(s2[k - m], t2[k - m])
      BY <1>4, <3>1 DEF Mirror
    <3>4. QED
      BY <3>2, <3>3
  <2>3. QED
    BY <2>1, <2>2
<1>7. QED
  BY <1>5, <1>6 DEF Mirror

\* Mirroring does not care which party is which.
LEMMA MirrorSwap ==
  ASSUME NEW s, NEW t, Mirror(s, t)
  PROVE  Mirror(t, s)
BY DEF Mirror, Matching, Mirrored

\* A session of two mirroring programs starts in step.
LEMMA MirrorStart ==
  ASSUME NEW s, NEW t, Mirror(s, t), Start(s, t)
  PROVE  SessionOK /\ InStep
BY StartInStep DEF Mirror, Matching
-----------------------------------------------------------------------------
(***************************************************************************)
(* Oblivious transfer, the mqRPMT and the set operations on top of them.   *)
(***************************************************************************)
LEMMA OtMirror ==
  /\ Mirror(NpOtSender, NpOtReceiver)
  /\ Mirror(RandomSender, RandomReceiver)
  /\ Mirror(OnesidedSender, OnesidedReceiver)
  /\ Mirror(OtSender, OtReceiver)
<1>1. Mirror(NpOtSender, NpOtReceiver)
  BY MatchingCalls, MirrorFive DEF NpOtSender, NpOtReceiver
<1>2. Mirror(RandomSender, RandomReceiver)
  <2>1. Mirror(<< Rcv("matrix_p") >>, << Snd("matrix_p") >>)
    BY MatchingCalls, MirrorOne
  <2>2. QED
    BY <1>1, <2>1, MirrorSwap, MirrorConcat DEF RandomSender, RandomReceiver
<1>3. Mirror(OnesidedSender, OnesidedReceiver)
  <2>1. Mirror(<< Snd("vec_outer_c") >>, << Rcv("vec_outer_c") >>)
    BY MatchingCalls, MirrorOne
  <2>2. QED
    BY <1>2, <2>1, MirrorConcat DEF OnesidedSender, OnesidedReceiver
<1>4. Mirror(OtSender, OtReceiver)
  <2>1. Mirror(<< Snd("vec_outer_c0"), Snd("vec_outer_c1") >>,
               << Rcv("vec_outer_c0"), Rcv("vec_outer_c1") >>)
    BY MatchingCalls, MirrorTwo
  <2>2. QED
    BY <1>2, <2>1, MirrorConcat DEF OtSender, OtReceiver
<1>5. QED
  BY <1>1, <1>2, <1>3, <1>4

\* The two programs of every private set operation mirror each other.
LEMMA PsoMirror ==
  ASSUME NEW mode \in {"Intersection", "Union", "Card", "CardSum"}, NEW membership
  PROVE  Mirror(PsoSender(mode, membership), PsoReceiver(mode, membership))
<1>1. Mirror(MqrpmtClient(membership), MqrpmtServer(membership))
  <2>1. Mirror(<< Rcv("vec_fk1_y"), Snd("vec_fk2_x") >>, << Snd("vec_fk1_y"), Rcv("vec_fk2_x") >>)
    BY MatchingCalls, MirrorTwo
  <2>2. Mirror(<< Snd("filter_size"), Snd("filter") >>, << Rcv("filter_size"), Rcv("filter") >>)
    BY MatchingCalls, MirrorTwo
  <2>3. Mirror(<< Snd("vec_fk2k1_y") >>, << Rcv("vec_fk2k1_y") >>)
    BY MatchingCalls, MirrorOne
  <2>4. QED
    BY <2>1, <2>2, <2>3, MirrorConcat DEF MqrpmtClient, MqrpmtServer
<1>2. CASE mode \in {"Intersection", "Union"}
  BY <1>1, <1>2, OtMirror, MirrorConcat DEF PsoSender, PsoReceiver
<1>3. CASE mode = "Card"
  BY <1>1, <1>3, MirrorNone, MirrorConcat DEF PsoSender, PsoReceiver
<1>4. CASE mode = "CardSum"
  <2>1. Mirror(<< Rcv("cardinality"), Rcv("masked_sum") >>, << Snd("cardinality"), Snd("masked_sum") >>)
    BY MatchingCalls, MirrorTwo
  <2>2. Mirror(OtSender \o << Rcv("cardinality"), Rcv("masked_sum") >>,
               OtReceiver \o << Snd("cardinality"), Snd("masked_sum") >>)
    BY <2>1, OtMirror, MirrorConcat
  <2>3. QED
    BY <1>1, <1>4, <2>2, MirrorConcat DEF PsoSender, PsoReceiver
<1>5. QED
  BY <1>2, <1>3, <1>4

\* The calls of the two parties' programs that carry data.
LEMMA PsoCallSets ==
  ASSUME NEW mode \in {"Intersection", "Union", "Card", "CardSum"},
         NEW membership \in {"BloomFilter", "PlainSet"}
  PROVE  /\ \E A : /\ Consists(PsoSender(mode, membership), A)
                   /\ \A c \in A : c.op = "recv" =>
                        c.name \notin {"vec_fk2_x", "filter", "vec_fk2k1_y", "vec_outer_c",
                                       "vec_outer_c0", "vec_outer_c1"}
                   /\ \A c \in A : c.op = "send" =>
                        c.name \notin {"vec_fk1_y", "cardinality", "masked_sum"}
                   /\ mode = "CardSum" => Rcv("cardinality") \in A /\ Rcv("masked_sum") \in A
         /\ \E A : /\ Consists(PsoReceiver(mode, membership), A)
                   /\ \A c \in A : c.op = "recv" =>
                        c.name \notin {"vec_fk1_y", "cardinality", "masked_sum"}
                   /\ \A c \in A : c.op = "send" =>
                        /\ c.name \notin {"vec_fk2_x", "filter", "vec_fk2k1_y", "vec_outer_c",
                                          "vec_outer_c0", "vec_outer_c1"}
                        /\ c.name \in {"cardinality", "masked_sum"} => mode = "CardSum"
                   /\ Rcv("vec_fk2_x") \in A
                   /\ membership = "BloomFilter" => Rcv("filter") \in A
                   /\ membership = "PlainSet" => Rcv("vec_fk2k1_y") \in A
                   /\ mode \in {"Intersection", "Union"} => Rcv("vec_outer_c") \in A
<1> DEFINE N1 == {Rcv("c"), Rcv("vec_x"), Snd("vec_pk0"), Rcv("vec_y0"), Rcv("vec_y1")} \cup {Rcv("matrix_p")}
           N2 == {Snd("c"), Snd("vec_x"), Rcv("vec_pk0"), Snd("vec_y0"), Snd("vec_y1")} \cup {Snd("matrix_p")}
           B == membership = "BloomFilter"
           M1 == {Rcv("vec_fk1_y"), Snd("vec_fk2_x")} \cup
                 (IF B THEN {Snd("filter_size"), Snd("filter")} ELSE {Snd("vec_fk2k1_y")})
           M2 == {Snd("vec_fk1_y"), Rcv("vec_fk2_x")} \cup
                 (IF B THEN {Rcv("filter_size"), Rcv("filter")} ELSE {Rcv("vec_fk2k1_y")})
           R1 == CASE mode \in {"Intersection", "Union"} -> N1 \cup {Snd("vec_outer_c")}
                   [] mode = "Card" -> {}
                   [] mode = "CardSum" -> (N1 \cup {Snd("vec_outer_c0"), Snd("vec_outer_c1")})
                                             \cup {Rcv("cardinality"), Rcv("masked_sum")}
           R2 == CASE mode \in {"Intersection", "Union"} -> N2 \cup {Rcv("vec_outer_c")}
                   [] mode = "Card" -> {}
                   [] mode = "CardSum" -> (N2 \cup {Rcv("vec_outer_c0"), Rcv("vec_outer_c1")})
                                             \cup {Snd("cardinality"), Snd("masked_sum")}
<1>1. Consists(MqrpmtClient(membership), M1) /\ Consists(MqrpmtServer(membership), M2)
  BY ConsistsOf, ConsistsConcat DEF MqrpmtClient, MqrpmtServer
<1>2. /\ Consists(OnesidedSender, N1 \cup {Snd("vec_outer_c")})
      /\ Consists(OnesidedReceiver, N2 \cup {Rcv("vec_outer_c")})
      /\ Consists(OtSender, N1 \cup {Snd("vec_outer_c0"), Snd("vec_outer_c1")})
      /\ Consists(OtReceiver, N2 \cup {Rcv("vec_outer_c0"), Rcv("vec_outer_c1")})
  BY ConsistsOf, ConsistsConcat, OtCallSets DEF OnesidedSender, OnesidedReceiver, OtSender, OtReceiver
<1>3. Consists(PsoSender(mode, membership), M1 \cup R1) /\ Consists(PsoReceiver(mode, membership), M2 \cup R2)
  <2>1. CASE mode \in {"Intersection", "Union"}
    <3>1. R1 = N1 \cup {Snd("vec_outer_c")} /\ R2 = N2 \cup {Rcv("vec_outer_c")}
      BY <2>1
    <3> HIDE DEF N1, N2, M1, M2, R1, R2
    <3>2. QED
      BY <1>1, <1>2, <2>1, <3>1, ConsistsConcat DEF PsoSender, PsoReceiver
  <2>2. CASE mode = "Card"
    <3>1. R1 = {} /\ R2 = {}
      BY <2>2
    <3> HIDE DEF N1, N2, M1, M2, R1, R2
    <3>2. QED
      BY <1>1, <2>2, <3>1, ConsistsOf, ConsistsConcat DEF PsoSender, PsoReceiver
  <2>3. CASE mode = "CardSum"
    <3>1. /\ R1 = (N1 \cup {Snd("vec_outer_c0"), Snd("vec_outer_c1")}) \cup {Rcv("cardinality"), Rcv("masked_sum")}
          /\ R2 = (N2 \cup {Rcv("vec_outer_c0"), Rcv("vec_outer_c1")}) \cup {Snd("cardinality"), Snd("masked_sum")}
      BY <2>3
    <3> HIDE DEF N1, N2, M1, M2, R1, R2
    <3>2. /\ Consists(<< Rcv("cardinality"), Rcv("masked_sum") >>, {Rcv("cardinality"), Rcv("masked_sum")})
          /\ Consists(<< Snd("cardinality"), Snd("masked_sum") >>, {Snd("cardinality"), Snd("masked_sum")})
      BY ConsistsOf
    <3>3. /\ Consists(OtSender \o << Rcv("cardinality"), Rcv("masked_sum") >>, R1)
          /\ Consists(OtReceiver \o << Snd("cardinality"), Snd("masked_sum") >>, R2)
      BY <1>2, <3>1, <3>2, ConsistsConcat
    <3>4. QED
      BY <1>1, <2>3, <3>3, ConsistsConcat DEF PsoSender, PsoReceiver
  <2>4. QED
    BY <2>1, <2>2, <2>3
<1>4. /\ \A c \in M1 \cup R1 : c.op = "recv" =>
            c.name \notin {"vec_fk2_x", "filter", "vec_fk2k1_y", "vec_outer_c", "vec_outer_c0", "vec_outer_c1"}
      /\ \A c \in M1 \cup R1 : c.op = "send" =>
            c.name \notin {"vec_fk1_y", "cardinality", "masked_sum"}
  <2> DEFINE OK(c) == /\ c.op = "recv" =>
                           c.name \notin {"vec_fk2_x", "filter", "vec_fk2k1_y", "vec_outer_c",
                                          "vec_outer_c0", "vec_outer_c1"}
                      /\ c.op = "send" => c.name \notin {"vec_fk1_y", "cardinality", "masked_sum"}
  <2>1. \A c \in M1 : OK(c)
    BY DEF Snd, Rcv
  <2>2. \A c \in N1 : OK(c)
    BY DEF Snd, Rcv
  <2>3. /\ OK(Snd("vec_outer_c")) /\ OK(Snd("vec_outer_c0")) /\ OK(Snd("vec_outer_c1"))
        /\ OK(Rcv("cardinality")) /\ OK(Rcv("masked_sum"))
    BY DEF Snd, Rcv
  <2>4. \A c \in R1 : OK(c)
    <3> HIDE DEF OK, N1
    <3>1. QED
      BY <2>2, <2>3
  <2> HIDE DEF M1, R1
  <2>5. QED
    BY <2>1, <2>4
<1>5. /\ \A c \in M2 \cup R2 : c.op = "recv" => c.name \notin {"vec_fk1_y", "cardinality", "masked_sum"}
      /\ \A c \in M2 \cup R2 : c.op = "send" =>
            /\ c.name \notin {"vec_fk2_x", "filter", "vec_fk2k1_y", "vec_outer_c", "vec_outer_c0", "vec_outer_c1"}
            /\ c.name \in {"cardinality", "masked_sum"} => mode = "CardSum"
  <2> DEFINE OK(c) == /\ c.op = "recv" => c.name \notin {"vec_fk1_y", "cardinality", "masked_sum"}
                      /\ c.op = "send" =>
                           /\ c.name \notin {"vec_fk2_x", "filter", "vec_fk2k1_y", "vec_outer_c",
                                             "vec_outer_c0", "vec_outer_c1"}
                           /\ c.name \in {"cardinality", "masked_sum"} => mode = "CardSum"
  <2>1. \A c \in M2 : OK(c)
    BY DEF Snd, Rcv
  <2>2. \A c \in N2 : OK(c)
    BY DEF Snd, Rcv
  <2>3. /\ OK(Rcv("vec_outer_c")) /\ OK(Rcv("vec_outer_c0")) /\ OK(Rcv("vec_outer_c1"))
        /\ mode = "CardSum" => OK(Snd("cardinality")) /\ OK(Snd("masked_sum"))
    BY DEF Snd, Rcv
  <2>4. \A c \in R2 : OK(c)
    <3> HIDE DEF OK, N2
    <3>1. QED
      BY <2>2, <2>3
  <2> HIDE DEF M2, R2
  <2>5. QED
    BY <2>1, <2>4
<1>6. /\ mode = "CardSum" => Rcv("cardinality") \in R1 /\ Rcv("masked_sum") \in R1
      /\ Rcv("vec_fk2_x") \in M2
      /\ membership = "BloomFilter" => Rcv("filter") \in M2
      /\ membership = "PlainSet" => Rcv("vec_fk2k1_y") \in M2
      /\ mode \in {"Intersection", "Union"} => Rcv("vec_outer_c") \in R2
  OBVIOUS
<1> HIDE DEF M1, M2, R1, R2
<1>7. QED
  BY <1>3, <1>4, <1>5, <1>6
=============================================================================
