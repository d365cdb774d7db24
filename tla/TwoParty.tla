------------------------------- MODULE TwoParty -------------------------------
(***************************************************************************)
(* Two processes that run the two roles of a protocol over one net::NetIO  *)
(* connection.  A role is a straight-line program of io.send and io.recv   *)
(* calls; the protocol modules give each role's program, what a send       *)
(* carries and what a party computes when it returns.  NetIO belongs to    *)
(* the core library: an ordered, reliable byte stream each way, whose      *)
(* calls throw when the peer is gone or the network breaks.  Nothing on    *)
(* the wire says what a message is: a receiver that expects another        *)
(* message than the next one misreads it ("desync").                       *)
(***************************************************************************)
EXTENDS Naturals, Sequences

CONSTANT
  Slacks      \* how many unread messages socket buffers may hold

ASSUME SlackAssumption == Slacks \subseteq Nat

VARIABLES
  slack,      \* unread messages this connection holds before a send blocks
  todo,       \* per party: the io calls still to make
  wire,       \* per party: messages it sent that its peer has not read
  inbox,      \* per party: what it received, by message name
  status      \* per party: running, returned, threw, broke, or desync

session == <<slack, todo, wire, inbox, status>>

Party   == {"S", "R"}
Peer(p) == IF p = "S" THEN "R" ELSE "S"

Snd(name) == [op |-> "send", name |-> name]
Rcv(name) == [op |-> "recv", name |-> name]

Start(programS, programR) ==
  /\ slack \in Slacks
  /\ todo = [p \in Party |-> IF p = "S" THEN programS ELSE programR]
  /\ wire = [p \in Party |-> <<>>]
  /\ inbox = [p \in Party |-> <<>>]
  /\ status = [p \in Party |-> "running"]

\* The party's next call is op; a call starts when the previous send has
\* handed its bytes to the socket.
AtCall(p, op) ==
  /\ status[p] = "running"
  /\ Len(wire[p]) <= slack
  /\ todo[p] # <<>>
  /\ Head(todo[p]).op = op

NextName(p) == Head(todo[p]).name

Send(p, data) ==
  /\ AtCall(p, "send")
  /\ wire' = [wire EXCEPT ![p] = Append(@, [name |-> NextName(p), data |-> data])]
  /\ todo' = [todo EXCEPT ![p] = Tail(@)]
  /\ UNCHANGED <<slack, inbox, status>>

With(received, m) ==
  [n \in DOMAIN received \cup {m.name} |-> IF n = m.name THEN m.data ELSE received[n]]

Recv(p) ==
  /\ AtCall(p, "recv")
  /\ wire[Peer(p)] # <<>>
  /\ LET m == Head(wire[Peer(p)]) IN
       IF m.name = NextName(p)
       THEN /\ inbox' = [inbox EXCEPT ![p] = With(@, m)]
            /\ UNCHANGED status
       ELSE /\ status' = [status EXCEPT ![p] = "desync"]
            /\ UNCHANGED inbox
  /\ wire' = [wire EXCEPT ![Peer(p)] = Tail(@)]
  /\ todo' = [todo EXCEPT ![p] = Tail(@)]
  /\ UNCHANGED slack

Gone(p) == status[p] # "running"

\* A call fails for good: the peer is gone and there is nothing left to read,
\* or the bytes of a send have nowhere to go.
PeerClosed(p) ==
  /\ status[p] = "running" /\ Gone(Peer(p))
  /\ \/ Len(wire[p]) > slack
     \/ AtCall(p, "recv") /\ wire[Peer(p)] = <<>>
     \/ AtCall(p, "send")
  /\ status' = [status EXCEPT ![p] = "threw"]
  /\ UNCHANGED <<slack, todo, wire, inbox>>

\* A call throws for a reason of the network's own.
NetworkBreaks(p) ==
  /\ status[p] = "running" /\ todo[p] # <<>>
  /\ status' = [status EXCEPT ![p] = "broke"]
  /\ UNCHANGED <<slack, todo, wire, inbox>>

\* The role's function returns.
Return(p) ==
  /\ status[p] = "running"
  /\ Len(wire[p]) <= slack
  /\ todo[p] = <<>>
  /\ status' = [status EXCEPT ![p] = "returned"]
  /\ UNCHANGED <<slack, todo, wire, inbox>>

Ended == \A p \in Party : status[p] # "running"
-----------------------------------------------------------------------------
\* The two roles' calls, written apart and spread over several functions, stay
\* in step: no recv meets a message it was not written for, and two calls that
\* returned leave nothing behind that the next protocol would read for its own.
NoDesync ==
  /\ \A p \in Party : status[p] # "desync"
  /\ (\A p \in Party : status[p] = "returned") => \A p \in Party : wire[p] = <<>>

\* Both calls end, wherever the connection breaks; and if it holds both
\* return, even when a send waits for its recv.
BothReturn ==
  <>(Ended /\ ((\A p \in Party : status[p] = "returned") \/ (\E p \in Party : status[p] = "broke")))
-----------------------------------------------------------------------------
\* Why no message is misread.  Two programs are mirrored when each sends what
\* the other receives, in the same order.
Mirrored(c, d) == {c.op, d.op} = {"send", "recv"} /\ c.name = d.name

\* p is ahead: its peer has still to receive what is on the wire, and then to
\* make the calls that mirror those p has left.
Ahead(p) ==
  LET q == Peer(p) IN
  /\ wire[q] = <<>>
  /\ Len(todo[q]) = Len(wire[p]) + Len(todo[p])
  /\ \A k \in 1..Len(wire[p]) :
       todo[q][k].op = "recv" /\ todo[q][k].name = wire[p][k].name
  /\ \A k \in 1..Len(todo[p]) : Mirrored(todo[p][k], todo[q][Len(wire[p]) + k])

\* The inductive invariant behind NoDesync.
InStep ==
  /\ \E p \in Party : Ahead(p)
  /\ \A p \in Party : status[p] # "desync" /\ (status[p] = "returned" => todo[p] = <<>>)
=============================================================================
