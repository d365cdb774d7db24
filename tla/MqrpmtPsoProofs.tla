--------------------------- MODULE MqrpmtPsoProofs ---------------------------
(***************************************************************************)
(* Proofs about MqrpmtPso, for all inputs, modes and socket capacities.    *)
(***************************************************************************)
EXTENDS MqrpmtPso, TwoPartyProofs, DataLemmas

\* Every step of the model moves the session by one of its own operations, and
\* leaves the inputs alone.
LEMMA NextIsSessionStep ==
  ASSUME [Next]_vars
  PROVE  SessionStep /\ UNCHANGED param
<1>1. ASSUME NEW p \in Party, Step(p) \/ Throws(p) \/ Breaks(p)
      PROVE  SessionStep /\ UNCHANGED param
  BY <1>1 DEF Step, Throws, Breaks, SessionStep
<1>2. CASE SenderReturns \/ ReceiverReturns
  BY <1>2 DEF SenderReturns, ReceiverReturns, SessionStep, Party
<1>3. CASE UNCHANGED vars
  BY <1>3 DEF vars, SessionStep
<1>4. QED
  BY <1>1, <1>2, <1>3 DEF Next, Progress, Finished

\* The two programs start in step.
LEMMA InitInStep == Init => SessionOK /\ InStep
<1> SUFFICES ASSUME Init PROVE SessionOK /\ InStep
  OBVIOUS
<1>1. param.mode \in {"Intersection", "Union", "Card", "CardSum"}
  BY DEF Init, Params, Modes
<1>2. QED
  BY <1>1, PsoMirror, MirrorStart DEF Init

\* They stay in step.
LEMMA StaysInStep == Spec => [](SessionOK /\ InStep)
<1>1. SessionOK /\ InStep /\ [Next]_vars => (SessionOK /\ InStep)'
  BY NextIsSessionStep, SessionShape, StepInStep
<1>2. QED
  BY <1>1, InitInStep, PTL DEF Spec

\* In every mode of the set operations, with any number of messages in flight
\* and wherever the connection breaks, no party reads a message for another,
\* and two calls that returned leave the connection empty.
THEOREM ConnectionInStep == Spec => []NoDesync
BY StaysInStep, InStepNoDesync, PTL
-----------------------------------------------------------------------------
Memberships == {"BloomFilter", "PlainSet"}

\* The inputs.
LEMMA ParamFacts ==
  ASSUME param \in Params
  PROVE  /\ param.mode \in Modes /\ param.membership \in Memberships
         /\ \E n \in Nat : /\ n = Len(X) /\ Rows = 1..n /\ DOMAIN X = 1..n
                           /\ param.v \in [1..n -> Values] /\ param.r \in [1..n -> Ring]
                           /\ \A v \in Values : n * (v + 1) <= Modulus
         /\ X \in Seq(Items) /\ \A i, j \in Rows : X[i] = X[j] => i = j
         /\ Y \in Seq(Items) /\ \A i, j \in 1..Len(Y) : Y[i] = Y[j] => i = j
         /\ param.stray \subseteq ToSet(X) \ ToSet(Y)
         /\ param.membership = "PlainSet" => param.stray = {}
<1>1. /\ param.mode \in Modes /\ param.membership \in Memberships
      /\ X \in SenderInputs /\ Y \in ReceiverInputs
      /\ param.stray \subseteq ToSet(X) \ ToSet(Y)
      /\ param.membership = "PlainSet" => param.stray = {}
      /\ Len(param.v) = Len(X) /\ Len(param.r) = Len(X)
  BY DEF Params, Memberships, X, Y
<1>2. X \in Seq(Items) /\ Y \in Seq(Items) /\ IsInjective(X) /\ IsInjective(Y)
  BY <1>1, InputAssumption
<1>3. PICK n \in Nat : n = Len(X)
  BY <1>2
<1>4. Rows = 1..n /\ DOMAIN X = 1..n
  BY <1>2, <1>3 DEF Rows
<1>5. param.v \in [1..n -> Values]
  <2>1. PICK s \in SenderInputs : param.v \in [1..Len(s) -> Values]
    BY DEF Params
  <2>2. PICK m \in Nat : m = Len(s)
    BY <2>1, InputAssumption
  <2>3. Len(param.v) = m
    BY <2>1, <2>2
  <2>4. QED
    BY <1>1, <1>3, <2>1, <2>2, <2>3
<1>6. param.r \in [1..n -> Ring]
  <2>1. PICK s \in SenderInputs : param.r \in [1..Len(s) -> Ring]
    BY DEF Params
  <2>2. PICK m \in Nat : m = Len(s)
    BY <2>1, InputAssumption
  <2>3. Len(param.r) = m
    BY <2>1, <2>2
  <2>4. QED
    BY <1>1, <1>3, <2>1, <2>2, <2>3
<1>7. \A v \in Values : n * (v + 1) <= Modulus
  BY <1>1, <1>3, SumBoundAssumption
<1>8. DOMAIN Y = 1..Len(Y)
  BY <1>2
<1>9. /\ \A i, j \in Rows : X[i] = X[j] => i = j
      /\ \A i, j \in 1..Len(Y) : Y[i] = Y[j] => i = j
  BY <1>2, <1>4, <1>8 DEF IsInjective
<1>10. QED
  BY <1>1, <1>2, <1>3, <1>4, <1>5, <1>6, <1>7, <1>9

\* What the two parties make of their inputs, read off the inputs directly.
Point(e, keys) == [item |-> e, keys |-> keys]
Both == {"k1", "k2"}
Members == ToSet(Y) \cup param.stray

TrueBits == [i \in Rows |-> IF X[i] \in Members THEN 1 ELSE 0]
TrueSelection ==
  [i \in Rows |-> IF param.mode = "Union" THEN 1 - TrueBits[i] ELSE TrueBits[i]]
TrueOt == [i \in Rows |-> IF TrueSelection[i] = 0 THEN param.r[i]
                                                  ELSE (param.v[i] + param.r[i]) % Modulus]

DataNames ==
  {"vec_fk1_y", "vec_fk2_x", "filter", "vec_fk2k1_y", "vec_outer_c", "vec_outer_c0",
   "vec_outer_c1", "cardinality", "masked_sum"}
Said ==
  [name \in DataNames |->
     CASE name = "vec_fk1_y" -> [j \in DOMAIN Y |-> Point(Y[j], {"k1"})]
       [] name = "vec_fk2_x" -> [i \in DOMAIN X |-> Point(X[i], {"k2"})]
       [] name = "filter" -> [inserted |-> {Point(e, Both) : e \in ToSet(Y)},
                              accident |-> {Point(e, Both) : e \in param.stray}]
       [] name = "vec_fk2k1_y" -> {Point(e, Both) : e \in ToSet(Y)}
       [] name = "vec_outer_c" -> [i \in Rows |-> Encrypt(i, 1, X[i])]
       [] name = "vec_outer_c0" -> [i \in Rows |-> Encrypt(i, 0, param.r[i])]
       [] name = "vec_outer_c1" ->
            [i \in Rows |-> Encrypt(i, 1, (param.v[i] + param.r[i]) % Modulus)]
       [] name = "cardinality" -> FoldSeq(LAMBDA a, b : a + b, 0, TrueBits)
       [] name = "masked_sum" -> SumMod(TrueOt)]
Transcript == [p \in Party |-> Said]

\* The messages p has received so far are what the transcript says.
LEMMA InboxSaid ==
  ASSUME Delivers(DataNames, Transcript), NEW p \in Party, NEW name \in DataNames, name \in DOMAIN inbox[p]
  PROVE  inbox[p][name] = Said[name]
BY PeerFacts DEF Delivers, Transcript

\* The entries of the transcript, one by one.
LEMMA SaidIs ==
  /\ Said["vec_fk1_y"] = [j \in DOMAIN Y |-> Point(Y[j], {"k1"})]
  /\ Said["vec_fk2_x"] = [i \in DOMAIN X |-> Point(X[i], {"k2"})]
  /\ Said["filter"] = [inserted |-> {Point(e, Both) : e \in ToSet(Y)},
                       accident |-> {Point(e, Both) : e \in param.stray}]
  /\ Said["vec_fk2k1_y"] = {Point(e, Both) : e \in ToSet(Y)}
  /\ Said["vec_outer_c"] = [i \in Rows |-> Encrypt(i, 1, X[i])]
  /\ Said["vec_outer_c0"] = [i \in Rows |-> Encrypt(i, 0, param.r[i])]
  /\ Said["vec_outer_c1"] = [i \in Rows |-> Encrypt(i, 1, (param.v[i] + param.r[i]) % Modulus)]
  /\ Said["cardinality"] = FoldSeq(LAMBDA a, b : a + b, 0, TrueBits)
  /\ Said["masked_sum"] = SumMod(TrueOt)
BY DEF Said, DataNames

\* What a key does to a point.
LEMMA Raising ==
  /\ \A e, k : Raise(Hash(e), k) = Point(e, {k})
  /\ \A e, K, k : Raise(Point(e, K), k) = Point(e, K \cup {k})
<1>1. ASSUME NEW e, NEW K, NEW k
      PROVE  Raise(Point(e, K), k) = Point(e, K \cup {k})
  BY DEF Raise, Point
<1>2. ASSUME NEW e, NEW k
      PROVE  Raise(Hash(e), k) = Point(e, {k})
  BY DEF Raise, Hash, Point
<1>3. QED
  BY <1>1, <1>2

\* The items of the two vectors, by index.
LEMMA IndexedItems ==
  ASSUME param \in Params
  PROVE  DOMAIN Y = 1..Len(Y) /\ ToSet(Y) = {Y[j] : j \in DOMAIN Y} /\ ToSet(X) = {X[i] : i \in Rows}
BY ParamFacts DEF ToSet

\* The receiver's indication bits tell the members of its set and the strays.
LEMMA BitsAreTrue ==
  ASSUME param \in Params, Delivers(DataNames, Transcript),
         "vec_fk2_x" \in DOMAIN inbox["R"],
         param.membership = "BloomFilter" => "filter" \in DOMAIN inbox["R"],
         param.membership = "PlainSet" => "vec_fk2k1_y" \in DOMAIN inbox["R"]
  PROVE  IndicationBits = TrueBits
<1>1. "R" \in Party /\ DataNames \subseteq DataNames
  BY DEF Party
<1>2. inbox["R"]["vec_fk2_x"] = [i \in DOMAIN X |-> Point(X[i], {"k2"})]
  BY <1>1, InboxSaid, SaidIs DEF DataNames
<1>3. \A i \in Rows : Raise(inbox["R"]["vec_fk2_x"][i], "k1") = Point(X[i], Both)
  <2> TAKE i \in Rows
  <2>1. inbox["R"]["vec_fk2_x"][i] = Point(X[i], {"k2"})
    BY <1>2, ParamFacts
  <2>2. {"k2"} \cup {"k1"} = Both
    BY DEF Both
  <2>3. QED
    BY <2>1, <2>2, Raising
<1>4. \A e, S : Point(e, Both) \in {Point(d, Both) : d \in S} <=> e \in S
  BY DEF Point
<1>5. CASE param.membership = "BloomFilter"
  <2>1. /\ inbox["R"]["filter"].inserted = {Point(e, Both) : e \in ToSet(Y)}
        /\ inbox["R"]["filter"].accident = {Point(e, Both) : e \in param.stray}
    <3>1. inbox["R"]["filter"] = Said["filter"]
      BY <1>1, <1>5, InboxSaid DEF DataNames
    <3>2. \A f, a, b : f = [inserted |-> a, accident |-> b] => f.inserted = a /\ f.accident = b
      OBVIOUS
    <3> DEFINE a == {Point(e, Both) : e \in ToSet(Y)}
               b == {Point(e, Both) : e \in param.stray}
    <3>3. inbox["R"]["filter"] = [inserted |-> a, accident |-> b]
      BY <3>1, SaidIs
    <3> HIDE DEF a, b
    <3>4. inbox["R"]["filter"].inserted = a /\ inbox["R"]["filter"].accident = b
      BY <3>2, <3>3
    <3>5. QED
      BY <3>4 DEF a, b
  <2>2. \A i \in Rows :
          Point(X[i], Both) \in inbox["R"]["filter"].inserted \cup inbox["R"]["filter"].accident
            <=> X[i] \in Members
    BY <1>4, <2>1 DEF Members
  <2>3. QED
    BY <1>3, <1>5, <2>2 DEF IndicationBits, TrueBits
<1>6. CASE param.membership = "PlainSet"
  <2>1. inbox["R"]["vec_fk2k1_y"] = {Point(e, Both) : e \in ToSet(Y)}
    BY <1>1, <1>6, InboxSaid, SaidIs DEF DataNames
  <2>2. Members = ToSet(Y)
    BY <1>6, ParamFacts DEF Members
  <2>3. \A i \in Rows : Point(X[i], Both) \in inbox["R"]["vec_fk2k1_y"] <=> X[i] \in Members
    BY <1>4, <2>1, <2>2
  <2>4. param.membership # "BloomFilter"
    BY <1>6
  <2>5. QED
    BY <1>3, <2>3, <2>4 DEF IndicationBits, TrueBits
<1>7. QED
  BY <1>5, <1>6, ParamFacts DEF Memberships

-----------------------------------------------------------------------------
\* What the proofs need of a state: the parties are in step, each knows how
\* far it has come, and every message says what the transcript says.
PsoInv ==
  /\ param \in Params
  /\ SessionOK /\ InStep /\ InboxOK
  /\ SoFar("S", PsoSender(param.mode, param.membership))
  /\ SoFar("R", PsoReceiver(param.mode, param.membership))
  /\ Delivers(DataNames, Transcript)

\* A receiver that answers, or is done, holds what it answers from.
LEMMA ReceiverHolds ==
  ASSUME PsoInv,
         \/ todo["R"] = <<>>
         \/ AtCall("R", "send") /\ NextName("R") \in {"cardinality", "masked_sum"}
  PROVE  /\ "vec_fk2_x" \in DOMAIN inbox["R"]
         /\ param.membership = "BloomFilter" => "filter" \in DOMAIN inbox["R"]
         /\ param.membership = "PlainSet" => "vec_fk2k1_y" \in DOMAIN inbox["R"]
         /\ todo["R"] = <<>> /\ param.mode \in {"Intersection", "Union"}
              => "vec_outer_c" \in DOMAIN inbox["R"]
         /\ todo["R"] # <<>> =>
              /\ param.mode = "CardSum"
              /\ "vec_outer_c0" \in DOMAIN inbox["R"] /\ "vec_outer_c1" \in DOMAIN inbox["R"]
<1>1. "R" \in Party /\ param.mode \in Modes /\ param.membership \in Memberships
  BY ParamFacts DEF PsoInv, Party
<1>2. PICK A : /\ Consists(PsoReceiver(param.mode, param.membership), A)
               /\ \A c \in A : c.op = "send" =>
                    (c.name \in {"cardinality", "masked_sum"} => param.mode = "CardSum")
               /\ Rcv("vec_fk2_x") \in A
               /\ param.membership = "BloomFilter" => Rcv("filter") \in A
               /\ param.membership = "PlainSet" => Rcv("vec_fk2k1_y") \in A
               /\ param.mode \in {"Intersection", "Union"} => Rcv("vec_outer_c") \in A
  BY <1>1, PsoCallSets DEF Modes, Memberships
<1>3. CASE todo["R"] = <<>>
  <2>1. \A c \in A : c.op = "recv" => c.name \in DOMAIN inbox["R"]
    BY <1>1, <1>2, <1>3, ReturnedHoldsAll DEF PsoInv, Consists
  <2>2. \A name : Rcv(name).op = "recv" /\ Rcv(name).name = name
    BY DEF Rcv
  <2>3. QED
    BY <1>2, <1>3, <2>1, <2>2
<1>4. CASE AtCall("R", "send") /\ NextName("R") \in {"cardinality", "masked_sum"}
  <2>1. param.mode = "CardSum"
    <3>1. \E c \in A : c.op = "send" /\ c.name = NextName("R")
      BY <1>1, <1>2, <1>4, CallMade DEF PsoInv, Consists
    <3>2. QED
      BY <1>2, <1>4, <3>1
  <2> DEFINE s == MqrpmtServer(param.membership) \o OtReceiver
             t == << Snd("cardinality"), Snd("masked_sum") >>
             M == {Snd("vec_fk1_y"), Rcv("vec_fk2_x")} \cup
                  (IF param.membership = "BloomFilter"
                   THEN {Rcv("filter_size"), Rcv("filter")} ELSE {Rcv("vec_fk2k1_y")})
             O == ({Snd("c"), Snd("vec_x"), Rcv("vec_pk0"), Snd("vec_y0"), Snd("vec_y1")}
                    \cup {Snd("matrix_p")}) \cup {Rcv("vec_outer_c0"), Rcv("vec_outer_c1")}
  <2>2. Consists(MqrpmtServer(param.membership), M)
    BY ConsistsOf, ConsistsConcat DEF MqrpmtServer
  <2>3. Consists(OtReceiver, O)
    BY ConsistsOf, ConsistsConcat, OtCallSets DEF OtReceiver
  <2>4. Consists(t, {Snd("cardinality"), Snd("masked_sum")})
    BY ConsistsOf
  <2>5. Consists(s, M \cup O)
    <3> HIDE DEF M, O
    <3>1. QED
      BY <2>2, <2>3, ConsistsConcat
  <2>6. PsoReceiver(param.mode, param.membership) = s \o t
    <3>1. \E C : MqrpmtServer(param.membership) \in Seq(C) /\ OtReceiver \in Seq(C) /\ t \in Seq(C)
      <4> DEFINE C == (M \cup O) \cup {Snd("cardinality"), Snd("masked_sum")}
      <4>1. M \subseteq C /\ O \subseteq C /\ {Snd("cardinality"), Snd("masked_sum")} \subseteq C
        OBVIOUS
      <4> HIDE DEF C, M, O, t
      <4>2. /\ MqrpmtServer(param.membership) \in Seq(C) /\ OtReceiver \in Seq(C) /\ t \in Seq(C)
        BY <2>2, <2>3, <2>4, <4>1, SeqMonotonic DEF Consists
      <4>3. QED
        BY <4>2
    <3>2. MqrpmtServer(param.membership) \o (OtReceiver \o t) = s \o t
      <4> HIDE DEF t
      <4>1. QED
        BY <3>1, ConcatAssociative
    <3>3. QED
      BY <2>1, <3>2 DEF PsoReceiver
  <2>7. \A c \in M \cup O : ~(c.op = "send" /\ c.name = NextName("R"))
    <3>1. \A c \in M \cup O : c.op = "send" => c.name \notin {"cardinality", "masked_sum"}
      BY DEF Snd, Rcv
    <3> HIDE DEF M, O
    <3>2. QED
      BY <1>4, <3>1
  <2>8. \A c \in M \cup O : c.op = "recv" => c.name \in DOMAIN inbox["R"]
    <3> DEFINE C == (M \cup O) \cup {Snd("cardinality"), Snd("masked_sum")}
    <3> HIDE DEF M, O
    <3>1. s \in Seq(C) /\ t \in Seq(C) /\ Calls(s) = M \cup O
      BY <2>4, <2>5, SeqMonotonic DEF Consists
    <3> HIDE DEF s, t, C
    <3>2. SoFar("R", s \o t)
      BY <2>6 DEF PsoInv
    <3>3. QED
      BY <1>1, <1>4, <2>7, <3>1, <3>2, HeldBefore DEF PsoInv
  <2>9. /\ Rcv("vec_fk2_x") \in M
        /\ param.membership = "BloomFilter" => Rcv("filter") \in M
        /\ param.membership = "PlainSet" => Rcv("vec_fk2k1_y") \in M
        /\ Rcv("vec_outer_c0") \in O /\ Rcv("vec_outer_c1") \in O
    OBVIOUS
  <2>10. \A name : Rcv(name).op = "recv" /\ Rcv(name).name = name
    BY DEF Rcv
  <2>11. todo["R"] # <<>>
    BY <1>4 DEF AtCall
  <2> HIDE DEF M, O
  <2>12. QED
    BY <2>1, <2>8, <2>9, <2>10, <2>11
<1>5. QED
  BY <1>3, <1>4

\* A sender that answers the receiver's points holds them.
LEMMA SenderHolds ==
  ASSUME PsoInv, AtCall("S", "send"), NextName("S") \in {"filter", "vec_fk2k1_y"}
  PROVE  "vec_fk1_y" \in DOMAIN inbox["S"]
<1>1. "S" \in Party /\ param.mode \in Modes /\ param.membership \in Memberships
  BY ParamFacts DEF PsoInv, Party
<1> DEFINE s == << Rcv("vec_fk1_y"), Snd("vec_fk2_x") >>
           f == IF param.membership = "BloomFilter" THEN << Snd("filter_size"), Snd("filter") >>
                                                    ELSE << Snd("vec_fk2k1_y") >>
           t == CASE param.mode \in {"Intersection", "Union"} -> OnesidedSender
                  [] param.mode = "Card" -> << >>
                  [] param.mode = "CardSum" -> OtSender \o << Rcv("cardinality"), Rcv("masked_sum") >>
<1>2. \E A : Consists(t, A)
  <2>1. \E A : Consists(OnesidedSender, A)
    BY ConsistsOf, ConsistsConcat, OtCallSets DEF OnesidedSender
  <2>2. \E A : Consists(OtSender \o << Rcv("cardinality"), Rcv("masked_sum") >>, A)
    <3>1. \E A : Consists(OtSender, A)
      BY ConsistsOf, ConsistsConcat, OtCallSets DEF OtSender
    <3>2. \E A : Consists(<< Rcv("cardinality"), Rcv("masked_sum") >>, A)
      BY ConsistsOf
    <3>3. QED
      BY <3>1, <3>2, ConsistsConcat
  <2>3. QED
    BY <1>1, <2>1, <2>2, ConsistsOf DEF Modes
<1>3. \E A : Consists(f, A)
  BY ConsistsOf
<1>4. Consists(s, {Rcv("vec_fk1_y"), Snd("vec_fk2_x")})
  BY ConsistsOf
<1>5. PsoSender(param.mode, param.membership) = (s \o f) \o t
  BY DEF PsoSender, MqrpmtClient
<1> HIDE DEF s, f, t
<1>6. PICK C : s \in Seq(C) /\ f \in Seq(C) /\ t \in Seq(C)
  <2>1. PICK A, B : Consists(f, A) /\ Consists(t, B)
    BY <1>2, <1>3
  <2>2. PICK D : D = {Rcv("vec_fk1_y"), Snd("vec_fk2_x")}
    OBVIOUS
  <2>3. s \in Seq((A \cup B) \cup D) /\ f \in Seq((A \cup B) \cup D) /\ t \in Seq((A \cup B) \cup D)
    BY <1>4, <2>1, <2>2, SeqMonotonic DEF Consists
  <2>4. QED
    BY <2>3
<1>7. (s \o f) \o t = s \o (f \o t) /\ f \o t \in Seq(C)
  <2>1. (s \o f) \o t = s \o (f \o t)
    BY <1>6, ConcatAssociative, SMTT(30)
  <2>2. QED
    BY <1>6, <2>1, ConcatProperties
<1>8. SoFar("S", s \o (f \o t))
  BY <1>5, <1>7 DEF PsoInv
<1>9. \A c \in Calls(s) : ~(c.op = "send" /\ c.name = NextName("S"))
  BY <1>4 DEF Consists, Snd, Rcv
<1>10. \A c \in Calls(s) : c.op = "recv" => c.name \in DOMAIN inbox["S"]
  BY <1>1, <1>6, <1>7, <1>8, <1>9, HeldBefore DEF PsoInv
<1>11. QED
  BY <1>4, <1>10 DEF Consists, Rcv

\* A sender of Card-Sum that is done holds the receiver's two answers.
LEMMA SenderHoldsAnswers ==
  ASSUME PsoInv, todo["S"] = <<>>, param.mode = "CardSum"
  PROVE  "cardinality" \in DOMAIN inbox["S"] /\ "masked_sum" \in DOMAIN inbox["S"]
<1>1. "S" \in Party /\ param.mode \in Modes /\ param.membership \in Memberships
  BY ParamFacts DEF PsoInv, Party
<1>2. PICK A : /\ Consists(PsoSender(param.mode, param.membership), A)
               /\ Rcv("cardinality") \in A /\ Rcv("masked_sum") \in A
  BY <1>1, PsoCallSets DEF Modes, Memberships
<1>3. \A c \in A : c.op = "recv" => c.name \in DOMAIN inbox["S"]
  BY <1>1, <1>2, ReturnedHoldsAll DEF PsoInv, Consists
<1>4. QED
  BY <1>2, <1>3 DEF Rcv

\* The OT delivers the mask of a row that is not selected, and the masked
\* value of one that is.
LEMMA OtIsTrue ==
  ASSUME param \in Params, Delivers(DataNames, Transcript),
         "vec_outer_c0" \in DOMAIN inbox["R"], "vec_outer_c1" \in DOMAIN inbox["R"],
         IndicationBits = TrueBits
  PROVE  OtResult = TrueOt
<1>1. "R" \in Party
  BY DEF Party
<1>2. /\ inbox["R"]["vec_outer_c0"] = [i \in Rows |-> Encrypt(i, 0, param.r[i])]
      /\ inbox["R"]["vec_outer_c1"] = [i \in Rows |-> Encrypt(i, 1, (param.v[i] + param.r[i]) % Modulus)]
  BY <1>1, InboxSaid, SaidIs DEF DataNames
<1>3. SelectionBits = TrueSelection
  BY DEF SelectionBits, TrueSelection
<1>4. \A i \in Rows : TrueSelection[i] = 0 \/ TrueSelection[i] = 1
  BY DEF TrueSelection, TrueBits
<1>5. ASSUME NEW i \in Rows
      PROVE  Decrypt(<<i, TrueSelection[i]>>, IF TrueSelection[i] = 0 THEN inbox["R"]["vec_outer_c0"][i]
                                                                      ELSE inbox["R"]["vec_outer_c1"][i])
               = TrueOt[i]
  <2>1. \A b, m : Decrypt(<<i, b>>, Encrypt(i, b, m)) = m
    BY DEF Decrypt, Encrypt
  <2>2. CASE TrueSelection[i] = 0
    BY <1>2, <2>1, <2>2 DEF TrueOt
  <2>3. CASE TrueSelection[i] = 1
    BY <1>2, <2>1, <2>3 DEF TrueOt
  <2>4. QED
    BY <1>4, <2>2, <2>3
<1>6. DOMAIN TrueSelection = Rows
  BY DEF TrueSelection
<1>7. QED
  BY <1>3, <1>5, <1>6 DEF OtResult, OtReceive, TrueOt

-----------------------------------------------------------------------------
\* Who sends which message.
LEMMA SentBy ==
  ASSUME PsoInv, NEW p \in Party, AtCall(p, "send")
  PROVE  /\ NextName(p) \in {"vec_fk1_y", "cardinality", "masked_sum"} => p = "R"
         /\ NextName(p) \in {"filter", "vec_fk2k1_y"} => p = "S"
<1>1. param.mode \in Modes /\ param.membership \in Memberships
  BY ParamFacts DEF PsoInv
<1>2. CASE p = "S"
  <2>1. PICK A : /\ Consists(PsoSender(param.mode, param.membership), A)
                 /\ \A c \in A : c.op = "send" =>
                      c.name \notin {"vec_fk1_y", "cardinality", "masked_sum"}
    BY <1>1, PsoCallSets DEF Modes, Memberships
  <2>2. \E c \in A : c.op = "send" /\ c.name = NextName(p)
    BY <1>2, <2>1, CallMade DEF PsoInv, Consists
  <2>3. QED
    BY <1>2, <2>1, <2>2
<1>3. CASE p = "R"
  <2>1. PICK A : /\ Consists(PsoReceiver(param.mode, param.membership), A)
                 /\ \A c \in A : c.op = "send" =>
                      c.name \notin {"vec_fk2_x", "filter", "vec_fk2k1_y", "vec_outer_c",
                                     "vec_outer_c0", "vec_outer_c1"}
    BY <1>1, PsoCallSets DEF Modes, Memberships
  <2>2. \E c \in A : c.op = "send" /\ c.name = NextName(p)
    BY <1>3, <2>1, CallMade DEF PsoInv, Consists
  <2>3. QED
    BY <1>3, <2>1, <2>2
<1>4. QED
  BY <1>2, <1>3 DEF Party

\* Every send carries what the transcript says.
LEMMA PayloadSaid ==
  ASSUME PsoInv, NEW p \in Party, AtCall(p, "send"), NextName(p) \in DataNames
  PROVE  Payload(p, NextName(p)) = Said[NextName(p)]
<1>1. param \in Params /\ Delivers(DataNames, Transcript)
  BY DEF PsoInv
<1>2. CASE NextName(p) = "vec_fk1_y"
  <2>1. Payload(p, NextName(p)) = [i \in DOMAIN Y |-> Raise(Hash(Y[i]), "k1")]
    BY <1>2 DEF Payload
  <2>2. [i \in DOMAIN Y |-> Raise(Hash(Y[i]), "k1")] = [j \in DOMAIN Y |-> Point(Y[j], {"k1"})]
    BY Raising
  <2>3. QED
    BY <1>2, <2>1, <2>2, SaidIs
<1>3. CASE NextName(p) = "vec_fk2_x"
  <2>1. Payload(p, NextName(p)) = [i \in DOMAIN X |-> Raise(Hash(X[i]), "k2")]
    BY <1>3 DEF Payload
  <2>2. [i \in DOMAIN X |-> Raise(Hash(X[i]), "k2")] = [i \in DOMAIN X |-> Point(X[i], {"k2"})]
    BY Raising
  <2>3. QED
    BY <1>3, <2>1, <2>2, SaidIs
<1>4. ASSUME NextName(p) \in {"filter", "vec_fk2k1_y"}
      PROVE  \A j \in DOMAIN Y : Raise(inbox["S"]["vec_fk1_y"][j], "k2") = Point(Y[j], Both)
  <2>1. p = "S"
    BY <1>4, SentBy
  <2>2. "vec_fk1_y" \in DOMAIN inbox["S"] /\ "vec_fk1_y" \in DataNames
    BY <1>4, <2>1, SenderHolds DEF DataNames
  <2>3. inbox["S"]["vec_fk1_y"] = [j \in DOMAIN Y |-> Point(Y[j], {"k1"})]
    BY <1>1, <2>1, <2>2, InboxSaid, SaidIs
  <2>4. TAKE j \in DOMAIN Y
  <2>5. {"k1"} \cup {"k2"} = Both
    BY DEF Both
  <2>6. QED
    BY <2>3, <2>5, Raising
<1>5. {Point(Y[j], Both) : j \in DOMAIN Y} = {Point(e, Both) : e \in ToSet(Y)}
  BY <1>1, IndexedItems
<1>6. CASE NextName(p) = "filter"
  <2> DEFINE points == [j \in DOMAIN Y |-> Raise(inbox["S"]["vec_fk1_y"][j], "k2")]
  <2>1. points = [j \in DOMAIN Y |-> Point(Y[j], Both)]
    BY <1>4, <1>6
  <2>2. ToSet(points) = {Point(e, Both) : e \in ToSet(Y)}
    <3>1. ToSet([j \in DOMAIN Y |-> Point(Y[j], Both)]) = {Point(Y[j], Both) : j \in DOMAIN Y}
      BY DEF ToSet
    <3>2. QED
      BY <1>5, <2>1, <3>1
  <2>3. {[item |-> e, keys |-> {"k1", "k2"}] : e \in param.stray} = {Point(e, Both) : e \in param.stray}
    BY DEF Point, Both
  <2> HIDE DEF points
  <2>4. Filter(points) = Said["filter"]
    BY <2>2, <2>3, SaidIs, Zenon DEF Filter
  <2>5. QED
    BY <1>6, <2>4 DEF Payload, points
<1>7. CASE NextName(p) = "vec_fk2k1_y"
  <2>1. {Raise(inbox["S"]["vec_fk1_y"][j], "k2") : j \in DOMAIN Y} = {Point(Y[j], Both) : j \in DOMAIN Y}
    BY <1>4, <1>7
  <2>2. QED
    BY <1>5, <1>7, <2>1, SaidIs DEF Payload
<1>8. CASE NextName(p) \in {"vec_outer_c", "vec_outer_c0", "vec_outer_c1"}
  BY <1>8, SaidIs DEF Payload
<1>9. CASE NextName(p) \in {"cardinality", "masked_sum"}
  <2>1. p = "R" /\ todo["R"] # <<>>
    BY <1>9, SentBy DEF AtCall
  <2>2. IndicationBits = TrueBits
    BY <1>1, <1>9, <2>1, ReceiverHolds, BitsAreTrue
  <2>3. OtResult = TrueOt
    BY <1>1, <1>9, <2>1, <2>2, ReceiverHolds, OtIsTrue
  <2>4. CASE NextName(p) = "cardinality"
    BY <2>2, <2>4, SaidIs DEF Payload, CountBits
  <2>5. CASE NextName(p) = "masked_sum"
    BY <2>3, <2>5, SaidIs DEF Payload
  <2>6. QED
    BY <1>9, <2>4, <2>5
<1>10. QED
  BY <1>2, <1>3, <1>6, <1>7, <1>8, <1>9 DEF DataNames

\* Whatever is sent is what the transcript says.
LEMMA NextIsHonest ==
  ASSUME PsoInv, [Next]_vars
  PROVE  HonestStep(DataNames, Transcript)
<1>1. ASSUME NEW p \in Party, Step(p) \/ Throws(p) \/ Breaks(p)
      PROVE  HonestStep(DataNames, Transcript)
  <2>1. CASE AtCall(p, "send") /\ Send(p, Payload(p, NextName(p)))
    <3>1. NextName(p) \in DataNames => Payload(p, NextName(p)) = Transcript[p][NextName(p)]
      BY <2>1, PayloadSaid DEF Transcript
    <3>2. QED
      BY <2>1, <3>1 DEF HonestStep
  <2>2. QED
    BY <1>1, <2>1 DEF Step, Throws, Breaks, HonestStep
<1>2. CASE SenderReturns \/ ReceiverReturns
  BY <1>2 DEF SenderReturns, ReceiverReturns, HonestStep, Party
<1>3. CASE UNCHANGED vars
  BY <1>3 DEF vars, HonestStep
<1>4. QED
  BY <1>1, <1>2, <1>3 DEF Next, Progress, Finished

\* PsoInv holds at the start, ...
LEMMA InitPsoInv == Init => PsoInv
<1> SUFFICES ASSUME Init PROVE PsoInv
  OBVIOUS
<1>1. param \in Params /\ param.mode \in Modes /\ param.membership \in Memberships
  BY ParamFacts DEF Init
<1>2. PICK A, B : /\ Consists(PsoSender(param.mode, param.membership), A)
                  /\ Consists(PsoReceiver(param.mode, param.membership), B)
  BY <1>1, PsoCallSets DEF Modes, Memberships
<1>3. PICK C : /\ PsoSender(param.mode, param.membership) \in Seq(C)
               /\ PsoReceiver(param.mode, param.membership) \in Seq(C)
  <2>1. /\ PsoSender(param.mode, param.membership) \in Seq(A \cup B)
        /\ PsoReceiver(param.mode, param.membership) \in Seq(A \cup B)
    BY <1>2, SeqMonotonic DEF Consists
  <2>2. QED
    BY <2>1
<1>4. /\ InboxOK
      /\ SoFar("S", PsoSender(param.mode, param.membership))
      /\ SoFar("R", PsoReceiver(param.mode, param.membership))
      /\ Delivers(DataNames, Transcript)
  BY <1>3, StartSoFar DEF Init
<1>5. QED
  BY <1>1, <1>4, InitInStep DEF PsoInv

\* ... and every step keeps it.
LEMMA PsoInvStep == PsoInv /\ [Next]_vars => PsoInv'
<1> SUFFICES ASSUME PsoInv, [Next]_vars PROVE PsoInv'
  OBVIOUS
<1>1. SessionStep /\ param' = param
  BY NextIsSessionStep
<1>2. SessionOK' /\ InStep' /\ InboxOK'
  BY <1>1, SessionShape, StepInStep, InboxShape DEF PsoInv
<1>3. PICK A, B : /\ Consists(PsoSender(param.mode, param.membership), A)
                  /\ Consists(PsoReceiver(param.mode, param.membership), B)
  BY ParamFacts, PsoCallSets DEF PsoInv, Modes, Memberships
<1>4. /\ SoFar("S", PsoSender(param.mode, param.membership))'
      /\ SoFar("R", PsoReceiver(param.mode, param.membership))'
  <2>1. PICK progS, progR : /\ progS = PsoSender(param.mode, param.membership)
                            /\ progR = PsoReceiver(param.mode, param.membership)
    OBVIOUS
  <2>2. progS \in Seq(A) /\ progR \in Seq(B) /\ SoFar("S", progS) /\ SoFar("R", progR)
    BY <1>3, <2>1 DEF Consists, PsoInv
  <2>3. SoFar("S", progS)' /\ SoFar("R", progR)'
    BY <1>1, <2>2, SoFarStep DEF PsoInv, Party
  <2>4. /\ progS = PsoSender(param'.mode, param'.membership)
        /\ progR = PsoReceiver(param'.mode, param'.membership)
    BY <1>1, <2>1
  <2>5. QED
    BY <2>3, <2>4
<1>5. Delivers(DataNames, Transcript)'
  <2>1. PICK said : said = Transcript
    OBVIOUS
  <2>2. HonestStep(DataNames, said) /\ Delivers(DataNames, said)
    BY <2>1, NextIsHonest DEF PsoInv
  <2>3. Delivers(DataNames, said)'
    BY <2>2, DeliversStep DEF PsoInv
  <2>4. Transcript' = Transcript
    BY <1>1 DEF Transcript, Said, TrueBits, TrueOt, TrueSelection, Members, X, Y, Rows, SumMod,
         FoldSeq, FoldFunction, FoldFunctionOnSet, MapThenFoldSet
  <2>5. QED
    BY <2>1, <2>3, <2>4
<1>6. QED
  BY <1>1, <1>2, <1>4, <1>5 DEF PsoInv

\* The inductive invariant of the set operations.
THEOREM PsoInvariant == Spec => []PsoInv
BY InitPsoInv, PsoInvStep, PTL DEF Spec

\* In every mode, on every input, what a party sends of its peer's items or its
\* own is under its own key.
THEOREM PsoOwnKey == Spec => []OwnKeyOnWire
<1>1. PsoInv => OwnKeyOnWire
  <2> SUFFICES ASSUME PsoInv, NEW p \in Party, NEW m \in ToSet(wire[p]), NEW point \in Points(m)
               PROVE  (IF p = "S" THEN "k2" ELSE "k1") \in point.keys
    BY DEF OwnKeyOnWire
  <2>1. PICK M : wire \in [Party -> Seq(M)]
    BY DEF PsoInv, SessionOK
  <2>2. PICK k \in 1..Len(wire[p]) : m = wire[p][k]
    BY <2>1 DEF ToSet
  <2>3. m.name \in {"vec_fk1_y", "vec_fk2_x", "vec_fk2k1_y", "filter"}
    BY DEF Points
  <2>4. m.data = Said[m.name]
    BY <2>2, <2>3 DEF PsoInv, Delivers, Transcript, DataNames
  <2> DEFINE mine == IF p = "S" THEN "k2" ELSE "k1"
  <2>8. /\ \A e, K : mine \in K => mine \in Point(e, K).keys
        /\ mine \in Both
    BY DEF Point, Both
  <2>5. CASE p = "S"
    <3>1. Peer(p) = "R" /\ "R" \in Party /\ param.mode \in Modes /\ param.membership \in Memberships
      BY <2>5, ParamFacts DEF Peer, Party, PsoInv
    <3>2. PICK A : /\ Consists(PsoReceiver(param.mode, param.membership), A)
                   /\ \A c \in A : c.op = "recv" =>
                        c.name \notin {"vec_fk1_y", "cardinality", "masked_sum"}
      BY <3>1, PsoCallSets DEF Modes, Memberships
    <3>3. m.name # "vec_fk1_y"
      BY <2>2, <3>1, <3>2, OnWire DEF PsoInv, Consists
    <3>4. CASE m.name = "vec_fk2_x"
      <4>1. point \in {Point(X[i], {"k2"}) : i \in DOMAIN X}
        <5>1. m.data = [i \in DOMAIN X |-> Point(X[i], {"k2"})]
          BY <2>4, <3>4, SaidIs
        <5>2. point \in ToSet(m.data)
          BY <3>4 DEF Points
        <5>3. QED
          BY <5>1, <5>2 DEF ToSet
      <4>2. QED
        BY <2>5, <4>1, <2>8
    <3>5. CASE m.name = "vec_fk2k1_y"
      <4>1. point \in {Point(e, Both) : e \in ToSet(Y)}
        BY <2>4, <3>5, SaidIs DEF Points
      <4>2. QED
        BY <4>1, <2>8
    <3>6. CASE m.name = "filter"
      <4>1. m.data.inserted = {Point(e, Both) : e \in ToSet(Y)}
        <5>1. \A f, a, b : f = [inserted |-> a, accident |-> b] => f.inserted = a
          OBVIOUS
        <5> DEFINE a == {Point(e, Both) : e \in ToSet(Y)}
                   b == {Point(e, Both) : e \in param.stray}
        <5>2. m.data = [inserted |-> a, accident |-> b]
          BY <2>4, <3>6, SaidIs
        <5> HIDE DEF a, b
        <5>3. m.data.inserted = a
          BY <5>1, <5>2
        <5>4. QED
          BY <5>3 DEF a
      <4>2. point \in {Point(e, Both) : e \in ToSet(Y)}
        BY <3>6, <4>1 DEF Points
      <4>3. QED
        BY <4>2, <2>8
    <3>7. QED
      BY <2>3, <3>3, <3>4, <3>5, <3>6
  <2>6. CASE p = "R"
    <3>1. Peer(p) = "S" /\ "S" \in Party /\ param.mode \in Modes /\ param.membership \in Memberships
      BY <2>6, ParamFacts DEF Peer, Party, PsoInv
    <3>2. PICK A : /\ Consists(PsoSender(param.mode, param.membership), A)
                   /\ \A c \in A : c.op = "recv" =>
                        c.name \notin {"vec_fk2_x", "filter", "vec_fk2k1_y", "vec_outer_c",
                                       "vec_outer_c0", "vec_outer_c1"}
      BY <3>1, PsoCallSets DEF Modes, Memberships
    <3>3. m.name = "vec_fk1_y"
      BY <2>2, <2>3, <3>1, <3>2, OnWire DEF PsoInv, Consists
    <3>4. point \in {Point(Y[j], {"k1"}) : j \in DOMAIN Y}
      <4>1. m.data = [j \in DOMAIN Y |-> Point(Y[j], {"k1"})]
        BY <2>4, <3>3, SaidIs
      <4>2. point \in ToSet(m.data)
        BY <3>3 DEF Points
      <4>3. QED
        BY <4>1, <4>2 DEF ToSet
    <3>5. QED
      BY <2>6, <3>4, <2>8
  <2>7. QED
    BY <2>5, <2>6 DEF Party
<1>2. QED
  BY <1>1, PsoInvariant, PTL
-----------------------------------------------------------------------------
Selected == {i \in Rows : TrueSelection[i] = 1}
TrueResult == [k \in DOMAIN Ascending(Selected) |-> X[Ascending(Selected)[k]]]
TrueCount == FoldSeq(LAMBDA a, b : a + b, 0, TrueBits)

TrueReceiverOutput ==
  [set_result |-> CASE param.mode = "Intersection" -> TrueResult
                    [] param.mode = "Union" -> Y \o TrueResult
                    [] OTHER -> << >>,
   cardinality |-> IF param.mode \in {"Card", "CardSum"} THEN TrueCount ELSE 0]
TrueSenderOutput ==
  IF param.mode = "CardSum"
  THEN [cardinality |-> TrueCount,
        card_sum |-> (SumMod(TrueOt) + Modulus - SumMod(param.r)) % Modulus]
  ELSE [cardinality |-> 0, card_sum |-> 0]

\* What a party that has returned put out, and nothing before.
OutputsTrue ==
  /\ rOutput = IF status["R"] = "returned" THEN TrueReceiverOutput ELSE NoOutput
  /\ sOutput = IF status["S"] = "returned" THEN TrueSenderOutput ELSE NoOutput

\* What onesided_receiver's vector holds while it is compacted.
CompactStates ==
  [selected_num : Nat,
   vec_result : [Rows -> [key : {<< >>} \cup (Rows \X {0, 1}), m : {"garbage"} \cup {X[i] : i \in Rows}]]]

Ciphertexts == [i \in Rows |-> Encrypt(i, 1, X[i])]

\* A row leaves such a vector.
LEMMA CompactTyped ==
  ASSUME inbox["R"]["vec_outer_c"] = Ciphertexts, NEW s \in CompactStates, NEW i \in Rows
  PROVE  Compact(s, i) \in CompactStates
<1> DEFINE K == {<< >>} \cup (Rows \X {0, 1})
           W == {"garbage"} \cup {X[j] : j \in Rows}
           B == [key : K, m : W]
           m == Decrypt(s.vec_result[i].key, inbox["R"]["vec_outer_c"][i])
           b == [key |-> << >>, m |-> m]
<1>1. CASE SelectionBits[i] # 1
  BY <1>1 DEF Compact
<1>2. CASE SelectionBits[i] = 1
  <2>1. m \in W
    <3>1. Ciphertexts[i].m = X[i]
      BY DEF Ciphertexts, Encrypt
    <3>2. m = X[i] \/ m = "garbage"
      BY <3>1 DEF Decrypt
    <3>3. QED
      BY <3>2
  <2>2. << >> \in K
    OBVIOUS
  <2> HIDE DEF m, K, W
  <2>3. b \in B
    BY <2>1, <2>2
  <2>4. s.selected_num \in Nat /\ s.vec_result \in [Rows -> B]
    BY DEF CompactStates, K, W
  <2> HIDE DEF b, B
  <2>5. [s.vec_result EXCEPT ![s.selected_num + 1] = b] \in [Rows -> B]
    BY <2>3, <2>4
  <2>6. s.selected_num + 1 \in Nat
    BY <2>4
  <2>7. Compact(s, i) = [selected_num |-> s.selected_num + 1,
                         vec_result |-> [s.vec_result EXCEPT ![s.selected_num + 1] = b]]
    BY <1>2 DEF Compact, b, m
  <2>8. CompactStates = [selected_num : Nat, vec_result : [Rows -> B]]
    BY DEF CompactStates, B, K, W
  <2>9. QED
    BY <2>5, <2>6, <2>7, <2>8
<1>3. QED
  BY <1>1, <1>2

\* The rows are taken one after the other: the fold as a run.
LEMMA CompactRun ==
  ASSUME inbox["R"]["vec_outer_c"] = Ciphertexts, Uncompacted \in CompactStates, NEW n \in Nat, Rows = 1..n
  PROVE  \E g : /\ g \in [0..n -> CompactStates] /\ g[0] = Uncompacted
                /\ \A i \in 1..n : g[i] = Compact(g[i - 1], i)
                /\ FoldLeft(Compact, Uncompacted, [i \in Rows |-> i]) = g[n]
<1> DEFINE q == [i \in Rows |-> i]
           W == CompactStates
           s == Uncompacted
           Is(f) == f = [U \in SUBSET (1..n) |-> IF U = {} THEN s ELSE LET x == Max(U) IN Compact(f[U \ {x}], q[x])]
           step == [p \in (1..n) \X W |-> Compact(p[2], p[1])]
<1>1. DOMAIN q = 1..n /\ \A i \in 1..n : q[i] = i
  OBVIOUS
<1>2. \A i \in 1..n : \A v \in W : step[<<i, v>>] = Compact(v, i) /\ Compact(v, i) \in W
  BY CompactTyped
<1>d. q = [i \in Rows |-> i] /\ s = Uncompacted /\ s \in W
  OBVIOUS
<1> HIDE DEF step, W, q, s
<1>3. PICK h \in [SUBSET (1..n) -> W] :
        /\ h[{}] = s
        /\ \A U \in SUBSET (1..n) : U # {} => h[U] = step[<<Max(U), h[U \ {Max(U)}]>>]
  <2>1. \A i \in 1..n : \A v \in W : step[<<i, v>>] \in W
    BY <1>2
  <2>2. PICK h : IsRun(n, W, s, step, h)
    BY <1>d, <2>1, RunExists
  <2>3. QED
    BY <2>2 DEF IsRun
<1>4. Is(h)
  <2>1. ASSUME NEW U \in SUBSET (1..n), U # {}
        PROVE  h[U] = Compact(h[U \ {Max(U)}], q[Max(U)])
    <3>1. Max(U) \in 1..n /\ h[U \ {Max(U)}] \in W
      BY <1>3, <2>1, MaxPicks
    <3>2. QED
      BY <1>1, <1>2, <1>3, <2>1, <3>1
  <2>2. QED
    BY <1>3, <2>1
<1>5. FoldLeft(Compact, s, q) = (CHOOSE f : Is(f))[1..n]
  BY <1>1 DEF FoldLeft, MapThenFoldSet
<1>6. PICK k : Is(k) /\ FoldLeft(Compact, s, q) = k[1..n]
  <2>1. Is(CHOOSE f : Is(f))
    <3> HIDE DEF Is
    <3> QED BY <1>4
  <2> HIDE DEF Is
  <2>2. QED
    BY <1>5, <2>1
<1> DEFINE g == [i \in 0..n |-> k[1..i]]
<1>7. g[0] = s
  BY <1>6
<1>8. ASSUME NEW i \in 1..n
      PROVE  g[i] = Compact(g[i - 1], i)
  <2>1. 1..i \in SUBSET (1..n) /\ 1..i # {}
    <3>1. 1..i \subseteq 1..n /\ 1 \in 1..i
      OBVIOUS
    <3>2. QED
      BY <3>1
  <2>2. k[1..i] = Compact(k[(1..i) \ {Max(1..i)}], q[Max(1..i)])
    BY <1>6, <2>1
  <2>3. Max(1..i) = i /\ (1..i) \ {i} = 1..i - 1
    BY PrefixMax, i \in Nat, i # 0
  <2>4. g[i] = k[1..i] /\ g[i - 1] = k[1..i - 1] /\ q[i] = i
    BY <1>1
  <2>5. QED
    BY <2>2, <2>3, <2>4
<1>11. FoldLeft(Compact, s, q) = g[n]
  BY <1>6
<1>12. g = [i \in 0..n |-> g[i]]
  OBVIOUS
<1> HIDE DEF g
<1>9. \A i \in 0..n : g[i] \in W
  <2> DEFINE T == {i \in Nat : i <= n => g[i] \in W}
  <2>1. 0 \in T
    BY <1>7, <1>d
  <2>2. ASSUME NEW i \in Nat, i \in T
        PROVE  i + 1 \in T
    <3> SUFFICES ASSUME i + 1 <= n PROVE g[i + 1] \in W
      OBVIOUS
    <3>1. i + 1 \in 1..n /\ (i + 1) - 1 = i
      OBVIOUS
    <3>2. g[i + 1] = Compact(g[i], i + 1) /\ g[i] \in W
      BY <1>8, <2>2, <3>1
    <3>3. QED
      BY <1>2, <3>1, <3>2
  <2>3. Nat \subseteq T
    <3> HIDE DEF T
    <3> QED BY <2>1, <2>2, NatInductionSet
  <2>4. QED
    BY <2>3
<1>10. g \in [0..n -> CompactStates]
  BY <1>9, <1>12 DEF W
<1>13. QED
  BY <1>7, <1>8, <1>10, <1>11, <1>d

\* After i rows, t of them selected: the messages of the selected rows a stand
\* in front, and from row i on every key is still in its place.
CompactedTo(n, m, a, i, t, s) ==
  /\ t \in 0..m /\ t <= i /\ s.selected_num = t
  /\ \A k \in 1..m : a[k] <= i <=> k <= t
  /\ \A k \in 1..t : s.vec_result[k].m = X[a[k]]
  /\ \A j \in i+1..n : s.vec_result[j].key = <<j, SelectionBits[j]>>

\* The moves never overtake the keys still to be read (alsz_ote.cpp 520-539):
\* compacting in place leaves the messages of the selected rows, in order.
LEMMA CompactedTrue ==
  ASSUME param \in Params, inbox["R"]["vec_outer_c"] = [i \in Rows |-> Encrypt(i, 1, X[i])],
         SelectionBits = TrueSelection
  PROVE  OnesidedResult = TrueResult
<1>1. PICK n \in Nat : Rows = 1..n
  BY ParamFacts
<1>2. Selected \in SUBSET (1..n) /\ \A i \in 1..n : i \in Selected <=> SelectionBits[i] = 1
  BY <1>1 DEF Selected
<1>e. PICK m \in Nat : \E a :
        /\ a = Ascending(Selected) /\ a \in [1..m -> 1..n]
        /\ \A i, j \in 1..m : i < j => a[i] < a[j]
        /\ \A i \in 1..n : SelectionBits[i] = 1 <=> \E k \in 1..m : a[k] = i
  <2>1. PICK m \in Nat : /\ Ascending(Selected) \in [1..m -> Selected]
                         /\ \A i, j \in 1..m : i < j => Ascending(Selected)[i] < Ascending(Selected)[j]
                         /\ \A x \in Selected : \E i \in 1..m : Ascending(Selected)[i] = x
    BY <1>2, AscendingProperties
  <2>2. PICK a \in [1..m -> Selected] : a = Ascending(Selected)
    BY <2>1
  <2>3. a \in [1..m -> 1..n] /\ \A k \in 1..m : a[k] \in Selected
    BY <1>2, <2>2
  <2>4. \A i \in 1..n : SelectionBits[i] = 1 <=> \E k \in 1..m : a[k] = i
    BY <1>2, <2>1, <2>2, <2>3
  <2>5. \A i, j \in 1..m : i < j => a[i] < a[j]
    BY <2>1, <2>2
  <2>6. QED
    BY <2>2, <2>3, <2>4, <2>5
<1>3. PICK a :
        /\ a = Ascending(Selected) /\ a \in [1..m -> 1..n]
        /\ \A i, j \in 1..m : i < j => a[i] < a[j]
        /\ \A i \in 1..n : SelectionBits[i] = 1 <=> \E k \in 1..m : a[k] = i
  BY <1>e
<1>4. inbox["R"]["vec_outer_c"] = Ciphertexts
  BY DEF Ciphertexts
<1>5. Uncompacted \in CompactStates /\ \A i \in 1..n : SelectionBits[i] \in {0, 1}
  <2>1. \A i \in Rows : TrueSelection[i] \in {0, 1}
    BY DEF TrueSelection, TrueBits
  <2>2. QED
    BY <1>1, <2>1 DEF Uncompacted, CompactStates
<1>6. PICK g : /\ g \in [0..n -> CompactStates] /\ g[0] = Uncompacted
               /\ \A i \in 1..n : g[i] = Compact(g[i - 1], i)
               /\ FoldLeft(Compact, Uncompacted, [i \in Rows |-> i]) = g[n]
  BY <1>1, <1>4, <1>5, CompactRun
<1> DEFINE T == {i \in Nat : i <= n => \E t \in Nat : CompactedTo(n, m, a, i, t, g[i])}
<1>7. 0 \in T
  <2>1. g[0].selected_num = 0 /\ \A j \in 1..n : g[0].vec_result[j].key = <<j, SelectionBits[j]>>
    BY <1>1, <1>6 DEF Uncompacted
  <2>2. \A k \in 1..m : ~(a[k] <= 0) /\ ~(k <= 0)
    BY <1>3
  <2>3. CompactedTo(n, m, a, 0, 0, g[0])
    BY <2>1, <2>2 DEF CompactedTo
  <2>4. QED
    BY <2>3
<1>8. ASSUME NEW i \in Nat, i \in T
      PROVE  i + 1 \in T
  <2> SUFFICES ASSUME i + 1 <= n
               PROVE  \E t \in Nat : CompactedTo(n, m, a, i + 1, t, g[i + 1])
    OBVIOUS
  <2>1. i + 1 \in 1..n /\ i \in 0..n /\ (i + 1) - 1 = i
    OBVIOUS
  <2>2. PICK t \in Nat : CompactedTo(n, m, a, i, t, g[i])
    BY <1>8, <2>1
  <2>3. PICK s \in CompactStates : s = g[i] /\ g[i + 1] = Compact(s, i + 1)
    BY <1>6, <2>1
  <2>4. CASE SelectionBits[i + 1] # 1
    <3>1. g[i + 1] = s
      BY <2>3, <2>4 DEF Compact
    <3>2. \A k \in 1..m : a[k] # i + 1
      BY <1>3, <2>1, <2>4
    <3>3. \A k \in 1..m : a[k] \in 1..n /\ (a[k] <= i + 1 <=> k <= t)
      BY <1>3, <2>2, <3>2 DEF CompactedTo
    <3>4. CompactedTo(n, m, a, i + 1, t, s)
      BY <2>2, <2>3, <3>3 DEF CompactedTo
    <3>5. QED
      BY <3>1, <3>4
  <2>5. CASE SelectionBits[i + 1] = 1
    <3>1. PICK k \in 1..m : a[k] = i + 1
      BY <1>3, <2>1, <2>5
    <3>2. k = t + 1
      <4>1. ~(k <= t)
        BY <2>2, <3>1 DEF CompactedTo
      <4>2. ASSUME k > t + 1
            PROVE  FALSE
        <5>1. t + 1 \in 1..m /\ t + 1 < k
          BY <4>2
        <5>2. a[t + 1] < a[k] /\ a[t + 1] \in 1..n
          BY <1>3, <5>1
        <5>3. a[t + 1] <= i
          BY <3>1, <5>2
        <5>4. QED
          BY <2>2, <5>1, <5>3 DEF CompactedTo
      <4>3. QED
        BY <4>1, <4>2
    <3>3. \A j \in 1..m : a[j] <= i + 1 <=> j <= t + 1
      <4> TAKE j \in 1..m
      <4>1. a[j] \in 1..n
        BY <1>3
      <4>2. CASE j <= t
        BY <2>2, <4>1, <4>2 DEF CompactedTo
      <4>3. CASE j = t + 1
        BY <3>1, <3>2, <4>3
      <4>4. CASE j > t + 1
        <5>1. a[t + 1] < a[j] /\ a[t + 1] = i + 1
          BY <1>3, <3>1, <3>2, <4>4
        <5>2. QED
          BY <4>1, <4>4, <5>1
      <4>5. QED
        BY <4>2, <4>3, <4>4
    <3>4. s.selected_num = t /\ t + 1 \in 1..m /\ t + 1 <= i + 1 /\ t + 1 \in 1..n
      BY <2>1, <2>2, <2>3, <3>2 DEF CompactedTo
    <3>5. DOMAIN s.vec_result = 1..n
      BY <1>1 DEF CompactStates
    <3>6. s.vec_result[i + 1].key = <<i + 1, 1>>
      BY <2>1, <2>2, <2>3, <2>5 DEF CompactedTo
    <3>7. Decrypt(s.vec_result[i + 1].key, inbox["R"]["vec_outer_c"][i + 1]) = X[i + 1]
      <4>1. inbox["R"]["vec_outer_c"][i + 1] = Encrypt(i + 1, 1, X[i + 1])
        BY <1>1, <2>1
      <4>2. \A j, x : Encrypt(j, 1, x).key = <<j, 1>> /\ Encrypt(j, 1, x).m = x
        BY DEF Encrypt
      <4>3. QED
        BY <3>6, <4>1, <4>2 DEF Decrypt
    <3>8. PICK new : new = g[i + 1] /\ new.selected_num = t + 1
            /\ new.vec_result = [s.vec_result EXCEPT ![t + 1] = [key |-> << >>, m |-> X[i + 1]]]
      BY <2>3, <2>5, <3>4, <3>7 DEF Compact
    <3>9. new.vec_result[t + 1].m = X[i + 1]
      BY <3>4, <3>5, <3>8
    <3>10. \A j \in 1..n : j # t + 1 => new.vec_result[j] = s.vec_result[j]
      BY <3>5, <3>8
    <3>11. \A j \in 1..t + 1 : new.vec_result[j].m = X[a[j]]
      <4> TAKE j \in 1..t + 1
      <4>1. CASE j = t + 1
        BY <3>1, <3>2, <3>9, <4>1
      <4>2. CASE j # t + 1
        <5>1. j \in 1..t /\ j \in 1..n
          BY <3>4, <4>2
        <5>2. s.vec_result[j].m = X[a[j]]
          BY <2>2, <2>3, <5>1 DEF CompactedTo
        <5>3. QED
          BY <3>10, <4>2, <5>1, <5>2
      <4>3. QED
        BY <4>1, <4>2
    <3>12. \A j \in (i + 1)+1..n : new.vec_result[j].key = <<j, SelectionBits[j]>>
      <4> TAKE j \in (i + 1)+1..n
      <4>1. j \in i+1..n /\ j \in 1..n /\ j # t + 1
        BY <3>4
      <4>2. s.vec_result[j].key = <<j, SelectionBits[j]>>
        BY <2>2, <2>3, <4>1 DEF CompactedTo
      <4>3. QED
        BY <3>10, <4>1, <4>2
    <3>13. CompactedTo(n, m, a, i + 1, t + 1, new)
      BY <3>3, <3>4, <3>8, <3>11, <3>12 DEF CompactedTo
    <3>14. QED
      BY <3>8, <3>13
  <2>6. QED
    BY <2>4, <2>5
<1>9. PICK t \in Nat : CompactedTo(n, m, a, n, t, g[n])
  <2>1. Nat \subseteq T
    <3> HIDE DEF T
    <3> QED BY <1>7, <1>8, NatInductionSet
  <2>2. QED
    BY <2>1
<1>10. t = m
  <2>1. m # 0 => m \in 1..m /\ a[m] <= n
    BY <1>3
  <2>2. QED
    BY <1>9, <2>1 DEF CompactedTo
<1>11. OnesidedResult = [k \in 1..m |-> X[a[k]]]
  <2>1. PICK end : end = g[n] /\ end.selected_num = m /\ \A k \in 1..m : end.vec_result[k].m = X[a[k]]
    BY <1>9, <1>10 DEF CompactedTo
  <2>2. OnesidedResult = [k \in 1..end.selected_num |-> end.vec_result[k].m]
    BY <1>6, <2>1 DEF OnesidedResult
  <2>3. QED
    BY <2>1, <2>2
<1>12. TrueResult = [k \in 1..m |-> X[a[k]]]
  BY <1>3 DEF TrueResult
<1>13. QED
  BY <1>11, <1>12

\* What the receiver returns from its inbox is what the inputs determine.
LEMMA ReceiverOutputTrue ==
  ASSUME PsoInv, todo["R"] = <<>>
  PROVE  ReceiverOutput = TrueReceiverOutput
<1>1. param \in Params /\ Delivers(DataNames, Transcript) /\ "R" \in Party
  BY DEF PsoInv, Party
<1>2. IndicationBits = TrueBits
  BY <1>1, ReceiverHolds, BitsAreTrue
<1>3. CountBits = TrueCount
  BY <1>2 DEF CountBits, TrueCount
<1>4. SelectionBits = TrueSelection
  BY <1>2 DEF SelectionBits, TrueSelection
<1>5. ASSUME param.mode \in {"Intersection", "Union"}
      PROVE  OnesidedResult = TrueResult
  <2>1. inbox["R"]["vec_outer_c"] = [i \in Rows |-> Encrypt(i, 1, X[i])]
    BY <1>1, <1>5, ReceiverHolds, InboxSaid, SaidIs DEF DataNames
  <2>2. QED
    BY <1>1, <1>4, <2>1, CompactedTrue
<1>6. QED
  BY <1>3, <1>5 DEF ReceiverOutput, TrueReceiverOutput

\* So is what the sender returns.
LEMMA SenderOutputTrue ==
  ASSUME PsoInv, todo["S"] = <<>>
  PROVE  SenderOutput = TrueSenderOutput
<1>1. "S" \in Party /\ Delivers(DataNames, Transcript)
  BY DEF Party, PsoInv
<1>2. CASE param.mode = "CardSum"
  <2>1. inbox["S"]["cardinality"] = TrueCount /\ inbox["S"]["masked_sum"] = SumMod(TrueOt)
    BY <1>1, <1>2, SenderHoldsAnswers, InboxSaid, SaidIs DEF DataNames, TrueCount
  <2>2. QED
    BY <1>2, <2>1 DEF SenderOutput, TrueSenderOutput
<1>3. CASE param.mode # "CardSum"
  BY <1>3 DEF SenderOutput, TrueSenderOutput
<1>4. QED
  BY <1>2, <1>3

\* Those outputs depend on the inputs alone.
LEMMA OutputsKept ==
  ASSUME param' = param
  PROVE  TrueReceiverOutput' = TrueReceiverOutput /\ TrueSenderOutput' = TrueSenderOutput
BY DEF TrueReceiverOutput, TrueSenderOutput, TrueResult, TrueCount, Selected, TrueBits, TrueOt,
       TrueSelection, Members, X, Y, Rows, SumMod, FoldSeq, FoldFunction, FoldFunctionOnSet, MapThenFoldSet

\* OutputsTrue is kept by every step, ...
LEMMA OutputsStep == PsoInv /\ OutputsTrue /\ [Next]_vars => OutputsTrue'
<1> SUFFICES ASSUME PsoInv, OutputsTrue, [Next]_vars PROVE OutputsTrue'
  OBVIOUS
<1>1. param' = param /\ TrueReceiverOutput' = TrueReceiverOutput /\ TrueSenderOutput' = TrueSenderOutput
  BY NextIsSessionStep, OutputsKept
<1>2. status = [p \in Party |-> status[p]] /\ "S" \in Party /\ "R" \in Party
  BY DEF PsoInv, SessionOK, Party
<1>3. ASSUME status'["R"] = "returned" <=> status["R"] = "returned",
             status'["S"] = "returned" <=> status["S"] = "returned",
             UNCHANGED <<sOutput, rOutput>>
      PROVE  OutputsTrue'
  BY <1>1, <1>3 DEF OutputsTrue
<1>4. CASE \E p \in Party : Step(p)
  <2>1. PICK p \in Party : Step(p)
    BY <1>4
  <2>2. \A q \in Party : status'[q] = "returned" <=> status[q] = "returned"
    <3>1. CASE status' = status
      BY <3>1
    <3>2. CASE Recv(p)
      <4>1. status' = status
        BY <3>2, ReaderIsBehind DEF Recv, PsoInv
      <4>2. QED
        BY <4>1
    <3>3. QED
      BY <2>1, <3>1, <3>2 DEF Step, Send
  <2>3. QED
    BY <1>2, <1>3, <2>1, <2>2 DEF Step
<1>5. CASE \E p \in Party : Throws(p) \/ Breaks(p)
  <2>1. PICK p \in Party : Throws(p) \/ Breaks(p)
    BY <1>5
  <2>2. \A q \in Party : status'[q] = "returned" <=> status[q] = "returned"
    BY <1>2, <2>1 DEF Throws, Breaks, PeerClosed, NetworkBreaks
  <2>3. QED
    BY <1>2, <1>3, <2>1, <2>2 DEF Throws, Breaks
<1>6. CASE SenderReturns
  <2>1. status'["S"] = "returned" /\ status'["R"] = status["R"] /\ status["S"] # "returned"
    BY <1>2, <1>6 DEF SenderReturns, Return
  <2>2. sOutput' = TrueSenderOutput
    BY <1>6, SenderOutputTrue DEF SenderReturns, Return
  <2>3. rOutput' = rOutput
    BY <1>6 DEF SenderReturns
  <2>4. QED
    BY <1>1, <2>1, <2>2, <2>3 DEF OutputsTrue
<1>7. CASE ReceiverReturns
  <2>1. status'["R"] = "returned" /\ status'["S"] = status["S"] /\ status["R"] # "returned"
    BY <1>2, <1>7 DEF ReceiverReturns, Return
  <2>2. rOutput' = TrueReceiverOutput
    BY <1>7, ReceiverOutputTrue DEF ReceiverReturns, Return
  <2>3. sOutput' = sOutput
    BY <1>7 DEF ReceiverReturns
  <2>4. QED
    BY <1>1, <2>1, <2>2, <2>3 DEF OutputsTrue
<1>8. CASE UNCHANGED vars
  BY <1>3, <1>8 DEF vars, session
<1>9. QED
  BY <1>4, <1>5, <1>6, <1>7, <1>8 DEF Next, Progress, Finished

\* ... holds at the start, ...
LEMMA InitOutputs == Init => OutputsTrue
BY DEF Init, Start, OutputsTrue, Party

\* ... and hence always.
LEMMA AlwaysOutputs == Spec => [](PsoInv /\ OutputsTrue)
BY InitPsoInv, PsoInvStep, InitOutputs, OutputsStep, PTL DEF Spec

\* In every mode and for all inputs, a set result lists items without
\* repetition in the order of the inputs.
THEOREM PsoOrderedResult == Spec => []OrderedResult
<1>1. PsoInv /\ OutputsTrue => OrderedResult
  <2> SUFFICES ASSUME PsoInv, OutputsTrue, status["R"] = "returned"
               PROVE  LET s == rOutput.set_result
                          source == IF param.mode = "Union" THEN Y \o X ELSE X
                      IN  /\ IsInjective(s)
                          /\ \E f \in [DOMAIN s -> DOMAIN source] :
                               \A i, j \in DOMAIN s : s[i] = source[f[i]] /\ (i < j => f[i] < f[j])
    BY DEF OrderedResult
  <2>1. param \in Params
    BY DEF PsoInv
  <2>2. rOutput = TrueReceiverOutput
    BY DEF OutputsTrue
  <2>3. PICK n \in Nat : n = Len(X) /\ Rows = 1..n /\ DOMAIN X = 1..n
    BY <2>1, ParamFacts
  <2>4. X \in Seq(Items) /\ Y \in Seq(Items)
    BY <2>1, ParamFacts
  <2>5. \A i, j \in 1..n : X[i] = X[j] => i = j
    BY <2>1, <2>3, ParamFacts
  <2>6. PICK m \in Nat :
          /\ Ascending(Selected) \in [1..m -> Selected]
          /\ \A i, j \in 1..m : i < j => Ascending(Selected)[i] < Ascending(Selected)[j]
    <3>1. Selected \in SUBSET (1..n)
      BY <2>3 DEF Selected
    <3>2. QED
      BY <3>1, AscendingProperties
  <2>7. PICK a \in [1..m -> Selected] :
          a = Ascending(Selected) /\ \A i, j \in 1..m : i < j => a[i] < a[j]
    BY <2>6
  <2>8. TrueResult = [k \in 1..m |-> X[a[k]]]
    BY <2>7 DEF TrueResult
  <2>9. \A k \in 1..m : a[k] \in 1..n /\ TrueSelection[a[k]] = 1
    BY <2>3, <2>7 DEF Selected
  <2>10. \A i, j \in 1..m : a[i] = a[j] => i = j
    <3> SUFFICES ASSUME NEW i \in 1..m, NEW j \in 1..m, a[i] = a[j]
                 PROVE  i = j
      OBVIOUS
    <3>1. a[i] \in Int /\ a[j] \in Int
      BY <2>9
    <3>2. ~(i < j) /\ ~(j < i)
      BY <2>7, <3>1
    <3>3. QED
      BY <3>2
  <2>11. CASE param.mode = "Intersection"
    <3>1. rOutput.set_result = [k \in 1..m |-> X[a[k]]]
      BY <2>2, <2>8, <2>11 DEF TrueReceiverOutput
    <3> DEFINE s == [k \in 1..m |-> X[a[k]]]
    <3>2. IsInjective(s)
      BY <2>5, <2>9, <2>10 DEF IsInjective
    <3>3. a \in [DOMAIN s -> DOMAIN X]
      BY <2>3, <2>7, <2>9
    <3>4. \A i, j \in DOMAIN s : s[i] = X[a[i]] /\ (i < j => a[i] < a[j])
      BY <2>7
    <3>5. QED
      BY <2>11, <3>1, <3>2, <3>3, <3>4
  <2>12. CASE param.mode = "Union"
    <3>1. PICK l \in Nat : l = Len(Y) /\ DOMAIN Y = 1..l
      BY <2>4
    <3>2. TrueResult \in Seq(Items) /\ Len(TrueResult) = m
      <4>1. \A k \in 1..m : X[a[k]] \in Items
        BY <2>3, <2>4, <2>9
      <4>2. TrueResult \in [1..m -> Items]
        BY <2>8, <4>1
      <4>3. QED
        BY <4>2
    <3> DEFINE s == Y \o TrueResult
               source == Y \o X
               f == [k \in 1..l + m |-> IF k <= l THEN k ELSE l + a[k - l]]
    <3>3. /\ Len(s) = l + m /\ DOMAIN s = 1..l + m
          /\ \A k \in 1..l + m : s[k] = IF k <= l THEN Y[k] ELSE TrueResult[k - l]
      <4>1. s \in Seq(Items) /\ Len(s) = Len(Y) + Len(TrueResult)
            /\ \A k \in 1..Len(Y) + Len(TrueResult) :
                 s[k] = IF k <= Len(Y) THEN Y[k] ELSE TrueResult[k - Len(Y)]
        BY <2>4, <3>2, ConcatProperties
      <4> HIDE DEF s
      <4>2. Len(s) = l + m /\ DOMAIN s = 1..Len(s)
        BY <3>1, <3>2, <4>1
      <4>3. QED
        BY <3>1, <3>2, <4>1, <4>2
    <3>4. /\ DOMAIN source = 1..l + n
          /\ \A k \in 1..l + n : source[k] = IF k <= l THEN Y[k] ELSE X[k - l]
      <4>1. source \in Seq(Items) /\ Len(source) = Len(Y) + Len(X)
            /\ \A k \in 1..Len(Y) + Len(X) :
                 source[k] = IF k <= Len(Y) THEN Y[k] ELSE X[k - Len(Y)]
        BY <2>4, ConcatProperties
      <4> HIDE DEF source
      <4>2. Len(source) = l + n /\ DOMAIN source = 1..Len(source)
        BY <2>3, <3>1, <4>1
      <4>3. QED
        BY <2>3, <3>1, <4>1, <4>2
    <3>5. \A k \in 1..m, j \in 1..l : X[a[k]] # Y[j]
      <4>1. TAKE k \in 1..m, j \in 1..l
      <4>2. X[a[k]] \notin Members
        <5>1. PICK i \in Rows : i = a[k] /\ TrueSelection[i] = 1
          BY <2>3, <2>9
        <5>2. TrueSelection[i] = 1 - TrueBits[i]
          BY <2>12 DEF TrueSelection
        <5>3. X[i] \in Members => TrueBits[i] = 1
          BY DEF TrueBits
        <5>4. QED
          BY <5>1, <5>2, <5>3
      <4>3. Y[j] \in Members
        BY <3>1 DEF Members, ToSet
      <4>4. QED
        BY <4>2, <4>3
    <3>6. rOutput.set_result = s
      BY <2>2, <2>12 DEF TrueReceiverOutput
    <3>7. \A k \in 1..m : TrueResult[k] = X[a[k]]
      BY <2>8
    <3>8. \A i, j \in 1..l : Y[i] = Y[j] => i = j
      BY <2>1, <3>1, ParamFacts
    <3>9. IsInjective(s)
      <4> SUFFICES ASSUME NEW i \in 1..l + m, NEW j \in 1..l + m, s[i] = s[j]
                   PROVE  i = j
        BY <3>3 DEF IsInjective
      <4> HIDE DEF s
      <4>1. CASE i <= l /\ j <= l
        <5>1. i \in 1..l /\ j \in 1..l
          BY <4>1
        <5>2. QED
          BY <3>3, <3>8, <4>1, <5>1
      <4>2. CASE i <= l /\ ~(j <= l)
        <5>1. i \in 1..l /\ j - l \in 1..m
          BY <4>2
        <5>2. QED
          BY <3>3, <3>5, <3>7, <4>2, <5>1
      <4>3. CASE ~(i <= l) /\ j <= l
        <5>1. j \in 1..l /\ i - l \in 1..m
          BY <4>3
        <5>2. QED
          BY <3>3, <3>5, <3>7, <4>3, <5>1
      <4>4. CASE ~(i <= l) /\ ~(j <= l)
        <5>1. i - l \in 1..m /\ j - l \in 1..m
          BY <4>4
        <5>2. X[a[i - l]] = X[a[j - l]]
          BY <3>3, <3>7, <4>4, <5>1
        <5>3. i - l = j - l
          BY <2>5, <2>9, <2>10, <5>1, <5>2
        <5>4. QED
          BY <5>3
      <4>5. QED
        BY <4>1, <4>2, <4>3, <4>4
    <3>10. \A k \in 1..l + m : f[k] \in 1..l + n /\ s[k] = source[f[k]]
      <4> TAKE k \in 1..l + m
      <4> HIDE DEF s, source
      <4>1. CASE k <= l
        <5>1. f[k] = k /\ k \in 1..l + n
          BY <4>1
        <5> HIDE DEF f
        <5>2. QED
          BY <3>3, <3>4, <4>1, <5>1
      <4>2. CASE ~(k <= l)
        <5>1. k - l \in 1..m /\ f[k] = l + a[k - l]
          BY <4>2
        <5>2. PICK x \in 1..n : x = a[k - l]
          BY <2>9, <5>1
        <5>3. l + x \in 1..l + n /\ ~(l + x <= l) /\ (l + x) - l = x
          BY <5>2
        <5> HIDE DEF f
        <5>4. source[l + x] = X[x]
          BY <3>4, <5>3
        <5>5. s[k] = X[x]
          BY <3>3, <3>7, <4>2, <5>1, <5>2
        <5>6. QED
          BY <5>1, <5>2, <5>3, <5>4, <5>5
      <4>3. QED
        BY <4>1, <4>2
    <3>11. \A i, j \in 1..l + m : i < j => f[i] < f[j]
      <4> SUFFICES ASSUME NEW i \in 1..l + m, NEW j \in 1..l + m, i < j
                   PROVE  f[i] < f[j]
        OBVIOUS
      <4>1. CASE j <= l
        BY <4>1
      <4>2. CASE ~(j <= l)
        <5>1. j - l \in 1..m /\ f[j] = l + a[j - l]
          BY <4>2
        <5>2. a[j - l] \in 1..n
          BY <2>9, <5>1
        <5>3. CASE i <= l
          BY <5>1, <5>2, <5>3
        <5>4. CASE ~(i <= l)
          <6>1. i - l \in 1..m /\ f[i] = l + a[i - l] /\ i - l < j - l
            BY <5>4
          <6>2. a[i - l] \in 1..n /\ a[i - l] < a[j - l]
            BY <2>7, <2>9, <5>1, <6>1
          <6>3. QED
            BY <5>1, <5>2, <6>1, <6>2
        <5>5. QED
          BY <5>3, <5>4
      <4>3. QED
        BY <4>1, <4>2
    <3>12. f \in [DOMAIN s -> DOMAIN source]
      <4>1. f \in [1..l + m -> 1..l + n]
        BY <3>10
      <4> HIDE DEF f, s, source
      <4>2. QED
        BY <3>3, <3>4, <4>1
    <3>13. \A i, j \in DOMAIN s : s[i] = source[f[i]] /\ (i < j => f[i] < f[j])
      <4> HIDE DEF f, s, source
      <4>1. QED
        BY <3>3, <3>10, <3>11
    <3> HIDE DEF f
    <3>14. QED
      BY <2>12, <3>6, <3>9, <3>12, <3>13
  <2>13. CASE param.mode \notin {"Intersection", "Union"}
    <3>1. rOutput.set_result = << >>
      BY <2>2, <2>13 DEF TrueReceiverOutput
    <3>2. DOMAIN << >> = {} /\ << >> \in [{} -> DOMAIN X]
      OBVIOUS
    <3>3. QED
      BY <2>13, <3>1, <3>2 DEF IsInjective
  <2>14. QED
    BY <2>11, <2>12, <2>13
<1>2. QED
  BY <1>1, AlwaysOutputs, PTL
-----------------------------------------------------------------------------
FoundRows == {i \in Rows : TrueBits[i] = 1}

\* The items of the rows with a true bit are the members found.
LEMMA FoundItems ==
  ASSUME param \in Params
  PROVE  /\ {X[i] : i \in FoundRows} = Ideal!Found
         /\ {X[i] : i \in Rows \ FoundRows} = ToSet(X) \ Ideal!Found
         /\ FoundRows \subseteq Rows
<1>1. ToSet(X) = {X[i] : i \in Rows}
  BY IndexedItems
<1>2. \A i \in Rows : i \in FoundRows <=> X[i] \in Members
  BY DEF FoundRows, TrueBits
<1>3. Ideal!Found = ToSet(X) \cap Members
  BY DEF Ideal!Found, Members
<1>4. FoundRows \subseteq Rows
  BY DEF FoundRows
<1>5. QED
  BY <1>1, <1>2, <1>3, <1>4

\* The set result lists exactly the items of the selected rows.
LEMMA ResultItems ==
  ASSUME param \in Params
  PROVE  ToSet(TrueResult) = {X[i] : i \in Selected}
<1>1. PICK n \in Nat : Rows = 1..n
  BY ParamFacts
<1>2. Selected \in SUBSET (1..n)
  BY <1>1 DEF Selected
<1>3. PICK m \in Nat : /\ Ascending(Selected) \in [1..m -> Selected]
                       /\ \A x \in Selected : \E i \in 1..m : Ascending(Selected)[i] = x
  BY <1>2, AscendingProperties
<1>4. PICK a \in [1..m -> Selected] : a = Ascending(Selected) /\ \A x \in Selected : \E i \in 1..m : a[i] = x
  BY <1>3
<1>5. TrueResult = [k \in 1..m |-> X[a[k]]]
  BY <1>4 DEF TrueResult
<1>6. ToSet(TrueResult) = {X[a[k]] : k \in 1..m}
  BY <1>5 DEF ToSet
<1>7. QED
  BY <1>4, <1>6

\* Which rows are selected, by mode.
LEMMA SelectedRows ==
  /\ param.mode = "Union" => Selected = Rows \ FoundRows
  /\ param.mode # "Union" => Selected = FoundRows
<1>1. \A i \in Rows : TrueBits[i] \in {0, 1}
  BY DEF TrueBits
<1>2. \A i \in Rows : TrueSelection[i] = IF param.mode = "Union" THEN 1 - TrueBits[i] ELSE TrueBits[i]
  BY DEF TrueSelection
<1>3. \A i \in Rows : /\ param.mode = "Union" => (TrueSelection[i] = 1 <=> TrueBits[i] # 1)
                      /\ param.mode # "Union" => (TrueSelection[i] = 1 <=> TrueBits[i] = 1)
  BY <1>1, <1>2
<1>4. QED
  BY <1>3 DEF Selected, FoundRows

\* The bits counted are the members found.
LEMMA FoundCount ==
  ASSUME param \in Params
  PROVE  TrueCount = Cardinality(Ideal!Found)
<1>1. PICK n \in Nat : Rows = 1..n
  BY ParamFacts
<1>2. IsFiniteSet(Rows) /\ IsFiniteSet(FoundRows)
  BY <1>1, FS_Interval, FS_Subset, FoundItems
<1>3. DOMAIN TrueBits = Rows
  BY DEF TrueBits
<1>4. TrueCount = SumOver(TrueBits, Rows)
  BY <1>3 DEF TrueCount, FoldSeq, FoldFunction, FoldFunctionOnSet, MapThenFoldSet, SumOver, MapThenSumSet
<1>5. \A i \in Rows : TrueBits[i] = IF i \in FoundRows THEN 1 ELSE 0
  BY DEF TrueBits, FoundRows
<1>6. SumOver(TrueBits, Rows) = Cardinality(Rows \cap FoundRows)
  BY <1>2, <1>5, SumOfBits
<1>7. Rows \cap FoundRows = FoundRows
  BY DEF FoundRows
<1>8. \A i, j \in FoundRows : X[i] = X[j] => i = j
  BY ParamFacts DEF FoundRows
<1>9. Cardinality({X[i] : i \in FoundRows}) = Cardinality(FoundRows)
  BY <1>2, <1>8, FiniteImage
<1>10. QED
  BY <1>4, <1>6, <1>7, <1>9, FoundItems

\* The sum of the values of the items found fits the ring: it never wraps.
LEMMA SumFits ==
  ASSUME param \in Params
  PROVE  SumOver(param.v, FoundRows) < Modulus
<1>1. PICK n \in Nat : /\ Rows = 1..n /\ param.v \in [1..n -> Values]
                       /\ \A v \in Values : n * (v + 1) <= Modulus
  BY ParamFacts
<1>2. /\ Modulus \in Nat \ {0} /\ Values \subseteq Ring /\ Ring \subseteq Nat
  BY SumBoundAssumption DEF Ring
<1>3. IsFiniteSet(Rows) /\ IsFiniteSet(FoundRows) /\ Cardinality(Rows) = n
  BY <1>1, FS_Interval, FS_Subset, FoundItems
<1>4. CASE n = 0
  <2>1. FoundRows = {}
    BY <1>1, <1>4 DEF FoundRows
  <2>2. QED
    BY <1>2, <2>1, SumEmpty
<1>5. CASE n # 0
  <2>1. \A x \in Rows : param.v[x] \in Nat
    BY <1>1, <1>2
  <2>2. Rows # {}
    BY <1>1, <1>5
  <2>3. PICK top \in Rows : \A y \in Rows : param.v[y] <= param.v[top]
    BY <1>3, <2>1, <2>2, Greatest
  <2>4. PICK b \in Nat : b = param.v[top] /\ n * (b + 1) <= Modulus
    BY <1>1, <2>1, <2>3
  <2> DEFINE f == [x \in Rows |-> IF x \in FoundRows THEN param.v[x] ELSE 0]
  <2>5. \A x \in Rows : f[x] = IF x \in FoundRows THEN param.v[x] ELSE 0
    OBVIOUS
  <2>6. \A x \in Rows : f[x] \in 0..b
    <3> TAKE x \in Rows
    <3>1. param.v[x] \in Nat /\ param.v[x] <= b
      BY <2>1, <2>3, <2>4
    <3>2. QED
      BY <3>1
  <2>7. Rows \cap FoundRows = FoundRows
    BY DEF FoundRows
  <2> HIDE DEF f
  <2>8. SumOver(f, Rows) = SumOver(param.v, FoundRows)
    BY <1>3, <2>1, <2>5, <2>7, SumSelected
  <2>9. SumOver(f, Rows) <= Cardinality(Rows) * b
    BY <1>3, <2>6, SumBounded
  <2>10. SumOver(param.v, FoundRows) \in Nat
    <3>1. \A x \in FoundRows : param.v[x] \in Nat
      BY <2>1, FoundItems
    <3>2. QED
      BY <1>3, <3>1, SumTake
  <2>11. PICK s \in Nat, k \in Int : /\ s = SumOver(param.v, FoundRows) /\ k = n * b
                                     /\ s <= k
    BY <1>3, <2>8, <2>9, <2>10
  <2>12. n * (b + 1) = n * b + n
    BY <2>4
  <2>13. k + n <= Modulus
    BY <2>4, <2>11, <2>12
  <2>14. QED
    BY <1>2, <1>5, <2>11, <2>13
<1>6. QED
  BY <1>4, <1>5

\* The value of the item of a row is the row's value.
LEMMA ValueOfRow ==
  ASSUME param \in Params, NEW i \in Rows
  PROVE  ItemValue[X[i]] = param.v[i]
<1>1. X[i] \in ToSet(X)
  BY IndexedItems
<1>2. \A j \in Rows : X[j] = X[i] => j = i
  BY ParamFacts
<1>3. (CHOOSE j \in Rows : X[j] = X[i]) = i
  BY <1>2
<1>4. QED
  BY <1>1, <1>3 DEF ItemValue

\* The masks off, the masked sum is the sum of the values of the items found.
LEMMA FoundSum ==
  ASSUME param \in Params, param.mode = "CardSum"
  PROVE  (SumMod(TrueOt) + Modulus - SumMod(param.r)) % Modulus = SumOver(ItemValue, Ideal!Found)
<1>1. PICK n \in Nat : Rows = 1..n /\ param.v \in [1..n -> Values] /\ param.r \in [1..n -> Ring]
  BY ParamFacts
<1>2. Modulus \in Nat \ {0} /\ Values \subseteq Ring /\ Ring \subseteq Nat
  BY SumBoundAssumption DEF Ring
<1>3. IsFiniteSet(Rows) /\ IsFiniteSet(FoundRows) /\ FoundRows \subseteq Rows
  BY <1>1, FS_Interval, FS_Subset, FoundItems
<1>4. \A x \in Rows : param.v[x] \in Nat /\ param.r[x] \in Nat
  BY <1>1, <1>2
<1>5. \A x \in Rows : TrueOt[x] = IF x \in FoundRows THEN (param.v[x] + param.r[x]) % Modulus
                                                     ELSE param.r[x]
  <2> TAKE x \in Rows
  <2>1. TrueOt[x] = IF TrueSelection[x] = 0 THEN param.r[x] ELSE (param.v[x] + param.r[x]) % Modulus
    BY DEF TrueOt
  <2>2. TrueSelection[x] = TrueBits[x] /\ TrueBits[x] \in {0, 1}
    BY DEF TrueSelection, TrueBits
  <2>3. TrueSelection[x] = 0 <=> x \notin FoundRows
    BY <2>2 DEF FoundRows
  <2>4. QED
    BY <2>1, <2>3
<1>6. MaskedBy(Modulus, Rows, FoundRows, param.v, param.r, TrueOt)
  BY <1>4, <1>5 DEF MaskedBy
<1>7. DOMAIN TrueOt = Rows /\ DOMAIN param.r = Rows
  BY <1>1 DEF TrueOt
<1>8. /\ SumMod(TrueOt) = SumModOver(Modulus, TrueOt, Rows)
      /\ SumMod(param.r) = SumModOver(Modulus, param.r, Rows)
  BY <1>7 DEF SumMod, SumModOver, FoldSeq, FoldFunction, FoldFunctionOnSet, MapThenFoldSet
<1>9. Rows \cap FoundRows = FoundRows
  BY <1>3
<1>10. SumOver(param.v, Rows \cap FoundRows) < Modulus
  BY <1>9, SumFits
<1>11. (SumModOver(Modulus, TrueOt, Rows) + Modulus - SumModOver(Modulus, param.r, Rows)) % Modulus
         = SumOver(param.v, FoundRows)
  <2>1. PICK M, S, A, v, r, ot : /\ M = Modulus /\ S = Rows /\ A = FoundRows
                                 /\ v = param.v /\ r = param.r /\ ot = TrueOt
    OBVIOUS
  <2>2. M \in Nat \ {0} /\ IsFiniteSet(S) /\ MaskedBy(M, S, A, v, r, ot) /\ SumOver(v, S \cap A) < M
    BY <1>2, <1>3, <1>6, <1>10, <2>1
  <2>3. (SumModOver(M, ot, S) + M - SumModOver(M, r, S)) % M = SumOver(v, S \cap A)
    BY <2>2, Unmasked
  <2>4. QED
    BY <1>9, <2>1, <2>3
<1>12. \A i, j \in FoundRows : X[i] = X[j] => i = j
  BY <1>3, ParamFacts
<1>13. \A i \in FoundRows : param.v[i] \in Nat /\ param.v[i] = ItemValue[X[i]]
  BY <1>3, <1>4, ValueOfRow
<1>14. SumOver(param.v, FoundRows) = SumOver(ItemValue, {X[i] : i \in FoundRows})
  BY <1>3, <1>12, <1>13, SumRename
<1>15. QED
  BY <1>8, <1>11, <1>14, FoundItems

\* The ideal's own instances of the library's operators are the operators.
LEMMA SameOperators ==
  /\ \A S : Ideal!Cardinality(S) = Cardinality(S)
  /\ \A S : Ideal!MapThenSumSet(LAMBDA e : ItemValue[e], S) = SumOver(ItemValue, S)
<1>1. \A S : Ideal!Cardinality(S) = Cardinality(S)
  BY DEF Cardinality, Ideal!Cardinality
<1>2. \A S : Ideal!MapThenSumSet(LAMBDA e : ItemValue[e], S) = SumOver(ItemValue, S)
  BY DEF Ideal!MapThenSumSet, Ideal!MapThenFoldSet, MapThenFoldSet, SumOver, MapThenSumSet
<1>3. QED
  BY <1>1, <1>2

\* The sender's output is the ideal one ...
LEMMA SenderIdeal ==
  ASSUME param \in Params
  PROVE  TrueSenderOutput = Ideal!SenderResult
<1>1. /\ Ideal!Cardinality(Ideal!Found) = Cardinality(Ideal!Found)
      /\ Ideal!MapThenSumSet(LAMBDA e : ItemValue[e], Ideal!Found) = SumOver(ItemValue, Ideal!Found)
  BY SameOperators
<1>2. CASE param.mode = "CardSum"
  BY <1>1, <1>2, FoundCount, FoundSum DEF TrueSenderOutput, Ideal!SenderResult
<1>3. CASE param.mode # "CardSum"
  BY <1>3 DEF TrueSenderOutput, Ideal!SenderResult
<1>4. QED
  BY <1>2, <1>3

AsSet(out) == IF out = NoOutput THEN NoOutput ELSE [out EXCEPT !.set_result = ToSet(@)]

\* ... and so is the receiver's, as a set.
LEMMA ReceiverIdeal ==
  ASSUME param \in Params
  PROVE  AsSet(TrueReceiverOutput) = Ideal!ReceiverResult
<1>1. TrueReceiverOutput # NoOutput
  <2>1. DOMAIN TrueReceiverOutput = {"set_result", "cardinality"} /\ DOMAIN NoOutput = {"none"}
    BY DEF TrueReceiverOutput, NoOutput
  <2>2. QED
    BY <2>1
<1> DEFINE set == CASE param.mode = "Intersection" -> TrueResult
                    [] param.mode = "Union" -> Y \o TrueResult
                    [] OTHER -> << >>
           found == CASE param.mode = "Intersection" -> Ideal!Found
                      [] param.mode = "Union" -> ToSet(Y) \cup (ToSet(X) \ Ideal!Found)
                      [] OTHER -> {}
           card == IF param.mode \in {"Card", "CardSum"} THEN TrueCount ELSE 0
<1>2. ToSet(set) = found
  <2>1. CASE param.mode = "Intersection"
    BY <2>1, ResultItems, SelectedRows, FoundItems
  <2>2. CASE param.mode = "Union"
    <3>1. ToSet(TrueResult) = ToSet(X) \ Ideal!Found
      BY <2>2, ResultItems, SelectedRows, FoundItems
    <3>2. TrueResult \in Seq(Items) /\ Y \in Seq(Items)
      <4>1. PICK n \in Nat : Rows = 1..n /\ DOMAIN X = 1..n
        BY ParamFacts
      <4>2. Selected \in SUBSET (1..n)
        BY <4>1 DEF Selected
      <4>3. PICK m \in Nat : Ascending(Selected) \in [1..m -> Selected]
        BY <4>2, AscendingProperties
      <4>4. PICK a \in [1..m -> Selected] : a = Ascending(Selected)
        BY <4>3
      <4>5. TrueResult = [k \in 1..m |-> X[a[k]]]
        BY <4>4 DEF TrueResult
      <4>6. X \in Seq(Items) /\ Y \in Seq(Items)
        BY ParamFacts
      <4>7. \A k \in 1..m : X[a[k]] \in Items
        <5>1. \A i \in 1..n : X[i] \in Items
          BY <4>1, <4>6
        <5>2. \A k \in 1..m : a[k] \in 1..n
          BY <4>2
        <5>3. QED
          BY <5>1, <5>2
      <4>8. TrueResult \in [1..m -> Items]
        BY <4>5, <4>7
      <4>9. QED
        BY <4>6, <4>8
    <3>3. ToSet(Y \o TrueResult) = ToSet(Y) \cup ToSet(TrueResult)
      BY <3>2, ToSetConcat
    <3>4. QED
      BY <2>2, <3>1, <3>3
  <2>3. CASE param.mode \notin {"Intersection", "Union"}
    <3>1. ToSet(<< >>) = {}
      BY DEF ToSet
    <3>2. QED
      BY <2>3, <3>1
  <2>4. QED
    BY <2>1, <2>2, <2>3
<1>3. TrueReceiverOutput = [set_result |-> set, cardinality |-> card]
  BY DEF TrueReceiverOutput
<1>4. Ideal!ReceiverResult = [set_result |-> found, cardinality |-> card]
  BY FoundCount, SameOperators DEF Ideal!ReceiverResult
<1> HIDE DEF set, found, card
<1>5. QED
  BY <1>1, <1>2, <1>3, <1>4 DEF AsSet
-----------------------------------------------------------------------------
MappedStatus == [p \in Party |-> IF status[p] = "broke" THEN "threw" ELSE status[p]]

\* A step that leaves the parameters alone leaves the ideal's inputs alone.
LEMMA IdealInputs ==
  ASSUME param' = param
  PROVE  /\ X' = X /\ Y' = Y /\ ToSet(X)' = ToSet(X) /\ ToSet(Y)' = ToSet(Y) /\ ItemValue' = ItemValue
         /\ Ideal!ReceiverResult' = Ideal!ReceiverResult /\ Ideal!SenderResult' = Ideal!SenderResult
<1>1. X' = X /\ Y' = Y /\ ToSet(X)' = ToSet(X) /\ ToSet(Y)' = ToSet(Y)
  BY DEF X, Y, ToSet
<1>2. ItemValue' = ItemValue
  BY DEF ItemValue, X, Rows, ToSet
<1>3. Ideal!ReceiverResult' = Ideal!ReceiverResult
  BY DEF X, Y, ToSet, Ideal!ReceiverResult, Ideal!Found, Ideal!Cardinality
<1>4. Ideal!SenderResult' = Ideal!SenderResult
  BY <1>2 DEF X, Y, ToSet, Ideal!SenderResult, Ideal!Found, Ideal!Cardinality,
              Ideal!MapThenSumSet, Ideal!MapThenFoldSet, MapThenFoldSet
<1>5. QED
  BY <1>1, <1>2, <1>3, <1>4

\* The initial states are initial states of the ideal functionality.
LEMMA InitIdeal == Init => Ideal!Init
BY DEF Init, Start, Ideal!Init, Party

\* Every step is a step of the ideal functionality, or none: the messages leave
\* it where it is.
LEMMA IdealStep ==
  ASSUME PsoInv, OutputsTrue, [Next]_vars
  PROVE  [Ideal!Next]_(Ideal!vars)
<1>1. param' = param
  BY NextIsSessionStep
<1>2. status = [p \in Party |-> status[p]] /\ "S" \in Party /\ "R" \in Party /\ Party = {"S", "R"}
  BY DEF PsoInv, SessionOK, Party
<1>3. ASSUME status' = status, UNCHANGED <<sOutput, rOutput>>
      PROVE  UNCHANGED Ideal!vars
  BY <1>1, <1>3, IdealInputs DEF Ideal!vars
<1>4. CASE \E p \in Party : Step(p)
  <2>1. PICK p \in Party : Step(p)
    BY <1>4
  <2>2. status' = status
    <3>1. CASE Recv(p)
      BY <3>1, ReaderIsBehind DEF Recv, PsoInv
    <3>2. QED
      BY <2>1, <3>1 DEF Step, Send
  <2>3. QED
    BY <1>3, <2>1, <2>2 DEF Step
<1>5. ASSUME NEW p \in Party, status[p] = "running", NEW s \in {"threw", "broke"},
             status' = [status EXCEPT ![p] = s], UNCHANGED <<sOutput, rOutput>>
      PROVE  Ideal!Throws(p)
  <2>1. MappedStatus[p] = "running" /\ MappedStatus' = [MappedStatus EXCEPT ![p] = "threw"]
    BY <1>2, <1>5 DEF MappedStatus
  <2>2. QED
    BY <1>1, <1>5, <2>1, IdealInputs DEF Ideal!Throws, MappedStatus
<1>6. CASE \E p \in Party : Throws(p) \/ Breaks(p)
  <2>1. PICK p \in Party : Throws(p) \/ Breaks(p)
    BY <1>6
  <2>2. Ideal!Throws(p)
    BY <1>5, <2>1 DEF Throws, Breaks, PeerClosed, NetworkBreaks
  <2>3. QED
    BY <1>2, <2>2 DEF Ideal!Next
<1>7. CASE SenderReturns
  <2>1. status["S"] = "running" /\ status' = [status EXCEPT !["S"] = "returned"]
    BY <1>7 DEF SenderReturns, Return
  <2>2. MappedStatus["S"] = "running" /\ MappedStatus' = [MappedStatus EXCEPT !["S"] = "returned"]
    BY <1>2, <2>1 DEF MappedStatus
  <2>3. sOutput' = Ideal!SenderResult
    BY <1>7, SenderOutputTrue, SenderIdeal DEF SenderReturns, Return, PsoInv
  <2>4. rOutput' = rOutput
    BY <1>7 DEF SenderReturns
  <2>5. Ideal!SenderReturns
    BY <1>1, <2>2, <2>3, <2>4, IdealInputs DEF Ideal!SenderReturns, MappedStatus
  <2>6. QED
    BY <2>5 DEF Ideal!Next
<1>8. CASE ReceiverReturns
  <2>1. status["R"] = "running" /\ status' = [status EXCEPT !["R"] = "returned"]
    BY <1>8 DEF ReceiverReturns, Return
  <2>2. MappedStatus["R"] = "running" /\ MappedStatus' = [MappedStatus EXCEPT !["R"] = "returned"]
    BY <1>2, <2>1 DEF MappedStatus
  <2>3. rOutput' = TrueReceiverOutput
    BY <1>8, ReceiverOutputTrue DEF ReceiverReturns, Return
  <2>4. AsSet(rOutput)' = Ideal!ReceiverResult
    <3>1. AsSet(rOutput)' = AsSet(rOutput')
      BY DEF AsSet, NoOutput, ToSet
    <3>2. QED
      BY <2>3, <3>1, ReceiverIdeal DEF PsoInv
  <2>5. sOutput' = sOutput
    BY <1>8 DEF ReceiverReturns
  <2>6. Ideal!ReceiverReturns
    BY <1>1, <2>2, <2>4, <2>5, IdealInputs DEF Ideal!ReceiverReturns, MappedStatus, AsSet
  <2>7. QED
    BY <2>6 DEF Ideal!Next
<1>9. CASE UNCHANGED vars
  BY <1>3, <1>9 DEF vars, session
<1>10. QED
  BY <1>4, <1>6, <1>7, <1>8, <1>9 DEF Next, Progress, Finished

\* On every input, in every mode, with and without failures, the two calls do
\* what the ideal functionality does.
THEOREM PsoRefinesIdeal == Spec => IdealSpec
<1>1. Ideal!Init /\ [][Ideal!Next]_(Ideal!vars) => IdealSpec
  BY DEF IdealSpec, Ideal!Spec
<1>2. QED
  BY <1>1, InitIdeal, IdealStep, AlwaysOutputs, PTL DEF Spec
=============================================================================
