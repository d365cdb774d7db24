--------------------------- MODULE SessionsProofs ---------------------------
(***************************************************************************)
(* Proofs about Sessions, for all inputs, sizes and socket capacities.     *)
(***************************************************************************)
EXTENDS Sessions, TwoPartyProofs, DataLemmas

\* A phase's label does not change what a program does.
LEMMA InMirror ==
  ASSUME NEW s, NEW t, Mirror(s, t), NEW phase
  PROVE  Mirror(In(phase, s), In(phase, t))
<1>1. PICK C : s \in Seq(C) /\ t \in Seq(C)
  BY DEF Mirror
<1>2. PICK n \in Nat : n = Len(s) /\ n = Len(t)
  <2>1. Len(s) \in Nat
    BY <1>1
  <2>2. QED
    BY <2>1 DEF Mirror
<1>3. DOMAIN s = 1..n /\ DOMAIN t = 1..n
  <2>1. DOMAIN s = 1..Len(s) /\ DOMAIN t = 1..Len(t)
    BY <1>1
  <2>2. QED
    BY <1>2, <2>1
<1> DEFINE label(c) == [c EXCEPT !.name = <<phase, @>>]
           D == {label(s[k]) : k \in 1..n} \cup {label(t[k]) : k \in 1..n}
<1>4. In(phase, s) = [k \in 1..n |-> label(s[k])] /\ In(phase, t) = [k \in 1..n |-> label(t[k])]
  BY <1>3 DEF In
<1>5. /\ In(phase, s) \in Seq(D) /\ Len(In(phase, s)) = n
      /\ In(phase, t) \in Seq(D) /\ Len(In(phase, t)) = n
  <2>1. In(phase, s) \in [1..n -> D] /\ In(phase, t) \in [1..n -> D]
    BY <1>4
  <2> HIDE DEF D
  <2>2. QED
    BY <2>1
<1>6. ASSUME NEW k \in 1..n
      PROVE  Matching(label(s[k]), label(t[k]))
  <2>1. Matching(s[k], t[k])
    BY <1>2 DEF Mirror
  <2>2. /\ label(s[k]) = [op |-> s[k].op, name |-> <<phase, s[k].name>>]
        /\ label(t[k]) = [op |-> t[k].op, name |-> <<phase, t[k].name>>]
    BY <2>1 DEF Matching, IsCall
  <2>3. QED
    BY <2>1, <2>2 DEF Matching, Mirrored, IsCall
<1>7. \A k \in 1..n : Matching(In(phase, s)[k], In(phase, t)[k])
  BY <1>4, <1>6
<1> HIDE DEF D
<1>8. QED
  BY <1>5, <1>7 DEF Mirror

\* A protocol run inside a longer one mirrors its counterpart there.
LEMMA WithinMirror ==
  ASSUME NEW s, NEW t, Mirror(s, t), NEW run
  PROVE  Mirror(Within(run, s), Within(run, t))
<1>1. PICK C : s \in Seq(C) /\ t \in Seq(C)
  BY DEF Mirror
<1>2. PICK n \in Nat : n = Len(s) /\ n = Len(t)
  <2>1. Len(s) \in Nat
    BY <1>1
  <2>2. QED
    BY <2>1 DEF Mirror
<1>3. DOMAIN s = 1..n /\ DOMAIN t = 1..n
  <2>1. DOMAIN s = 1..Len(s) /\ DOMAIN t = 1..Len(t)
    BY <1>1
  <2>2. QED
    BY <1>2, <2>1
<1> DEFINE label(c) == [c EXCEPT !.name = <<run>> \o @]
           D == {label(s[k]) : k \in 1..n} \cup {label(t[k]) : k \in 1..n}
<1>4. Within(run, s) = [k \in 1..n |-> label(s[k])] /\ Within(run, t) = [k \in 1..n |-> label(t[k])]
  BY <1>3 DEF Within
<1>5. /\ Within(run, s) \in Seq(D) /\ Len(Within(run, s)) = n
      /\ Within(run, t) \in Seq(D) /\ Len(Within(run, t)) = n
  <2>1. Within(run, s) \in [1..n -> D] /\ Within(run, t) \in [1..n -> D]
    BY <1>4
  <2> HIDE DEF D
  <2>2. QED
    BY <2>1
<1>6. ASSUME NEW k \in 1..n
      PROVE  Matching(label(s[k]), label(t[k]))
  <2>1. Matching(s[k], t[k])
    BY <1>2 DEF Mirror
  <2>2. /\ label(s[k]) = [op |-> s[k].op, name |-> <<run>> \o s[k].name]
        /\ label(t[k]) = [op |-> t[k].op, name |-> <<run>> \o t[k].name]
    <3>1. ASSUME NEW c, IsCall(c), NEW y
          PROVE  [c EXCEPT !.name = y] = [op |-> c.op, name |-> y]
      BY <3>1 DEF IsCall
    <3>2. IsCall(s[k]) /\ IsCall(t[k])
      BY <2>1 DEF Matching
    <3>3. QED
      BY <3>1, <3>2, Zenon
  <2>3. s[k].name = t[k].name /\ {s[k].op, t[k].op} = {"send", "recv"}
    BY <2>1 DEF Matching, Mirrored
  <2>4. ASSUME NEW c, NEW d, NEW x, c = [op |-> s[k].op, name |-> x], d = [op |-> t[k].op, name |-> x]
        PROVE  Matching(c, d)
    BY <2>3, <2>4 DEF Matching, Mirrored, IsCall
  <2>5. QED
    BY <2>2, <2>3, <2>4
<1>7. \A k \in 1..n : Matching(Within(run, s)[k], Within(run, t)[k])
  BY <1>4, <1>6
<1> HIDE DEF D
<1>8. QED
  BY <1>5, <1>7 DEF Mirror
-----------------------------------------------------------------------------
\* The parties' programs.
LEMMA VoleMirror ==
  ASSUME NEW small \in BOOLEAN
  PROVE  Mirror(PartyA(small), PartyB(small))
<1>1. Mirror(BaseVoleA, BaseVoleB)
  <2>1. Mirror(<< Snd("vec_gamma") >>, << Rcv("vec_gamma") >>)
    BY MatchingCalls, MirrorOne
  <2>2. QED
    BY <2>1, OtMirror, MirrorConcat, InMirror DEF BaseVoleA, BaseVoleB
<1>2. Mirror(ExtendVoleA, ExtendVoleB)
  <2>1. /\ Mirror(<< Rcv("vec_send_to_a") >>, << Snd("vec_send_to_a") >>)
        /\ Mirror(<< Rcv("ec_key") >>, << Snd("ec_key") >>)
    BY MatchingCalls, MirrorOne
  <2>2. Mirror(OtReceiver, OtSender)
    BY OtMirror, MirrorSwap
  <2>3. Mirror(<< Rcv("vec_send_to_a") >> \o OtReceiver \o << Rcv("ec_key") >>,
               << Snd("vec_send_to_a") >> \o OtSender \o << Snd("ec_key") >>)
    BY <2>1, <2>2, MirrorConcat
  <2>4. QED
    BY <2>3, InMirror DEF ExtendVoleA, ExtendVoleB
<1>3. QED
  BY <1>1, <1>2, MirrorConcat DEF PartyA, PartyB

\* The two programs of cwPRF PSI mirror each other, ...
LEMMA PsiMirror == Mirror(PsiSender, PsiReceiver)
BY MatchingCalls, MirrorThree DEF PsiSender, PsiReceiver

\* ... those of the VOLE OPRF, ...
LEMMA OprfMirror ==
  ASSUME NEW run, param.small \in BOOLEAN
  PROVE  Mirror(OprfSender(run), OprfReceiver(run))
<1>1. Mirror(PartyB(param.small), PartyA(param.small))
  BY VoleMirror, MirrorSwap
<1>2. Mirror(<< Rcv("okvs_seed"), Rcv("correction") >>, << Snd("okvs_seed"), Snd("correction") >>)
  BY MatchingCalls, MirrorTwo
<1>3. Mirror(PartyB(param.small) \o In("oprf", << Rcv("okvs_seed"), Rcv("correction") >>),
             PartyA(param.small) \o In("oprf", << Snd("okvs_seed"), Snd("correction") >>))
  BY <1>1, <1>2, InMirror, MirrorConcat
<1>4. QED
  BY <1>3, WithinMirror DEF OprfSender, OprfReceiver

\* ... those of the OT-extension OPRF, ...
LEMMA OteMirror == Mirror(OteSender, OteReceiver)
<1> DEFINE n == (MatrixWidth + SplitBucketSize - 1) \div SplitBucketSize
           s == [b \in Buckets |-> Rcv(b)]
           t == [b \in Buckets |-> Snd(b)]
           C == {Rcv(b) : b \in Buckets} \cup {Snd(b) : b \in Buckets}
<1>1. n \in Nat /\ Buckets = 1..n
  BY OteAssumption DEF Buckets
<1>2. \A k \in Buckets : Matching(s[k], t[k])
  BY MatchingCalls
<1>3. s \in [1..n -> C] /\ t \in [1..n -> C]
  BY <1>1
<1>4. Mirror(s, t)
  <2> HIDE DEF n, s, t, C
  <2>1. s \in Seq(C) /\ t \in Seq(C) /\ Len(s) = n /\ Len(t) = n
    BY <1>1, <1>3
  <2>2. QED
    BY <1>1, <1>2, <2>1 DEF Mirror
<1>5. Mirror(In("np", NpOtReceiver), In("np", NpOtSender))
  BY OtMirror, MirrorSwap, InMirror
<1>6. QED
  BY <1>4, <1>5, InMirror, MirrorConcat DEF OteSender, OteReceiver

\* ... and those of Private-ID.
LEMMA IdMirror ==
  ASSUME param.small \in BOOLEAN
  PROVE  Mirror(IdSender, IdReceiver)
<1>1. /\ Mirror(OprfSender("first"), OprfReceiver("first"))
      /\ Mirror(OprfReceiver("second"), OprfSender("second"))
  BY OprfMirror, MirrorSwap
<1>2. Mirror(In("psu", PsoSender("Union", param.membership)),
             In("psu", PsoReceiver("Union", param.membership)))
  BY PsoMirror, InMirror
<1>3. Mirror(In("ids", << Rcv("union_id_size"), Rcv("union_id") >>),
             In("ids", << Snd("union_id_size"), Snd("union_id") >>))
  BY MatchingCalls, MirrorTwo, InMirror
<1>4. QED
  BY <1>1, <1>2, <1>3, MirrorConcat DEF IdSender, IdReceiver
-----------------------------------------------------------------------------
\* What the two parties start with.
ParamOK ==
  \/ param \in VoleParams
  \/ param \in PsiParams
  \/ param \in VoleOprfParams
  \/ param \in OteOprfParams
  \/ param \in IdParams

\* A party's vector holds items, each once.
Distinct(s) == s \in Seq(Items) /\ IsInjective(s)

\* The inputs of each protocol.
LEMMA ParamFacts ==
  ASSUME ParamOK
  PROVE  /\ param.protocol \in {"vole", "psi", "vole_oprf", "ote_oprf", "private_id"}
         /\ param.protocol = "vole" => IsSmall \in BOOLEAN
         /\ param.protocol = "psi" => /\ Distinct(param.x) /\ Distinct(param.y)
                                      /\ param.mode \in {"Truncate", "PlainSet"}
                                      /\ param.prefix \in PrefixMaps
         /\ param.protocol = "vole_oprf" => Distinct(param.x) /\ param.small \in BOOLEAN
         /\ param.protocol = "ote_oprf" => /\ Distinct(param.x)
                                           /\ param.selection \in [Columns -> {0, 1}]
         /\ param.protocol = "private_id" => /\ Distinct(param.x) /\ Distinct(param.y)
                                             /\ param.small \in BOOLEAN
                                             /\ param.membership \in {"BloomFilter", "PlainSet"}
                                             /\ param.stray \subseteq ToSet(param.x) \ ToSet(param.y)
                                             /\ param.reversed \in BOOLEAN
<1>1. \A s \in SenderInputs \cup ReceiverInputs : Distinct(s)
  BY InputAssumption DEF Distinct
<1>2. CASE param \in VoleParams
  BY <1>2 DEF VoleParams, IsSmall
<1>3. CASE param \in PsiParams
  BY <1>1, <1>3 DEF PsiParams
<1>4. CASE param \in VoleOprfParams
  BY <1>1, <1>4 DEF VoleOprfParams
<1>5. CASE param \in OteOprfParams
  BY <1>1, <1>5 DEF OteOprfParams
<1>6. CASE param \in IdParams
  <2>1. /\ param.protocol = "private_id" /\ param.x \in SenderInputs /\ param.y \in ReceiverInputs
        /\ param.small \in BOOLEAN /\ param.membership \in {"BloomFilter", "PlainSet"}
        /\ param.stray \subseteq ToSet(param.x) \ ToSet(param.y)
        /\ param.reversed \in BOOLEAN
    BY <1>6 DEF IdParams
  <2>2. QED
    BY <1>1, <2>1
<1>7. QED
  BY <1>2, <1>3, <1>4, <1>5, <1>6 DEF ParamOK

\* The programs of every session mirror each other.
LEMMA EveryMirror ==
  ASSUME ParamOK
  PROVE  Mirror(Program("S"), Program("R"))
<1>1. CASE param.protocol = "vole"
  BY <1>1, ParamFacts, VoleMirror DEF Program
<1>2. CASE param.protocol = "psi"
  BY <1>2, PsiMirror DEF Program
<1>3. CASE param.protocol = "vole_oprf"
  BY <1>3, ParamFacts, OprfMirror DEF Program
<1>4. CASE param.protocol = "ote_oprf"
  BY <1>4, OteMirror DEF Program
<1>5. CASE param.protocol = "private_id"
  BY <1>5, ParamFacts, IdMirror DEF Program
<1>6. QED
  BY <1>1, <1>2, <1>3, <1>4, <1>5, ParamFacts
-----------------------------------------------------------------------------
\* Every step of the model moves the session by one of its own operations.
LEMMA NextIsSessionStep ==
  ASSUME [Next]_vars
  PROVE  SessionStep /\ UNCHANGED param
<1>1. ASSUME NEW p \in Party, Step(p) \/ Returns(p) \/ Throws(p) \/ Breaks(p)
      PROVE  SessionStep /\ UNCHANGED param
  BY <1>1 DEF Step, Returns, Throws, Breaks, SessionStep
<1>2. CASE UNCHANGED vars
  BY <1>2 DEF vars, SessionStep
<1>3. QED
  BY <1>1, <1>2 DEF Next, Progress, Finished

\* The two programs stay in step.
LEMMA StaysInStep == Spec => [](SessionOK /\ InStep)
<1>1. Init => SessionOK /\ InStep
  BY EveryMirror, MirrorStart DEF Init, ParamOK
<1>2. SessionOK /\ InStep /\ [Next]_vars => (SessionOK /\ InStep)'
  BY NextIsSessionStep, SessionShape, StepInStep
<1>3. QED
  BY <1>1, <1>2, PTL DEF Spec

\* In VOLE, the cwPRF PSI, both OPRFs and Private-ID, whose calls are spread
\* over up to four layers of functions: no party reads a message for another,
\* and two calls that returned leave the connection empty.
THEOREM SessionsInStep == Spec => []NoDesync
BY StaysInStep, InStepNoDesync, PTL
-----------------------------------------------------------------------------
\* A mirrored program is made of calls.
LEMMA MirrorConsists ==
  ASSUME NEW s, NEW t, Mirror(s, t)
  PROVE  Consists(s, Calls(s)) /\ \A c \in Calls(s) : IsCall(c)
<1>1. PICK C : s \in Seq(C)
  BY DEF Mirror
<1>2. PICK n \in Nat : n = Len(s)
  BY <1>1
<1>3. s = [k \in 1..n |-> s[k]]
  BY <1>1, <1>2
<1>4. s \in [1..n -> Calls(s)]
  BY <1>2, <1>3 DEF Calls
<1>5. s \in Seq(Calls(s))
  BY <1>4
<1>6. \A c \in Calls(s) : IsCall(c)
  BY DEF Calls, Mirror, Matching
<1>7. QED
  BY <1>5, <1>6 DEF Consists

\* A program whose calls are renamed one by one.
LEMMA CallsRenamed ==
  ASSUME NEW s, NEW A, Consists(s, A), NEW F,
         NEW t, t = [k \in DOMAIN s |-> F[s[k]]]
  PROVE  Consists(t, {F[c] : c \in A})
<1>1. PICK n \in Nat : n = Len(s) /\ DOMAIN s = 1..n
  <2>1. s \in Seq(A)
    BY DEF Consists
  <2>2. Len(s) \in Nat /\ DOMAIN s = 1..Len(s)
    BY <2>1
  <2>3. QED
    BY <2>2
<1> DEFINE B == {F[c] : c \in A}
<1>2. A = {s[i] : i \in 1..n}
  BY <1>1 DEF Consists, Calls
<1>3. t = [k \in 1..n |-> F[s[k]]]
  BY <1>1
<1>4. t \in [1..n -> B]
  BY <1>2, <1>3
<1>5. B = {t[i] : i \in 1..n}
  BY <1>2, <1>3
<1> HIDE DEF B
<1>6. t \in Seq(B) /\ Len(t) = n
  BY <1>4
<1>7. QED
  BY <1>5, <1>6 DEF Consists, Calls, B

\* The calls of a phase ...
LEMMA ConsistsIn ==
  ASSUME NEW s, NEW A, Consists(s, A), \A c \in A : IsCall(c), NEW phase
  PROVE  Consists(In(phase, s), {[op |-> c.op, name |-> <<phase, c.name>>] : c \in A})
<1> DEFINE F == [c \in A |-> [op |-> c.op, name |-> <<phase, c.name>>]]
<1>1. PICK n \in Nat : n = Len(s) /\ DOMAIN s = 1..n
  <2>1. s \in Seq(A)
    BY DEF Consists
  <2>2. Len(s) \in Nat /\ DOMAIN s = 1..Len(s)
    BY <2>1
  <2>3. QED
    BY <2>2
<1>2. \A k \in 1..n : s[k] \in A
  BY <1>1 DEF Consists
<1>3. \A k \in 1..n : [s[k] EXCEPT !.name = <<phase, @>>] = [op |-> s[k].op, name |-> <<phase, s[k].name>>]
  BY <1>2 DEF IsCall
<1> DEFINE B == {[op |-> c.op, name |-> <<phase, c.name>>] : c \in A}
<1>4. In(phase, s) = [k \in DOMAIN s |-> F[s[k]]]
  BY <1>1, <1>2, <1>3 DEF In
<1>5. {F[c] : c \in A} = B
  OBVIOUS
<1> HIDE DEF F, B
<1>6. PICK t, G, D : t = In(phase, s) /\ G = F /\ D = B
  OBVIOUS
<1>7. Consists(t, {G[c] : c \in A})
  BY <1>4, <1>6, CallsRenamed
<1>8. {G[c] : c \in A} = D
  BY <1>5, <1>6
<1>9. QED
  BY <1>6, <1>7, <1>8 DEF B

\* ... and of a run.
LEMMA ConsistsWithin ==
  ASSUME NEW s, NEW A, Consists(s, A), \A c \in A : IsCall(c), NEW run
  PROVE  Consists(Within(run, s), {[op |-> c.op, name |-> <<run>> \o c.name] : c \in A})
<1> DEFINE F == [c \in A |-> [op |-> c.op, name |-> <<run>> \o c.name]]
<1>1. PICK n \in Nat : n = Len(s) /\ DOMAIN s = 1..n
  <2>1. s \in Seq(A)
    BY DEF Consists
  <2>2. Len(s) \in Nat /\ DOMAIN s = 1..Len(s)
    BY <2>1
  <2>3. QED
    BY <2>2
<1>2. \A k \in 1..n : s[k] \in A
  BY <1>1 DEF Consists
<1>3. \A k \in 1..n : [s[k] EXCEPT !.name = <<run>> \o @] = [op |-> s[k].op, name |-> <<run>> \o s[k].name]
  <2>1. ASSUME NEW c, IsCall(c), NEW y
        PROVE  [c EXCEPT !.name = y] = [op |-> c.op, name |-> y]
    BY <2>1 DEF IsCall
  <2>2. QED
    BY <1>2, <2>1, Zenon
<1> DEFINE B == {[op |-> c.op, name |-> <<run>> \o c.name] : c \in A}
<1>4. Within(run, s) = [k \in DOMAIN s |-> F[s[k]]]
  BY <1>1, <1>2, <1>3 DEF Within
<1>5. {F[c] : c \in A} = B
  OBVIOUS
<1> HIDE DEF F, B
<1>6. PICK t, G, D : t = Within(run, s) /\ G = F /\ D = B
  OBVIOUS
<1>7. Consists(t, {G[c] : c \in A})
  BY <1>4, <1>6, CallsRenamed
<1>8. {G[c] : c \in A} = D
  BY <1>5, <1>6
<1>9. QED
  BY <1>6, <1>7, <1>8 DEF B

\* A message's name, its run put before it and taken off again.
LEMMA Tuples ==
  ASSUME NEW run, NEW ph, NEW x
  PROVE  /\ <<run>> \o <<ph, x>> = <<run, ph, x>>
         /\ <<run, ph, x>>[1] = run
         /\ Tail(<<run, ph, x>>) = <<ph, x>>
<1> DEFINE S == {run, ph, x}
           a == <<run>>
           b == <<ph, x>>
           c == <<run, ph, x>>
<1>1. /\ a \in Seq(S) /\ Len(a) = 1 /\ a[1] = run
      /\ b \in Seq(S) /\ Len(b) = 2 /\ b[1] = ph /\ b[2] = x
      /\ c \in Seq(S) /\ Len(c) = 3 /\ c[1] = run /\ c[2] = ph /\ c[3] = x
  OBVIOUS
<1> HIDE DEF S, a, b, c
<1>2. /\ a \o b \in Seq(S) /\ Len(a \o b) = 3
      /\ (a \o b)[1] = a[1] /\ (a \o b)[2] = b[1] /\ (a \o b)[3] = b[2]
  <2>1. /\ a \o b \in Seq(S) /\ Len(a \o b) = Len(a) + Len(b)
        /\ \A i \in 1..Len(a) + Len(b) :
             (a \o b)[i] = IF i <= Len(a) THEN a[i] ELSE b[i - Len(a)]
    BY <1>1, ConcatProperties
  <2>2. Len(a) + Len(b) = 3
    BY <1>1
  <2>3. \A i \in 1..3 : (a \o b)[i] = IF i <= 1 THEN a[i] ELSE b[i - 1]
    BY <1>1, <2>1, <2>2
  <2>4. (a \o b)[1] = a[1]
    <3>1. 1 \in 1..3 /\ 1 <= 1
      OBVIOUS
    <3>2. QED
      BY <2>3, <3>1
  <2>5. (a \o b)[2] = b[1]
    <3>1. 2 \in 1..3 /\ ~(2 <= 1) /\ 2 - 1 = 1
      OBVIOUS
    <3>2. QED
      BY <2>3, <3>1
  <2>6. (a \o b)[3] = b[2]
    <3>1. 3 \in 1..3 /\ ~(3 <= 1) /\ 3 - 1 = 2
      OBVIOUS
    <3>2. QED
      BY <2>3, <3>1
  <2>7. QED
    BY <2>1, <2>2, <2>4, <2>5, <2>6
<1>3. Tail(c) \in Seq(S) /\ Len(Tail(c)) = 2 /\ Tail(c)[1] = c[2] /\ Tail(c)[2] = c[3]
  <2>1. c # <<>>
    <3>1. Len(<<>>) # 3
      OBVIOUS
    <3>2. QED
      BY <1>1, <3>1, Zenon
  <2>2. PICK d, n : /\ d = Tail(c) /\ n = Len(d)
    OBVIOUS
  <2>3. d \in Seq(S) /\ n = Len(c) - 1 /\ \A i \in 1..n : d[i] = c[i + 1]
    BY <1>1, <2>1, <2>2, HeadTailProperties
  <2>4. n = 2
    <3>1. n = 3 - 1
      BY <1>1, <2>3, Zenon
    <3>2. QED
      BY <3>1
  <2>5. 1 \in 1..n /\ 2 \in 1..n
    BY <2>4
  <2>6. d[1] = c[1 + 1] /\ d[2] = c[2 + 1]
    BY <2>3, <2>5
  <2>7. 1 + 1 = 2 /\ 2 + 1 = 3
    OBVIOUS
  <2>8. d[1] = c[2] /\ d[2] = c[3]
    BY <2>6, <2>7
  <2>9. QED
    BY <2>2, <2>3, <2>4, <2>8
<1>4. /\ \A i \in 1..3 : i = 1 \/ i = 2 \/ i = 3
      /\ \A i \in 1..2 : i = 1 \/ i = 2
  OBVIOUS
<1>5. a \o b = c
  BY <1>1, <1>2, <1>4, SeqEqual
<1>6. Tail(c) = b
  BY <1>1, <1>3, <1>4, SeqEqual
<1>7. QED
  BY <1>1, <1>5, <1>6 DEF a, b, c

\* A program of calls, and one whose messages are named by phase.
CallsOnly(s) == \E A : Consists(s, A) /\ \A c \in A : IsCall(c)
Phased(s)    == \E A : Consists(s, A) /\ \A c \in A : IsCall(c) /\ \E ph, x : c.name = <<ph, x>>

\* Both are kept when programs are put together.
LEMMA LabelledPrograms ==
  /\ \A s, t : Mirror(s, t) => CallsOnly(s) /\ CallsOnly(t)
  /\ \A s, t : CallsOnly(s) /\ CallsOnly(t) => CallsOnly(s \o t)
  /\ \A s, t : Phased(s) /\ Phased(t) => Phased(s \o t)
  /\ \A phase, s : CallsOnly(s) => Phased(In(phase, s))
<1>1. ASSUME NEW s, NEW t, Mirror(s, t)
      PROVE  CallsOnly(s) /\ CallsOnly(t)
  <2>1. Mirror(t, s)
    BY <1>1, MirrorSwap
  <2>2. QED
    BY <1>1, <2>1, MirrorConsists DEF CallsOnly
<1>2. ASSUME NEW s, NEW t, CallsOnly(s), CallsOnly(t)
      PROVE  CallsOnly(s \o t)
  <2>1. PICK A : Consists(s, A) /\ \A c \in A : IsCall(c)
    BY <1>2 DEF CallsOnly
  <2>2. PICK B : Consists(t, B) /\ \A c \in B : IsCall(c)
    BY <1>2 DEF CallsOnly
  <2>3. Consists(s \o t, A \cup B) /\ \A c \in A \cup B : IsCall(c)
    BY <2>1, <2>2, ConsistsConcat
  <2>4. QED
    BY <2>3 DEF CallsOnly
<1>3. ASSUME NEW s, NEW t, Phased(s), Phased(t)
      PROVE  Phased(s \o t)
  <2> DEFINE Named(c) == IsCall(c) /\ \E ph, x : c.name = <<ph, x>>
  <2>1. PICK A : Consists(s, A) /\ \A c \in A : Named(c)
    BY <1>3 DEF Phased
  <2>2. PICK B : Consists(t, B) /\ \A c \in B : Named(c)
    BY <1>3 DEF Phased
  <2> HIDE DEF Named
  <2>3. Consists(s \o t, A \cup B) /\ \A c \in A \cup B : Named(c)
    BY <2>1, <2>2, ConsistsConcat
  <2>4. QED
    BY <2>3 DEF Phased, Named
<1>4. ASSUME NEW phase, NEW s, CallsOnly(s)
      PROVE  Phased(In(phase, s))
  <2>1. PICK A : Consists(s, A) /\ \A c \in A : IsCall(c)
    BY <1>4 DEF CallsOnly
  <2> DEFINE B == {[op |-> c.op, name |-> <<phase, c.name>>] : c \in A}
  <2>2. Consists(In(phase, s), B)
    BY <2>1, ConsistsIn
  <2>3. \A c \in B : IsCall(c) /\ \E ph, x : c.name = <<ph, x>>
    BY DEF IsCall
  <2> HIDE DEF B
  <2>4. QED
    BY <2>2, <2>3 DEF Phased
<1>5. QED
  BY <1>1, <1>2, <1>3, <1>4

\* VOLE's messages are named by phase.
LEMMA VolePhased ==
  ASSUME NEW small \in BOOLEAN
  PROVE  Phased(PartyA(small)) /\ Phased(PartyB(small))
<1>1. \A x : CallsOnly(<< Snd(x) >>) /\ CallsOnly(<< Rcv(x) >>)
  BY MatchingCalls, MirrorOne, LabelledPrograms
<1>2. CallsOnly(OtSender) /\ CallsOnly(OtReceiver)
  BY OtMirror, LabelledPrograms
<1>3. Phased(BaseVoleA) /\ Phased(BaseVoleB)
  BY <1>1, <1>2, LabelledPrograms DEF BaseVoleA, BaseVoleB
<1>4. Phased(ExtendVoleA) /\ Phased(ExtendVoleB)
  BY <1>1, <1>2, LabelledPrograms DEF ExtendVoleA, ExtendVoleB
<1>5. QED
  BY <1>3, <1>4, LabelledPrograms DEF PartyA, PartyB

\* A run of VOLE and what follows it carries the name of the run.
LEMMA RunCalls ==
  ASSUME NEW run, NEW s, Phased(s), NEW t, Phased(t), NEW names,
         \A x \in names : \E B : Consists(t, B) /\ Rcv(<<"oprf", x>>) \in B
  PROVE  \E A : /\ Consists(Within(run, s \o t), A)
                /\ \A c \in A : c.name[1] = run
                /\ \A x \in names : Rcv(<<run, "oprf", x>>) \in A
<1> DEFINE Named(c) == IsCall(c) /\ \E ph, x : c.name = <<ph, x>>
<1>1. PICK B : Consists(s \o t, B) /\ \A c \in B : Named(c)
  BY LabelledPrograms DEF Phased
<1>2. \A x \in names : Rcv(<<"oprf", x>>) \in B
  <2>1. PICK D : Consists(s, D)
    BY DEF Phased
  <2>2. TAKE x \in names
  <2>3. PICK E : Consists(t, E) /\ Rcv(<<"oprf", x>>) \in E
    OBVIOUS
  <2>4. Consists(s \o t, D \cup E)
    BY <2>1, <2>3, ConsistsConcat
  <2>5. B = D \cup E
    BY <1>1, <2>4 DEF Consists
  <2>6. QED
    BY <2>3, <2>5
<1> DEFINE A == {[op |-> c.op, name |-> <<run>> \o c.name] : c \in B}
<1>3. Consists(Within(run, s \o t), A)
  BY <1>1, ConsistsWithin
<1>4. \A c \in A : c.name[1] = run
  <2>1. TAKE c \in A
  <2>2. PICK b \in B : c = [op |-> b.op, name |-> <<run>> \o b.name]
    OBVIOUS
  <2>3. PICK ph, x : b.name = <<ph, x>>
    BY <1>1
  <2> HIDE DEF A
  <2>4. c = [op |-> b.op, name |-> <<run, ph, x>>]
    <3>1. <<run>> \o <<ph, x>> = <<run, ph, x>>
      BY Tuples
    <3>2. <<run>> \o b.name = <<run, ph, x>>
      BY <2>3, <3>1
    <3>3. QED
      BY <2>2, <3>2
  <2>5. <<run, ph, x>>[1] = run
    BY Tuples
  <2>6. QED
    BY <2>4, <2>5
<1>5. \A x \in names : Rcv(<<run, "oprf", x>>) \in A
  <2>1. TAKE x \in names
  <2>2. Rcv(<<"oprf", x>>).op = "recv" /\ Rcv(<<"oprf", x>>).name = <<"oprf", x>>
    BY DEF Rcv
  <2>3. <<run>> \o <<"oprf", x>> = <<run, "oprf", x>>
    BY Tuples
  <2>4. [op |-> "recv", name |-> <<run>> \o <<"oprf", x>>] \in A
    BY <1>2, <2>2
  <2> HIDE DEF A
  <2>5. QED
    BY <2>3, <2>4 DEF Rcv
<1> HIDE DEF A
<1>6. QED
  BY <1>3, <1>4, <1>5

\* So do the calls of the OPRF's parties.
LEMMA OprfSenderCalls ==
  ASSUME NEW run, param.small \in BOOLEAN
  PROVE  \E A : /\ Consists(OprfSender(run), A)
                /\ \A c \in A : c.name[1] = run
                /\ Rcv(<<run, "oprf", "okvs_seed">>) \in A
                /\ Rcv(<<run, "oprf", "correction">>) \in A
<1> DEFINE names == {"okvs_seed", "correction"}
           t1 == << Rcv("okvs_seed"), Rcv("correction") >>
<1>2. CallsOnly(t1)
  BY MatchingCalls, MirrorTwo, LabelledPrograms
<1>3. Phased(In("oprf", t1))
  BY <1>2, LabelledPrograms
<1>4. \A x \in names : \E B : Consists(In("oprf", t1), B) /\ Rcv(<<"oprf", x>>) \in B
  <2> DEFINE A == {Rcv("okvs_seed"), Rcv("correction")}
             B == {[op |-> c.op, name |-> <<"oprf", c.name>>] : c \in A}
  <2>1. Consists(t1, A) /\ \A c \in A : IsCall(c)
    BY ConsistsOf DEF IsCall, Rcv
  <2> HIDE DEF t1, A
  <2>2. Consists(In("oprf", t1), B)
    BY <2>1, ConsistsIn
  <2>3. \A x \in names : Rcv(<<"oprf", x>>) \in B
    <3>1. TAKE x \in names
    <3>2. Rcv(x) \in A
      BY DEF A
    <3>3. Rcv(x).op = "recv" /\ Rcv(x).name = x
      BY DEF Rcv
    <3>4. QED
      BY <3>2, <3>3 DEF Rcv
  <2> HIDE DEF B
  <2>4. QED
    BY <2>2, <2>3
<1> HIDE DEF t1
<1>5. \E A : /\ Consists(Within(run, PartyB(param.small) \o In("oprf", t1)), A)
             /\ \A c \in A : c.name[1] = run
             /\ \A x \in names : Rcv(<<run, "oprf", x>>) \in A
  <2> HIDE DEF names
  <2>1. PICK s, t : s = PartyB(param.small) /\ t = In("oprf", t1)
    OBVIOUS
  <2>2. Phased(s) /\ Phased(t) /\ \A x \in names : \E B : Consists(t, B) /\ Rcv(<<"oprf", x>>) \in B
    BY <1>3, <1>4, <2>1, VolePhased
  <2>3. QED
    BY <2>1, <2>2, RunCalls
<1>7. QED
  BY <1>5 DEF OprfSender, t1

\* ... and of its other party.
LEMMA OprfReceiverCalls ==
  ASSUME NEW run, param.small \in BOOLEAN
  PROVE  \E A : Consists(OprfReceiver(run), A) /\ \A c \in A : c.name[1] = run
<1> DEFINE t2 == << Snd("okvs_seed"), Snd("correction") >>
<1>1. CallsOnly(t2)
  BY MatchingCalls, MirrorTwo, LabelledPrograms
<1>2. Phased(In("oprf", t2))
  BY <1>1, LabelledPrograms
<1> HIDE DEF t2
<1>3. PICK s, t, none : s = PartyA(param.small) /\ t = In("oprf", t2) /\ none = {}
  OBVIOUS
<1>4. Phased(s) /\ Phased(t) /\ \A x \in none : \E B : Consists(t, B) /\ Rcv(<<"oprf", x>>) \in B
  BY <1>2, <1>3, VolePhased
<1>5. PICK A : /\ Consists(Within(run, s \o t), A)
               /\ \A c \in A : c.name[1] = run
               /\ \A x \in none : Rcv(<<run, "oprf", x>>) \in A
  BY <1>4, RunCalls
<1>6. OprfReceiver(run) = Within(run, s \o t)
  BY <1>3 DEF OprfReceiver, t2
<1>7. QED
  BY <1>5, <1>6

\* The parts of Private-ID that are other protocols.
IdPhases == {"first", "second", "psu"}

\* The calls of Private-ID's parties.
LEMMA IdCalls ==
  ASSUME param.small \in BOOLEAN, param.membership \in {"BloomFilter", "PlainSet"}
  PROVE  /\ \E A, B :
              /\ IdSender = OprfSender("first") \o (OprfReceiver("second")
                               \o (In("psu", PsoSender("Union", param.membership))
                                    \o In("ids", << Rcv("union_id_size"), Rcv("union_id") >>)))
              /\ Consists(OprfSender("first"), A)
              /\ \A c \in A : c.name[1] = "first"
              /\ Rcv(<<"first", "oprf", "okvs_seed">>) \in A
              /\ Rcv(<<"first", "oprf", "correction">>) \in A
              /\ Consists(OprfReceiver("second")
                               \o (In("psu", PsoSender("Union", param.membership))
                                    \o In("ids", << Rcv("union_id_size"), Rcv("union_id") >>)), B)
              /\ \A c \in B : c.op = "send" => c.name[1] # "ids"
              /\ Rcv(<<"ids", "union_id">>) \in B
         /\ \E A, B :
              /\ IdReceiver = (OprfReceiver("first") \o OprfSender("second")
                               \o In("psu", PsoReceiver("Union", param.membership)))
                                    \o In("ids", << Snd("union_id_size"), Snd("union_id") >>)
              /\ Consists((OprfReceiver("first") \o OprfSender("second"))
                               \o In("psu", PsoReceiver("Union", param.membership)), A)
              /\ \A c \in A : c.name[1] \in IdPhases
              /\ \A c \in A : c.op = "send" => c.name # <<"psu", "vec_outer_c">>
              /\ Rcv(<<"second", "oprf", "okvs_seed">>) \in A
              /\ Rcv(<<"second", "oprf", "correction">>) \in A
              /\ Rcv(<<"psu", "vec_outer_c">>) \in A
              /\ Consists(In("ids", << Snd("union_id_size"), Snd("union_id") >>), B)
              /\ \A c \in B : c.name[1] = "ids"
<1> DEFINE psuS == In("psu", PsoSender("Union", param.membership))
           psuR == In("psu", PsoReceiver("Union", param.membership))
           idsS == In("ids", << Rcv("union_id_size"), Rcv("union_id") >>)
           idsR == In("ids", << Snd("union_id_size"), Snd("union_id") >>)
<1>1. \A phase, x : <<phase, x>>[1] = phase
  OBVIOUS
<1>2. \A run, ph, x : <<run, ph, x>>[1] = run
  OBVIOUS
<1> DEFINE Sends(run, A) == /\ Consists(OprfSender(run), A)
                            /\ \A c \in A : c.name[1] = run
                            /\ Rcv(<<run, "oprf", "okvs_seed">>) \in A
                            /\ Rcv(<<run, "oprf", "correction">>) \in A
<1>3. \A run : \E A : Sends(run, A)
  BY OprfSenderCalls
<1> DEFINE Gets(run, A) == /\ Consists(OprfReceiver(run), A)
                           /\ \A c \in A : c.name[1] = run
<1>4. \A run : \E A : Gets(run, A)
  <2>1. TAKE run
  <2>2. QED
    BY OprfReceiverCalls
<1> HIDE DEF Sends, Gets
<1>5. PICK F1, S2 : Sends("first", F1) /\ Sends("second", S2)
  BY <1>3
<1>6. PICK F2 : Consists(OprfReceiver("first"), F2) /\ \A c \in F2 : c.name[1] = "first"
  BY <1>4 DEF Gets
<1>7. PICK S1 : Consists(OprfReceiver("second"), S1) /\ \A c \in S1 : c.name[1] = "second"
  BY <1>4 DEF Gets
<1>8. ASSUME NEW phase, NEW program, NEW A, Consists(program, A), \A c \in A : IsCall(c)
      PROVE  \E B : /\ Consists(In(phase, program), B)
                    /\ \A c \in B : c.name[1] = phase
                    /\ \A c \in B : \E a \in A : c.op = a.op /\ c.name = <<phase, a.name>>
                    /\ \A x : Rcv(x) \in A => Rcv(<<phase, x>>) \in B
  <2> DEFINE B == {[op |-> c.op, name |-> <<phase, c.name>>] : c \in A}
  <2>1. Consists(In(phase, program), B)
    BY <1>8, ConsistsIn
  <2>2. \A c \in B : c.name[1] = phase /\ \E a \in A : c.op = a.op /\ c.name = <<phase, a.name>>
    BY <1>1
  <2>3. \A x : Rcv(x) \in A => Rcv(<<phase, x>>) \in B
    <3>1. \A x : Rcv(x).op = "recv" /\ Rcv(x).name = x
      BY DEF Rcv
    <3>2. \A x : Rcv(x) \in A => [op |-> "recv", name |-> <<phase, x>>] \in B
      <4>1. \A c \in A : [op |-> c.op, name |-> <<phase, c.name>>] \in B
        OBVIOUS
      <4> HIDE DEF B
      <4>2. QED
        BY <3>1, <4>1
    <3> HIDE DEF B
    <3>3. QED
      BY <3>2 DEF Rcv
  <2> HIDE DEF B
  <2>4. QED
    BY <2>1, <2>2, <2>3
<1>9. PICK P1 : Consists(psuS, P1) /\ \A c \in P1 : c.name[1] = "psu"
  <2>1. CallsOnly(PsoSender("Union", param.membership))
    BY PsoMirror, LabelledPrograms
  <2>2. QED
    BY <1>8, <2>1 DEF CallsOnly
<1>10. PICK P2 : /\ Consists(psuR, P2)
                 /\ \A c \in P2 : c.name[1] = "psu"
                 /\ \A c \in P2 : c.op = "send" => c.name # <<"psu", "vec_outer_c">>
                 /\ Rcv(<<"psu", "vec_outer_c">>) \in P2
  <2>1. CallsOnly(PsoReceiver("Union", param.membership))
    BY PsoMirror, LabelledPrograms
  <2>2. PICK A : /\ Consists(PsoReceiver("Union", param.membership), A)
                 /\ \A c \in A : c.op = "send" =>
                      c.name \notin {"vec_fk2_x", "filter", "vec_fk2k1_y", "vec_outer_c",
                                     "vec_outer_c0", "vec_outer_c1"}
                 /\ Rcv("vec_outer_c") \in A
    BY PsoCallSets
  <2>3. \A c \in A : IsCall(c)
    BY <2>1, <2>2 DEF CallsOnly, Consists
  <2>4. PICK B : /\ Consists(psuR, B)
                 /\ \A c \in B : c.name[1] = "psu"
                 /\ \A c \in B : \E a \in A : c.op = a.op /\ c.name = <<"psu", a.name>>
                 /\ \A x : Rcv(x) \in A => Rcv(<<"psu", x>>) \in B
    BY <1>8, <2>2, <2>3
  <2>5. \A c \in B : c.op = "send" => c.name # <<"psu", "vec_outer_c">>
    <3>1. \A y : <<"psu", y>>[2] = y
      OBVIOUS
    <3>2. QED
      BY <2>2, <2>4, <3>1
  <2>6. QED
    BY <2>2, <2>4, <2>5
<1>11. PICK I1 : /\ Consists(idsS, I1)
                 /\ \A c \in I1 : c.op = "recv"
                 /\ Rcv(<<"ids", "union_id">>) \in I1
  <2> DEFINE A == {Rcv("union_id_size"), Rcv("union_id")}
  <2>1. Consists(<< Rcv("union_id_size"), Rcv("union_id") >>, A)
    BY ConsistsOf
  <2>2. \A c \in A : IsCall(c) /\ c.op = "recv"
    BY DEF IsCall, Rcv
  <2>3. Rcv("union_id") \in A
    OBVIOUS
  <2> HIDE DEF A
  <2>4. PICK B : /\ Consists(idsS, B)
                 /\ \A c \in B : \E a \in A : c.op = a.op /\ c.name = <<"ids", a.name>>
                 /\ \A x : Rcv(x) \in A => Rcv(<<"ids", x>>) \in B
    BY <1>8, <2>1, <2>2
  <2>5. QED
    BY <2>2, <2>3, <2>4
<1>12. PICK I2 : Consists(idsR, I2) /\ \A c \in I2 : c.name[1] = "ids"
  <2> DEFINE A == {Snd("union_id_size"), Snd("union_id")}
  <2>1. Consists(<< Snd("union_id_size"), Snd("union_id") >>, A)
    BY ConsistsOf
  <2>2. \A c \in A : IsCall(c)
    BY DEF IsCall, Snd
  <2> HIDE DEF A
  <2>3. QED
    BY <1>8, <2>1, <2>2
<1> HIDE DEF psuS, psuR, idsS, idsR
<1>13. IdSender = OprfSender("first") \o (OprfReceiver("second") \o (psuS \o idsS))
  <2> DEFINE C == ((F1 \cup S1) \cup P1) \cup I1
  <2>1. PICK f, g : f = OprfSender("first") /\ g = OprfReceiver("second")
    OBVIOUS
  <2>2. f \in Seq(C) /\ g \in Seq(C) /\ psuS \in Seq(C) /\ idsS \in Seq(C)
    <3>1. F1 \subseteq C /\ S1 \subseteq C /\ P1 \subseteq C /\ I1 \subseteq C
      OBVIOUS
    <3> HIDE DEF C
    <3>2. QED
      BY <1>5, <1>7, <1>9, <1>11, <2>1, <3>1, SeqMonotonic DEF Consists, Sends
  <2> HIDE DEF C
  <2>3. /\ f \o g \in Seq(C) /\ psuS \o idsS \in Seq(C)
    BY <2>2, ConcatProperties
  <2>4. ((f \o g) \o psuS) \o idsS = (f \o g) \o (psuS \o idsS)
    BY <2>2, <2>3, ConcatAssociative, SMTT(30)
  <2>5. (f \o g) \o (psuS \o idsS) = f \o (g \o (psuS \o idsS))
    BY <2>2, <2>3, ConcatAssociative, SMTT(30)
  <2>6. IdSender = ((f \o g) \o psuS) \o idsS
    BY <2>1 DEF IdSender, psuS, idsS
  <2>7. QED
    BY <2>1, <2>4, <2>5, <2>6
<1>14. Consists(OprfReceiver("second") \o (psuS \o idsS), S1 \cup (P1 \cup I1))
  BY <1>7, <1>9, <1>11, ConsistsConcat
<1>15. \A c \in S1 \cup (P1 \cup I1) : c.op = "send" => c.name[1] # "ids"
  BY <1>7, <1>9, <1>11
<1>16. IdReceiver = ((OprfReceiver("first") \o OprfSender("second")) \o psuR) \o idsR
  BY DEF IdReceiver, psuR, idsR
<1>17. Consists((OprfReceiver("first") \o OprfSender("second")) \o psuR, (F2 \cup S2) \cup P2)
  BY <1>5, <1>6, <1>10, ConsistsConcat DEF Sends
<1>18. /\ \A c \in (F2 \cup S2) \cup P2 : c.name[1] \in IdPhases
       /\ \A c \in (F2 \cup S2) \cup P2 : c.op = "send" => c.name # <<"psu", "vec_outer_c">>
  <2>1. <<"psu", "vec_outer_c">>[1] = "psu"
    OBVIOUS
  <2>2. QED
    BY <1>5, <1>6, <1>10, <2>1 DEF IdPhases, Sends
<1>19. \E A, B :
         /\ IdSender = OprfSender("first") \o (OprfReceiver("second") \o (psuS \o idsS))
         /\ Consists(OprfSender("first"), A)
         /\ \A c \in A : c.name[1] = "first"
         /\ Rcv(<<"first", "oprf", "okvs_seed">>) \in A
         /\ Rcv(<<"first", "oprf", "correction">>) \in A
         /\ Consists(OprfReceiver("second") \o (psuS \o idsS), B)
         /\ \A c \in B : c.op = "send" => c.name[1] # "ids"
         /\ Rcv(<<"ids", "union_id">>) \in B
  <2>1. PICK A, B : A = F1 /\ B = S1 \cup (P1 \cup I1)
    OBVIOUS
  <2>2. Rcv(<<"ids", "union_id">>) \in B
    BY <1>11, <2>1
  <2>3. QED
    BY <1>5, <1>13, <1>14, <1>15, <2>1, <2>2 DEF Sends
<1>20. \E A, B :
         /\ IdReceiver = ((OprfReceiver("first") \o OprfSender("second")) \o psuR) \o idsR
         /\ Consists((OprfReceiver("first") \o OprfSender("second")) \o psuR, A)
         /\ \A c \in A : c.name[1] \in IdPhases
         /\ \A c \in A : c.op = "send" => c.name # <<"psu", "vec_outer_c">>
         /\ Rcv(<<"second", "oprf", "okvs_seed">>) \in A
         /\ Rcv(<<"second", "oprf", "correction">>) \in A
         /\ Rcv(<<"psu", "vec_outer_c">>) \in A
         /\ Consists(idsR, B)
         /\ \A c \in B : c.name[1] = "ids"
  <2>1. PICK A : A = (F2 \cup S2) \cup P2
    OBVIOUS
  <2>2. /\ Rcv(<<"second", "oprf", "okvs_seed">>) \in A
        /\ Rcv(<<"second", "oprf", "correction">>) \in A
        /\ Rcv(<<"psu", "vec_outer_c">>) \in A
    BY <1>5, <1>10, <2>1 DEF Sends
  <2>3. QED
    BY <1>12, <1>16, <1>17, <1>18, <2>1, <2>2
<1>21. QED
  BY <1>19, <1>20 DEF psuS, psuR, idsS, idsR
-----------------------------------------------------------------------------
(***************************************************************************)
(* VOLE.  Blocks are sums over GF(2), so a term is in a sum when it is in  *)
(* an odd number of the blocks.                                            *)
(***************************************************************************)
\* Where a term occurs in a list of blocks.
Where(s, x) == {k \in DOMAIN s : x \in s[k]}

\* A term is in the sum of a list when it occurs an odd number of times.
LEMMA InSum ==
  ASSUME NEW s, IsFiniteSet(DOMAIN s), NEW x
  PROVE  x \in Sum(s) <=> Odd(Where(s, x))
<1>1. Odd(Where(s, x)) => Where(s, x) # {}
  <2>1. SUFFICES ASSUME Where(s, x) = {} PROVE ~Odd(Where(s, x))
    OBVIOUS
  <2>2. Cardinality(Where(s, x)) = 0
    BY <2>1, FS_EmptySet
  <2>3. QED
    BY <2>2 DEF Odd
<1>2. Where(s, x) # {} => x \in UNION ToSet(s)
  BY DEF Where, ToSet
<1>3. x \in Sum(s) <=> x \in UNION ToSet(s) /\ Cardinality(Where(s, x)) % 2 = 1
  BY DEF Sum, Where
<1>4. QED
  BY <1>1, <1>2, <1>3 DEF Odd

\* Addition, term by term.
LEMMA InAdd == \A x, A, B : x \in Add(A, B) <=> ~(x \in A <=> x \in B)
BY DEF Add, SymDiff

\* A sum of sums.
LEMMA SumAdd ==
  ASSUME NEW D, IsFiniteSet(D), NEW s, DOMAIN s = D, NEW t, DOMAIN t = D, NEW u, DOMAIN u = D,
         \A k \in D : u[k] = Add(s[k], t[k])
  PROVE  Sum(u) = Add(Sum(s), Sum(t))
<1>1. ASSUME NEW x
      PROVE  x \in Sum(u) <=> x \in Add(Sum(s), Sum(t))
  <2>1. Where(u, x) = SymDiff(Where(s, x), Where(t, x))
    <3>1. \A k \in D : x \in u[k] <=> ~(x \in s[k] <=> x \in t[k])
      BY InAdd
    <3>2. QED
      BY <3>1 DEF Where, SymDiff
  <2>2. IsFiniteSet(Where(s, x)) /\ IsFiniteSet(Where(t, x))
    <3>1. Where(s, x) \in SUBSET D /\ Where(t, x) \in SUBSET D
      BY DEF Where
    <3>2. QED
      BY <3>1, FS_Subset
  <2>3. Odd(Where(u, x)) <=> ~(Odd(Where(s, x)) <=> Odd(Where(t, x)))
    BY <2>1, <2>2, OddSymDiff
  <2>4. /\ x \in Sum(u) <=> Odd(Where(u, x))
        /\ x \in Sum(s) <=> Odd(Where(s, x))
        /\ x \in Sum(t) <=> Odd(Where(t, x))
    BY InSum
  <2>5. QED
    BY <2>3, <2>4, InAdd
<1>2. QED
  BY <1>1

\* A sum with one block that is not zero.
LEMMA SumOne ==
  ASSUME NEW D, IsFiniteSet(D), NEW s, DOMAIN s = D, NEW p \in D, \A k \in D : k # p => s[k] = Zero
  PROVE  Sum(s) = s[p]
<1>1. ASSUME NEW x
      PROVE  x \in Sum(s) <=> x \in s[p]
  <2>1. CASE x \in s[p]
    <3>1. Where(s, x) = {p}
      BY <2>1 DEF Where, Zero
    <3>2. Odd(Where(s, x))
      <4>1. Cardinality({p}) = 1
        BY FS_Singleton
      <4>2. QED
        BY <3>1, <4>1 DEF Odd
    <3>3. QED
      BY <2>1, <3>2, InSum
  <2>2. CASE x \notin s[p]
    <3>1. Where(s, x) = {}
      BY <2>2 DEF Where, Zero
    <3>2. ~Odd(Where(s, x))
      <4>1. Cardinality({}) = 0
        BY FS_EmptySet
      <4>2. QED
        BY <3>1, <4>1 DEF Odd
    <3>3. QED
      BY <2>2, <3>2, InSum
  <2>3. QED
    BY <2>1, <2>2
<1>2. QED
  BY <1>1

\* Terms of a sum are terms of its blocks.
LEMMA SumTerms ==
  ASSUME NEW s, NEW x \in Sum(s)
  PROVE  \E k \in DOMAIN s : x \in s[k]
BY DEF Sum, ToSet

\* What cancels in a sum.
LEMMA AddFacts ==
  /\ \A A : Add(A, Zero) = A /\ Add(Zero, A) = A
  /\ \A A, B : Add(A, B) = Add(B, A)
  /\ \A A, B, C : Add(Add(A, B), C) = Add(A, Add(B, C))
  /\ \A A, B : Add(Add(A, B), B) = A /\ Add(A, Add(A, B)) = B
<1>1. \A A : Add(A, Zero) = A /\ Add(Zero, A) = A
  BY DEF Add, SymDiff, Zero
<1>2. ASSUME NEW A, NEW B PROVE Add(A, B) = Add(B, A)
  BY DEF Add, SymDiff
<1>3. ASSUME NEW A, NEW B, NEW C PROVE Add(Add(A, B), C) = Add(A, Add(B, C))
  <2>1. \A x : x \in Add(Add(A, B), C) <=> x \in Add(A, Add(B, C))
    BY InAdd
  <2>2. QED
    BY <2>1
<1>4. ASSUME NEW A, NEW B PROVE Add(Add(A, B), B) = A /\ Add(A, Add(A, B)) = B
  BY DEF Add, SymDiff
<1>5. QED
  BY <1>1, <1>2, <1>3, <1>4

-----------------------------------------------------------------------------
(***************************************************************************)
(* Products with the gadget and with delta are linear.                     *)
(***************************************************************************)
LEMMA InGadget ==
  ASSUME NEW s, NEW x
  PROVE  x \in GadgetProduct(s) <=> \E i \in 1..BlockBits : \E term \in s[i] : x = <<"g", i, term>>
BY DEF GadgetProduct

\* The product of a sum with the gadget.
LEMMA GadgetAdd ==
  ASSUME NEW s, NEW t, NEW u, \A i \in 1..BlockBits : u[i] = Add(s[i], t[i])
  PROVE  GadgetProduct(u) = Add(GadgetProduct(s), GadgetProduct(t))
<1>1. ASSUME NEW x
      PROVE  x \in GadgetProduct(u) <=> x \in Add(GadgetProduct(s), GadgetProduct(t))
  <2>1. CASE \E i \in 1..BlockBits : \E term : x = <<"g", i, term>>
    <3>0. PICK i \in 1..BlockBits : \E term : x = <<"g", i, term>>
      BY <2>1
    <3>1. PICK term : x = <<"g", i, term>>
      BY <3>0
    <3>2. \A v : x \in GadgetProduct(v) <=> term \in v[i]
      <4>1. \A j \in 1..BlockBits : \A e : x = <<"g", j, e>> => j = i /\ e = term
        BY <3>1
      <4>2. QED
        BY <3>1, <4>1, InGadget
    <3>3. QED
      BY <3>2, InAdd
  <2>2. CASE ~(\E i \in 1..BlockBits : \E term : x = <<"g", i, term>>)
    <3>1. \A v : x \notin GadgetProduct(v)
      BY <2>2, InGadget
    <3>2. QED
      BY <3>1, InAdd
  <2>3. QED
    BY <2>1, <2>2
<1>2. QED
  BY <1>1

\* The terms of a product with delta.
LEMMA InTimesDelta ==
  ASSUME NEW A, NEW x
  PROVE  x \in TimesDelta(A) <=>
           \E i \in 1..BlockBits : Delta[i] = 1 /\ \E term \in A : x = <<"g", i, term>>
<1> DEFINE s == [i \in 1..BlockBits |-> IF Delta[i] = 1 THEN A ELSE Zero]
<1>1. TimesDelta(A) = GadgetProduct(s)
  BY DEF TimesDelta
<1>2. \A i \in 1..BlockBits : s[i] = IF Delta[i] = 1 THEN A ELSE Zero
  OBVIOUS
<1> HIDE DEF s
<1>3. x \in GadgetProduct(s) <=> \E i \in 1..BlockBits : \E term \in s[i] : x = <<"g", i, term>>
  BY InGadget
<1>4. QED
  BY <1>1, <1>2, <1>3 DEF Zero

\* The product of a sum with delta.
LEMMA TimesDeltaSum ==
  ASSUME NEW D, IsFiniteSet(D), NEW s, DOMAIN s = D, NEW t, DOMAIN t = D,
         \A k \in D : t[k] = TimesDelta(s[k])
  PROVE  Sum(t) = TimesDelta(Sum(s))
<1>1. ASSUME NEW x
      PROVE  x \in Sum(t) <=> x \in TimesDelta(Sum(s))
  <2>1. CASE \E i \in 1..BlockBits : \E term : Delta[i] = 1 /\ x = <<"g", i, term>>
    <3>0. PICK i \in 1..BlockBits : \E term : Delta[i] = 1 /\ x = <<"g", i, term>>
      BY <2>1
    <3>1. PICK term : Delta[i] = 1 /\ x = <<"g", i, term>>
      BY <3>0
    <3>2. \A A : x \in TimesDelta(A) <=> term \in A
      <4>1. \A j \in 1..BlockBits : \A e : x = <<"g", j, e>> => j = i /\ e = term
        BY <3>1
      <4>2. QED
        BY <3>1, <4>1, InTimesDelta
    <3>3. Where(t, x) = Where(s, term)
      BY <3>2 DEF Where
    <3>4. (x \in Sum(t) <=> Odd(Where(t, x))) /\ (term \in Sum(s) <=> Odd(Where(s, term)))
      BY InSum
    <3>5. QED
      BY <3>2, <3>3, <3>4
  <2>2. CASE ~(\E i \in 1..BlockBits : \E term : Delta[i] = 1 /\ x = <<"g", i, term>>)
    <3>1. \A A : x \notin TimesDelta(A)
      BY <2>2, InTimesDelta
    <3>2. x \notin Sum(t)
      BY <3>1, SumTerms
    <3>3. QED
      BY <3>1, <3>2
  <2>3. QED
    BY <2>1, <2>2
<1>2. QED
  BY <1>1

\* The product of zero.
LEMMA TimesDeltaZero == TimesDelta(Zero) = Zero
<1>1. \A x : x \notin TimesDelta(Zero)
  BY InTimesDelta DEF Zero
<1>2. QED
  BY <1>1 DEF Zero

-----------------------------------------------------------------------------
(***************************************************************************)
(* Base VOLE.                                                              *)
(***************************************************************************)
\* The rows of the OT: a row says its correlation and its bit.
LEMMA BaseRowFacts ==
  ASSUME BaseLen \in Nat, NEW j \in 1..BaseLen, NEW i \in 1..BlockBits
  PROVE  /\ BaseRow(j, i) \in BaseRows
         /\ BitOf(BaseRow(j, i)) = i
         /\ (BaseRow(j, i) - 1) \div BlockBits + 1 = j
<1>1. PICK B \in Nat \ {0}, n \in Nat : B = BlockBits /\ n = BaseLen
  BY VoleAssumption
<1>2. PICK q \in Nat, r \in 0..B - 1, d \in Nat : q = j - 1 /\ r = i - 1 /\ n = j + d
  <2>1. j - 1 \in Nat /\ i - 1 \in 0..B - 1 /\ n - j \in Nat /\ n = j + (n - j)
    BY <1>1
  <2>2. QED
    BY <2>1
<1>3. PICK row : row = q * B + r + 1 /\ row = BaseRow(j, i)
  <2>1. BaseRow(j, i) = q * B + i /\ i = r + 1
    BY <1>1, <1>2 DEF BaseRow
  <2>2. q * B \in Nat
    OBVIOUS
  <2>3. QED
    BY <2>1, <2>2
<1>4. (q * B + r) % B = r /\ (q * B + r) \div B = q
  OBVIOUS
<1>5. PICK x \in Nat : x = q * B
  OBVIOUS
<1>6. row - 1 = q * B + r /\ row \in Nat /\ row >= 1
  BY <1>3, <1>5
<1>7. row <= n * B
  <2>1. n * B = q * B + B + d * B
    <3>1. n = q + 1 + d
      BY <1>2
    <3>2. (q + 1 + d) * B = q * B + B + d * B
      OBVIOUS
    <3>3. QED
      BY <3>1, <3>2
  <2>2. PICK y \in Nat : y = d * B
    OBVIOUS
  <2>3. QED
    BY <1>3, <1>5, <2>1, <2>2
<1>8. n * B \in Nat
  OBVIOUS
<1>9. BaseRow(j, i) \in BaseRows
  BY <1>1, <1>3, <1>6, <1>7, <1>8 DEF BaseRows
<1>10. QED
  BY <1>1, <1>2, <1>3, <1>4, <1>6, <1>9 DEF BitOf

\* What the OT delivers, row by row.
LEMMA OtDelivers ==
  ASSUME NEW rows, NEW bits, DOMAIN bits = rows, \A row \in rows : bits[row] \in {0, 1},
         NEW m0, NEW m1, NEW c0, NEW c1,
         \A row \in rows : c0[row] = Encrypt(row, 0, m0[row]) /\ c1[row] = Encrypt(row, 1, m1[row])
  PROVE  OtReceive(bits, c0, c1) = [row \in rows |-> IF bits[row] = 0 THEN m0[row] ELSE m1[row]]
<1>1. \A row, b, m : Decrypt(<<row, b>>, Encrypt(row, b, m)) = m
  BY DEF Decrypt, Encrypt
<1>2. ASSUME NEW row \in rows
      PROVE  Decrypt(<<row, bits[row]>>, IF bits[row] = 0 THEN c0[row] ELSE c1[row])
               = IF bits[row] = 0 THEN m0[row] ELSE m1[row]
  BY <1>1
<1>3. QED
  BY <1>2 DEF OtReceive

BaseNames == {<<"base", "vec_outer_c0">>, <<"base", "vec_outer_c1">>, <<"base", "vec_gamma">>}

BaseSaid(name) ==
  CASE name = <<"base", "vec_outer_c0">> -> [row \in BaseRows |-> Encrypt(row, 0, K(0, row))]
    [] name = <<"base", "vec_outer_c1">> -> [row \in BaseRows |-> Encrypt(row, 1, K(1, row))]
    [] name = <<"base", "vec_gamma">> -> Gamma

\* The correlation of base VOLE, when its messages were delivered: party B ends
\* with what party A has plus delta times what A has.
LEMMA BaseRelation ==
  ASSUME BaseLen \in Nat, Delta \in [1..BlockBits -> {0, 1}],
         \A name \in BaseNames : inbox["R"][name] = BaseSaid(name),
         NEW j \in 1..BaseLen
  PROVE  V(j) = Add(W(j), TimesDelta(U(j)))
<1> DEFINE bits == [row \in BaseRows |-> Delta[BitOf(row)]]
           got == OtReceive(bits, inbox["R"][<<"base", "vec_outer_c0">>], inbox["R"][<<"base", "vec_outer_c1">>])
           gamma == inbox["R"][<<"base", "vec_gamma">>]
           s == [i \in 1..BlockBits |-> Prf(K(0, BaseRow(j, i)))]
           t == [i \in 1..BlockBits |-> IF Delta[i] = 1 THEN U(j) ELSE Zero]
           u == [i \in 1..BlockBits |->
                   Add(Prf(got[BaseRow(j, i)]), IF Delta[i] = 1 THEN gamma[BaseRow(j, i)] ELSE Zero)]
<1>1. \A row \in BaseRows : BitOf(row) \in 1..BlockBits
  <2>1. PICK B \in Nat \ {0} : B = BlockBits
    BY VoleAssumption
  <2>2. \A row \in Int : ((row - 1) % B) + 1 \in 1..B
    OBVIOUS
  <2>3. QED
    BY <2>1, <2>2 DEF BitOf, BaseRows
<1>2. \A row \in BaseRows : bits[row] = Delta[BitOf(row)] /\ bits[row] \in {0, 1}
  BY <1>1
<1>3. <<"base", "vec_outer_c1">> # <<"base", "vec_outer_c0">> /\ <<"base", "vec_gamma">> # <<"base", "vec_outer_c0">>
        /\ <<"base", "vec_gamma">> # <<"base", "vec_outer_c1">>
  OBVIOUS
<1>4. /\ inbox["R"][<<"base", "vec_outer_c0">>] = [row \in BaseRows |-> Encrypt(row, 0, K(0, row))]
      /\ inbox["R"][<<"base", "vec_outer_c1">>] = [row \in BaseRows |-> Encrypt(row, 1, K(1, row))]
      /\ gamma = Gamma
  BY <1>3 DEF BaseNames, BaseSaid
<1>5. got = [row \in BaseRows |-> IF bits[row] = 0 THEN K(0, row) ELSE K(1, row)]
  <2>1. PICK m0, m1 : m0 = [row \in BaseRows |-> K(0, row)] /\ m1 = [row \in BaseRows |-> K(1, row)]
    OBVIOUS
  <2>2. PICK c0, c1 : c0 = inbox["R"][<<"base", "vec_outer_c0">>] /\ c1 = inbox["R"][<<"base", "vec_outer_c1">>]
    OBVIOUS
  <2>3. \A row \in BaseRows : c0[row] = Encrypt(row, 0, m0[row]) /\ c1[row] = Encrypt(row, 1, m1[row])
    BY <1>4, <2>1, <2>2
  <2>4. DOMAIN bits = BaseRows
    OBVIOUS
  <2> HIDE DEF bits
  <2>5. OtReceive(bits, c0, c1) = [row \in BaseRows |-> IF bits[row] = 0 THEN m0[row] ELSE m1[row]]
    BY <1>2, <2>3, <2>4, OtDelivers
  <2>6. QED
    BY <2>1, <2>2, <2>5
<1>6. V(j) = GadgetProduct(u) /\ W(j) = GadgetProduct(s) /\ TimesDelta(U(j)) = GadgetProduct(t)
  BY DEF V, W, TimesDelta
<1>7. ASSUME NEW i \in 1..BlockBits
      PROVE  u[i] = Add(s[i], t[i])
  <2>1. PICK row \in BaseRows : row = BaseRow(j, i) /\ BitOf(row) = i /\ (row - 1) \div BlockBits + 1 = j
    BY BaseRowFacts
  <2>2. gamma[row] = Add(Add(Prf(K(0, row)), Prf(K(1, row))), U(j))
    BY <1>4, <2>1 DEF Gamma
  <2>3. got[row] = IF Delta[i] = 0 THEN K(0, row) ELSE K(1, row)
    BY <1>2, <1>5, <2>1
  <2>4. /\ u[i] = Add(Prf(got[row]), IF Delta[i] = 1 THEN gamma[row] ELSE Zero)
        /\ s[i] = Prf(K(0, row)) /\ t[i] = IF Delta[i] = 1 THEN U(j) ELSE Zero
    BY <2>1
  <2> HIDE DEF u, s, t, got, gamma, bits
  <2>5. CASE Delta[i] = 0
    BY <2>3, <2>4, <2>5
  <2>6. CASE Delta[i] = 1
    <3>1. u[i] = Add(Prf(K(1, row)), Add(Add(Prf(K(0, row)), Prf(K(1, row))), U(j)))
      BY <2>2, <2>3, <2>4, <2>6
    <3>2. \A a, b, x : Add(b, Add(Add(a, b), x)) = Add(a, x)
      <4>1. ASSUME NEW a, NEW b, NEW x PROVE Add(b, Add(Add(a, b), x)) = Add(a, x)
        <5>1. \A y : y \in Add(b, Add(Add(a, b), x)) <=> y \in Add(a, x)
          BY InAdd
        <5>2. QED
          BY <5>1
      <4>2. QED
        BY <4>1
    <3>3. QED
      BY <2>4, <2>6, <3>1, <3>2
  <2>7. QED
    BY <2>5, <2>6
<1> HIDE DEF u, s, t
<1>8. GadgetProduct(u) = Add(GadgetProduct(s), GadgetProduct(t))
  BY <1>7, GadgetAdd
<1>9. QED
  BY <1>6, <1>8

-----------------------------------------------------------------------------
(***************************************************************************)
(* The trees: how deep they are and what their levels hold.                *)
(***************************************************************************)
\* Powers of two, as the recursion gives them.
LEMMA Pow2Facts ==
  /\ Pow2[0] = 1
  /\ \A n \in Nat : Pow2[n] \in Nat \ {0} /\ Pow2[n + 1] = 2 * Pow2[n] /\ n < Pow2[n]
<1> DEFINE Up(n, f) == /\ f \in [0..n -> Nat] /\ f[0] = 1
                       /\ \A i \in 1..n : f[i] = 2 * f[i - 1]
           F == [n \in Nat |-> (CHOOSE f : Up(n, f))[n]]
           Is(f) == f = [n \in Nat |-> IF n = 0 THEN 1 ELSE 2 * f[n - 1]]
<1>1. \A n \in Nat : \E f : Up(n, f)
  <2> DEFINE T == {n \in Nat : \E f : Up(n, f)}
  <2>1. 0 \in T
    <3>1. Up(0, [i \in 0..0 |-> 1])
      OBVIOUS
    <3> HIDE DEF Up
    <3>2. QED
      BY <3>1
  <2>2. ASSUME NEW n \in Nat, n \in T
        PROVE  n + 1 \in T
    <3>1. PICK f : Up(n, f)
      BY <2>2
    <3> DEFINE g == [i \in 0..n + 1 |-> IF i = n + 1 THEN 2 * f[n] ELSE f[i]]
    <3>2. \A i \in 0..n : g[i] = f[i] /\ f[i] \in Nat
      BY <3>1
    <3>3. g[n + 1] = 2 * f[n] /\ f[n] \in Nat
      BY <3>1
    <3>9. DOMAIN g = 0..n + 1 /\ g = [i \in 0..n + 1 |-> g[i]]
      OBVIOUS
    <3> HIDE DEF g
    <3>4. g \in [0..n + 1 -> Nat]
      <4>1. g[n + 1] \in Nat
        BY <3>3
      <4>2. \A i \in 0..n + 1 : i = n + 1 \/ i \in 0..n
        OBVIOUS
      <4>3. \A i \in 0..n + 1 : g[i] \in Nat
        BY <3>2, <4>1, <4>2
      <4>4. QED
        BY <3>9, <4>3
    <3>5. ASSUME NEW i \in 1..n + 1
          PROVE  g[i] = 2 * g[i - 1]
      <4>1. CASE i = n + 1
        BY <3>2, <3>3, <4>1
      <4>2. CASE i # n + 1
        <5>1. i \in 1..n /\ i \in 0..n /\ i - 1 \in 0..n
          BY <4>2
        <5>2. QED
          BY <3>1, <3>2, <5>1
      <4>3. QED
        BY <4>1, <4>2
    <3>6. g[0] = 1
      <4>1. 0 \in 0..n
        OBVIOUS
      <4>2. QED
        BY <3>1, <3>2, <4>1
    <3>7. Up(n + 1, g)
      BY <3>4, <3>5, <3>6
    <3> HIDE DEF Up
    <3>8. QED
      BY <3>7
  <2> HIDE DEF T
  <2>3. Nat \subseteq T
    BY <2>1, <2>2, NatInductionSet
  <2>4. QED
    BY <2>3 DEF T
<1>2. ASSUME NEW n \in Nat, NEW m \in Nat, NEW f, Up(n, f), NEW g, Up(m, g)
      PROVE  \A i \in Nat : i <= n /\ i <= m => f[i] = g[i]
  <2> DEFINE T == {i \in Nat : i <= n /\ i <= m => f[i] = g[i]}
  <2>1. 0 \in T
    BY <1>2
  <2>2. ASSUME NEW i \in Nat, i \in T
        PROVE  i + 1 \in T
    <3>1. SUFFICES ASSUME i + 1 <= n, i + 1 <= m PROVE f[i + 1] = g[i + 1]
      OBVIOUS
    <3>2. i + 1 \in 1..n /\ i + 1 \in 1..m /\ (i + 1) - 1 = i
      BY <3>1
    <3>3. f[i] = g[i]
      BY <2>2, <3>1
    <3>4. f[i + 1] = 2 * f[i] /\ g[i + 1] = 2 * g[i]
      BY <1>2, <3>2
    <3>5. QED
      BY <3>3, <3>4
  <2> HIDE DEF T
  <2>3. Nat \subseteq T
    BY <2>1, <2>2, NatInductionSet
  <2>4. QED
    BY <2>3 DEF T
<1>3. \A n \in Nat : Up(n, CHOOSE f : Up(n, f))
  BY <1>1
<1>4. F[0] = 1
  BY <1>3
<1>5. ASSUME NEW n \in Nat
      PROVE  F[n] \in Nat /\ F[n + 1] = 2 * F[n]
  <2>0. PICK m \in Nat : m = n + 1
    OBVIOUS
  <2>1. PICK f, g : f = (CHOOSE h : Up(n, h)) /\ g = (CHOOSE h : Up(m, h))
    OBVIOUS
  <2>2. F[n] = f[n] /\ F[n + 1] = g[n + 1]
    BY <2>0, <2>1
  <2>3. Up(n, f) /\ Up(m, g)
    <3> HIDE DEF Up
    <3>1. QED
      BY <1>3, <2>1
  <2>7. f[n] = g[n]
    <3>1. n <= n /\ n <= m
      BY <2>0
    <3> HIDE DEF Up
    <3>2. QED
      BY <1>2, <2>3, <3>1
  <2>4. n + 1 \in 1..n + 1 /\ (n + 1) - 1 = n /\ n \in 0..n
    OBVIOUS
  <2>5. g[n + 1] = 2 * g[n] /\ f[n] \in Nat
    BY <2>0, <2>3, <2>4
  <2>6. QED
    BY <2>2, <2>5, <2>7
<1>6. Is(F)
  <2>1. DOMAIN F = Nat /\ F = [n \in Nat |-> F[n]]
    OBVIOUS
  <2> HIDE DEF F
  <2>2. ASSUME NEW n \in Nat
        PROVE  F[n] = IF n = 0 THEN 1 ELSE 2 * F[n - 1]
    <3>1. CASE n = 0
      BY <1>4, <3>1
    <3>2. CASE n # 0
      <4>1. n - 1 \in Nat /\ (n - 1) + 1 = n
        BY <3>2
      <4>2. F[(n - 1) + 1] = 2 * F[n - 1]
        BY <1>5, <4>1
      <4>3. QED
        BY <3>2, <4>1, <4>2
    <3>3. QED
      BY <3>1, <3>2
  <2>3. QED
    BY <2>1, <2>2
<1>7. Is(Pow2)
  <2>1. Pow2 = CHOOSE f : Is(f)
    BY DEF Pow2
  <2> HIDE DEF Is
  <2>2. QED
    BY <1>6, <2>1
<1>8. Pow2[0] = 1 /\ \A n \in Nat : Pow2[n + 1] = 2 * Pow2[n]
  <2>1. \A n \in Nat : Pow2[n] = IF n = 0 THEN 1 ELSE 2 * Pow2[n - 1]
    BY <1>7
  <2>2. Pow2[0] = 1
    BY <2>1
  <2>3. ASSUME NEW n \in Nat PROVE Pow2[n + 1] = 2 * Pow2[n]
    <3>1. n + 1 \in Nat /\ n + 1 # 0 /\ (n + 1) - 1 = n
      OBVIOUS
    <3>2. QED
      BY <2>1, <3>1
  <2>4. QED
    BY <2>2, <2>3
<1> DEFINE T == {n \in Nat : Pow2[n] \in Nat \ {0} /\ n < Pow2[n]}
<1>9. 0 \in T
  BY <1>8
<1>10. ASSUME NEW n \in Nat, n \in T
       PROVE  n + 1 \in T
  <2>1. PICK a \in Nat \ {0} : a = Pow2[n] /\ n < a
    BY <1>10
  <2>2. Pow2[n + 1] = 2 * a
    BY <1>8, <2>1
  <2>3. 2 * a \in Nat \ {0} /\ n + 1 < 2 * a
    BY <2>1
  <2>4. QED
    BY <2>2, <2>3
<1> HIDE DEF T
<1>11. Nat \subseteq T
  BY <1>9, <1>10, NatInductionSet
<1>12. QED
  BY <1>8, <1>11 DEF T

\* The logarithm, rounded up.
LEMMA LogFacts ==
  ASSUME NEW n \in Nat
  PROVE  /\ CeilLog2(n) \in 0..n /\ n <= Pow2[CeilLog2(n)]
         /\ \A e \in 0..CeilLog2(n) - 1 : Pow2[e] < n
<1> DEFINE S == {d \in 0..n : n <= Pow2[d]}
           f == [d \in S |-> n - d]
<1>1. n \in S
  BY Pow2Facts
<1>2. IsFiniteSet(S) /\ \A d \in S : f[d] \in Nat
  <2>1. IsFiniteSet(0..n) /\ S \in SUBSET (0..n)
    BY FS_Interval
  <2>2. IsFiniteSet(S)
    BY <2>1, FS_Subset
  <2>3. QED
    BY <2>2
<1>3. PICK d \in S : \A e \in S : f[e] <= f[d]
  <2> HIDE DEF S, f
  <2>1. QED
    BY <1>1, <1>2, Greatest
<1>4. \A e \in S : d <= e
  <2>1. TAKE e \in S
  <2>2. f[e] <= f[d] /\ f[e] = n - e /\ f[d] = n - d /\ d \in Int /\ e \in Int
    BY <1>3
  <2>3. QED
    BY <2>2
<1>5. \A e \in 0..d - 1 : Pow2[e] < n
  <2>1. TAKE e \in 0..d - 1
  <2>2. e \in 0..n /\ e \notin S
    BY <1>4
  <2>3. Pow2[e] \in Nat /\ ~(n <= Pow2[e])
    BY <2>2, Pow2Facts
  <2>4. QED
    BY <2>3
<1>6. \E c \in 0..n : Pow2[c] >= n /\ \A e \in 0..c - 1 : Pow2[e] < n
  <2>1. Pow2[d] \in Nat /\ n <= Pow2[d] /\ d \in 0..n
    BY Pow2Facts
  <2>2. QED
    BY <1>5, <2>1
<1>7. PICK c \in 0..n : c = CeilLog2(n) /\ Pow2[c] >= n /\ \A e \in 0..c - 1 : Pow2[e] < n
  BY <1>6 DEF CeilLog2
<1>8. QED
  <2>1. Pow2[c] \in Nat
    BY <1>7, Pow2Facts
  <2>2. n <= Pow2[c]
    BY <1>7, <2>1
  <2>3. QED
    BY <1>7, <2>2

\* A longer tree is no less deep.
LEMMA LogMonotone ==
  ASSUME NEW a \in Nat, NEW b \in Nat, a <= b
  PROVE  CeilLog2(a) <= CeilLog2(b)
<1>1. PICK c \in Nat, d \in Nat : c = CeilLog2(a) /\ d = CeilLog2(b)
  BY LogFacts
<1>2. SUFFICES ASSUME d < c PROVE FALSE
  BY <1>1
<1>3. d \in 0..c - 1
  BY <1>2
<1>4. Pow2[d] < a /\ b <= Pow2[d] /\ Pow2[d] \in Nat
  BY <1>1, <1>3, LogFacts, Pow2Facts
<1>5. QED
  BY <1>4

\* The trees of an extension have two leaves at least, as many as they need,
\* and no more levels than are built; together they cover all positions.
LEMMA TreeFacts ==
  ASSUME ItemNum \in ItemNums, ~IsSmall
  PROVE  /\ MaxDepth \in Nat /\ SubLen \in Nat /\ LastLen \in Nat
         /\ (PprfNum - 1) * SubLen + LastLen = 2 * ItemNum
         /\ \A i \in Trees : /\ TreeLen(i) \in Nat /\ Depth(i) \in 1..MaxDepth
                             /\ TreeLen(i) <= Pow2[Depth(i)]
<1>1. PICK n \in Nat \ {0}, t \in Nat \ {0} : n = ItemNum /\ t = PprfNum /\ n >= t
  <2>1. ItemNum >= Small
    BY VoleAssumption DEF IsSmall
  <2>2. QED
    BY <2>1, VoleAssumption
<1>2. PICK s \in Nat, r \in 0..t - 1 : 2 * n = s * t + r /\ (2 * n) \div t = s /\ (2 * n) % t = r
  <2>1. PICK a \in Nat : a = 2 * n
    OBVIOUS
  <2>2. PICK s \in Nat, r \in 0..t - 1 : a = s * t + r /\ a \div t = s
    BY Quotient
  <2>3. a % t = r
    BY <2>2
  <2>4. QED
    BY <2>1, <2>2, <2>3
<1>3. s >= 2
  <2>1. CASE s = 0
    BY <1>1, <1>2, <2>1
  <2>2. CASE s = 1
    BY <1>1, <1>2, <2>2
  <2>3. QED
    BY <2>1, <2>2
<1>4. SubLen = s /\ LastLen = r + s
  BY <1>1, <1>2 DEF SubLen, LastLen
<1>5. (t - 1) * s + (r + s) = 2 * n
  <2>1. (t - 1) * s = s * t - s
    OBVIOUS
  <2>2. PICK x \in Nat : x = s * t
    OBVIOUS
  <2>3. QED
    BY <1>2, <2>1, <2>2
<1>6. PICK x \in Nat : x = (t - 1) * s /\ x >= 0
  <2>1. t - 1 \in Nat
    OBVIOUS
  <2>2. (t - 1) * s \in Nat
    BY <2>1
  <2>3. QED
    BY <2>2
<1>7. r + s <= 2 * n /\ s <= 2 * n
  BY <1>5, <1>6
<1>8. MaxDepth \in Nat /\ CeilLog2(2 * n) <= MaxDepth
  <2> DEFINE f == [m \in ItemNums |-> CeilLog2(2 * m)]
             S == {CeilLog2(2 * m) : m \in ItemNums}
  <2>1. \A m \in ItemNums : f[m] \in Nat /\ f[m] = CeilLog2(2 * m)
    <3>1. TAKE m \in ItemNums
    <3>2. 2 * m \in Nat
      BY VoleAssumption
    <3>3. CeilLog2(2 * m) \in Nat
      BY <3>2, LogFacts
    <3>4. QED
      BY <3>3
  <2>2. PICK m \in ItemNums : \A k \in ItemNums : f[k] <= f[m]
    <3> HIDE DEF f
    <3>1. IsFiniteSet(ItemNums) /\ ItemNums # {}
      BY VoleAssumption
    <3>2. QED
      BY <2>1, <3>1, Greatest
  <2>3. f[m] \in S /\ \A v \in S : f[m] >= v
    BY <2>1, <2>2
  <2> HIDE DEF f
  <2>4. Max(S) \in S /\ \A v \in S : Max(S) >= v
    <3> HIDE DEF S
    <3>1. QED
      BY <2>3 DEF Max
  <2>5. MaxDepth = Max(S)
    BY DEF MaxDepth
  <2>6. \A v \in S : v \in Nat
    BY <2>1
  <2>7. CeilLog2(2 * n) \in S
    BY <1>1
  <2> HIDE DEF S
  <2>8. QED
    BY <2>4, <2>5, <2>6, <2>7
<1>9. ASSUME NEW i \in Trees
      PROVE  TreeLen(i) \in Nat /\ Depth(i) \in 1..MaxDepth /\ TreeLen(i) <= Pow2[Depth(i)]
  <2>1. PICK m \in Nat : m = TreeLen(i) /\ m >= 2 /\ m <= 2 * n
    BY <1>3, <1>4, <1>7 DEF TreeLen
  <2>2. PICK d \in Nat : d = Depth(i) /\ d = CeilLog2(m) /\ m <= Pow2[d]
    BY <2>1, LogFacts DEF Depth
  <2>3. d # 0
    BY <2>1, <2>2, Pow2Facts
  <2>4. d <= CeilLog2(2 * n) /\ CeilLog2(2 * n) \in Nat
    BY <2>1, <2>2, LogMonotone, LogFacts
  <2>5. d <= MaxDepth
    BY <1>8, <2>4
  <2>6. QED
    BY <1>8, <2>1, <2>2, <2>3, <2>5
<1>10. QED
  BY <1>1, <1>4, <1>5, <1>8, <1>9

-----------------------------------------------------------------------------
(***************************************************************************)
(* The trees: a full one, and A's, punctured at a leaf.                    *)
(***************************************************************************)
\* t is s but for entry p, which is v.
Replaced(t, s, n, p, v) == List(t, n) /\ \A k \in 1..n : t[k] = IF k # p THEN s[k] ELSE v

\* Where a node stands says whose child it is, and on which side.
LEMMA ChildIndex ==
  /\ \A p \in Nat, s \in {0, 1} : p >= 1 => Parent(2 * p - 1 + s) = p /\ Side(2 * p - 1 + s) = s
  /\ \A n \in Nat : \A k \in 1..2 * n : /\ Parent(k) \in 1..n /\ Side(k) \in {0, 1}
                                          /\ k = 2 * Parent(k) - 1 + Side(k)
<1>1. ASSUME NEW p \in Nat, NEW s \in {0, 1}, p >= 1
      PROVE  Parent(2 * p - 1 + s) = p /\ Side(2 * p - 1 + s) = s
  <2>1. (2 * p - 1 + s) + 1 = 2 * p + s
    OBVIOUS
  <2>2. (2 * p + s) \div 2 = p /\ (2 * p + s) % 2 = s
    OBVIOUS
  <2>3. QED
    BY <2>1, <2>2 DEF Parent, Side
<1>2. ASSUME NEW n \in Nat, NEW k \in 1..2 * n
      PROVE  /\ Parent(k) \in 1..n /\ Side(k) \in {0, 1}
             /\ k = 2 * Parent(k) - 1 + Side(k)
  <2>1. PICK q \in Int, r \in {0, 1} : k + 1 = 2 * q + r /\ q = (k + 1) \div 2 /\ r = (k + 1) % 2
    <3>1. PICK a \in Nat : a = k + 1
      OBVIOUS
    <3>2. 2 \in Nat \ {0}
      OBVIOUS
    <3>3. PICK q \in Nat, r \in 0..2 - 1 : a = q * 2 + r /\ a \div 2 = q
      BY <3>2, Quotient
    <3>4. r \in {0, 1} /\ (q * 2 + r) % 2 = r
      OBVIOUS
    <3>5. QED
      BY <3>1, <3>3, <3>4
  <2>2. q \in 1..n /\ k = 2 * q - 1 + r
    BY <2>1
  <2>3. QED
    BY <2>1, <2>2 DEF Parent, Side
<1>3. QED
  BY <1>1, <1>2

\* The children of a level.
LEMMA ChildrenFacts ==
  ASSUME NEW n \in Nat, NEW s, List(s, n)
  PROVE  /\ List(Children(s), 2 * n)
         /\ \A k \in 1..2 * n : Children(s)[k] = Prg(s[Parent(k)], Side(k))
         /\ \A p \in 1..n, e \in {0, 1} : /\ 2 * p - 1 + e \in 1..2 * n
                                          /\ Children(s)[2 * p - 1 + e] = Prg(s[p], e)
<1>1. Children(s) = [k \in 1..2 * n |-> Prg(s[Parent(k)], Side(k))]
  BY ListFacts DEF Children
<1>2. PICK t : t = Children(s)
  OBVIOUS
<1>3. \A k \in 1..2 * n : t[k] = Prg(s[Parent(k)], Side(k))
  BY <1>1, <1>2
<1>4. t = [k \in 1..2 * n |-> t[k]]
  BY <1>1, <1>2
<1>5. ASSUME NEW p \in 1..n, NEW e \in {0, 1}
      PROVE  2 * p - 1 + e \in 1..2 * n /\ t[2 * p - 1 + e] = Prg(s[p], e)
  <2>1. 2 * p - 1 + e \in 1..2 * n /\ p \in Nat /\ p >= 1
    OBVIOUS
  <2>2. Parent(2 * p - 1 + e) = p /\ Side(2 * p - 1 + e) = e
    BY <2>1, ChildIndex
  <2>3. QED
    BY <1>3, <2>1, <2>2
<1>6. QED
  BY <1>2, <1>3, <1>4, <1>5 DEF List

\* The levels of a full tree.
LEMMA NodesFacts ==
  ASSUME NEW root, MaxDepth \in Nat
  PROVE  /\ Nodes(root)[0] = <<root>>
         /\ \A d \in 1..MaxDepth : Nodes(root)[d] = Children(Nodes(root)[d - 1])
<1> DEFINE Up(n, f) == f = [d \in 0..n |-> IF d = 0 THEN <<root>> ELSE Children(f[d - 1])]
<1>1. \A n \in Nat : \E f : Up(n, f)
  <2> DEFINE T == {n \in Nat : \E f : Up(n, f)}
  <2>1. 0 \in T
    <3>1. Up(0, [d \in 0..0 |-> <<root>>])
      OBVIOUS
    <3> HIDE DEF Up
    <3>2. QED
      BY <3>1
  <2>2. ASSUME NEW n \in Nat, n \in T
        PROVE  n + 1 \in T
    <3>1. PICK f : Up(n, f)
      BY <2>2
    <3> DEFINE g == [d \in 0..n + 1 |-> IF d = n + 1 THEN Children(f[n]) ELSE f[d]]
    <3>2. /\ \A d \in 0..n : d # n + 1 /\ d \in 0..n + 1
          /\ n + 1 \in 0..n + 1
      OBVIOUS
    <3>3. g[n + 1] = Children(f[n]) /\ \A d \in 0..n : g[d] = f[d]
      BY <3>2
    <3>4. g = [d \in 0..n + 1 |-> g[d]]
      OBVIOUS
    <3>5. \A d \in 0..n : f[d] = IF d = 0 THEN <<root>> ELSE Children(f[d - 1])
      BY <3>1
    <3> HIDE DEF g
    <3>6. ASSUME NEW d \in 0..n + 1
          PROVE  g[d] = IF d = 0 THEN <<root>> ELSE Children(g[d - 1])
      <4>1. CASE d = n + 1
        <5>1. d # 0 /\ d - 1 = n /\ n \in 0..n
          BY <4>1
        <5>2. QED
          BY <3>3, <4>1, <5>1
      <4>2. CASE d # n + 1
        <5>1. d \in 0..n /\ (d # 0 => d - 1 \in 0..n)
          BY <4>2
        <5>2. QED
          BY <3>3, <3>5, <5>1
      <4>3. QED
        BY <4>1, <4>2
    <3>7. Up(n + 1, g)
      BY <3>4, <3>6
    <3> HIDE DEF Up
    <3>8. QED
      BY <3>7
  <2> HIDE DEF T
  <2>3. Nat \subseteq T
    BY <2>1, <2>2, NatInductionSet
  <2>4. QED
    BY <2>3 DEF T
<1>2. PICK f : f = (CHOOSE g : Up(MaxDepth, g)) /\ Up(MaxDepth, f)
  <2> HIDE DEF Up
  <2>1. QED
    BY <1>1
<1>3. Nodes(root) = [d \in 0..MaxDepth |-> f[d]]
  BY <1>2 DEF Nodes
<1>4. \A d \in 0..MaxDepth : f[d] = IF d = 0 THEN <<root>> ELSE Children(f[d - 1])
  BY <1>2
<1>5. \A d \in 0..MaxDepth : Nodes(root)[d] = f[d]
  BY <1>3
<1>6. ASSUME NEW d \in 1..MaxDepth
      PROVE  Nodes(root)[d] = Children(Nodes(root)[d - 1])
  <2>1. d # 0 /\ d \in 0..MaxDepth /\ d - 1 \in 0..MaxDepth
    OBVIOUS
  <2>2. QED
    BY <1>4, <1>5, <2>1
<1>7. Nodes(root)[0] = <<root>>
  <2>1. 0 \in 0..MaxDepth
    OBVIOUS
  <2>2. QED
    BY <1>4, <1>5, <2>1
<1>8. QED
  BY <1>6, <1>7

\* The levels of a full tree as lists of nodes.
Levels(T, depth) ==
  /\ List(T[0], 1)
  /\ \A d \in 1..depth : T[d] = Children(T[d - 1])

\* Level d has 2^d nodes, and a node is not a hole.
LEMMA LevelFacts ==
  ASSUME NEW depth \in Nat, NEW T, Levels(T, depth), T[0][1] # Hole, NEW d \in 0..depth
  PROVE  List(T[d], Pow2[d]) /\ \A k \in 1..Pow2[d] : T[d][k] # Hole
<1> DEFINE S == {e \in Nat : e <= depth => List(T[e], Pow2[e]) /\ \A k \in 1..Pow2[e] : T[e][k] # Hole}
<1>1. 0 \in S
  <2>1. Pow2[0] = 1
    BY Pow2Facts
  <2>2. \A k \in 1..1 : k = 1
    OBVIOUS
  <2>3. QED
    BY <2>1, <2>2 DEF Levels
<1>2. ASSUME NEW e \in Nat, e \in S
      PROVE  e + 1 \in S
  <2>1. SUFFICES ASSUME e + 1 <= depth
                 PROVE  List(T[e + 1], Pow2[e + 1]) /\ \A k \in 1..Pow2[e + 1] : T[e + 1][k] # Hole
    OBVIOUS
  <2>2. PICK n \in Nat : n = Pow2[e] /\ Pow2[e + 1] = 2 * n
    BY Pow2Facts
  <2>3. List(T[e], n)
    BY <1>2, <2>1, <2>2
  <2>4. T[e + 1] = Children(T[e])
    <3>1. e + 1 \in 1..depth /\ (e + 1) - 1 = e
      BY <2>1
    <3>2. QED
      BY <3>1 DEF Levels
  <2>5. PICK s, t : s = T[e] /\ t = T[e + 1] /\ t = Children(s)
    BY <2>4
  <2>6. List(t, 2 * n) /\ \A k \in 1..2 * n : t[k] = Prg(s[Parent(k)], Side(k))
    BY <2>3, <2>5, ChildrenFacts
  <2>7. ASSUME NEW A, NEW b PROVE Prg(A, b) # Hole
    <3>1. <<"ggm", A, b>> # <<"hole">>
      <4>1. <<"ggm", A, b>>[1] = "ggm" /\ <<"hole">>[1] = "hole"
        OBVIOUS
      <4>2. QED
        BY <4>1
    <3>2. PICK u, v : u = <<"ggm", A, b>> /\ v = <<"hole">>
      OBVIOUS
    <3>4. Prg(A, b) = {u} /\ Hole = {v} /\ u # v
      BY <3>1, <3>2 DEF Prg, Hole
    <3>3. QED
      BY <3>4
  <2>8. QED
    BY <2>2, <2>5, <2>6, <2>7
<1> HIDE DEF S
<1>3. Nat \subseteq S
  BY <1>1, <1>2, NatInductionSet
<1>4. d \in Nat /\ d <= depth
  OBVIOUS
<1>5. QED
  BY <1>3, <1>4 DEF S

\* The sum of a level's nodes on one side.
LEMMA LevelSumIs ==
  ASSUME NEW n \in Nat, NEW s, List(s, n), NEW e \in {0, 1}
  PROVE  LevelSum(Children(s), e) = Sum([k \in 1..n |-> Prg(s[k], e)])
<1>1. PICK t : t = Children(s) /\ List(t, 2 * n) /\ \A p \in 1..n : t[2 * p - 1 + e] = Prg(s[p], e)
  BY ChildrenFacts
<1>2. Len(t) \div 2 = n
  <2>1. 2 * n \in Nat /\ (2 * n) \div 2 = n
    OBVIOUS
  <2>2. Len(t) = 2 * n
    BY <1>1, <2>1, ListFacts
  <2>3. QED
    BY <2>1, <2>2
<1>3. [k \in 1..n |-> t[2 * k - 1 + e]] = [k \in 1..n |-> Prg(s[k], e)]
  BY <1>1
<1>4. QED
  BY <1>1, <1>2, <1>3 DEF LevelSum

\* One step down: the sum of a level's children on a side, and all of them but
\* one, give that one.
LEMMA GrowStep ==
  ASSUME NEW n \in Nat, NEW s, List(s, n), \A k \in 1..n : s[k] # Hole,
         NEW p \in 1..n, NEW nodes, Replaced(nodes, s, n, p, Hole),
         NEW side \in {0, 1}, NEW x, NEW beta,
         beta = Hole \/ /\ beta # Hole
                        /\ beta = Add(Add(LevelSum(Children(s), 0), LevelSum(Children(s), 1)), x)
  PROVE  Replaced(Grow(nodes, LevelSum(Children(s), side), side, beta), Children(s), 2 * n, 2 * p - side,
                  IF beta = Hole THEN Hole ELSE Add(Children(s)[2 * p - side], x))
<1>12. \A k \in 1..2 * n : Children(s)[k] = Prg(s[Parent(k)], Side(k))
  BY ChildrenFacts
<1> DEFINE total(e) == LevelSum(Children(s), e)
           rest(e) == Sum([k \in DOMAIN nodes |-> IF nodes[k] = Hole THEN Zero ELSE Prg(nodes[k], e)])
           child(e) == IF e # side /\ beta = Hole THEN Hole
                       ELSE Add(Add(total(side), rest(e)), IF e = side THEN Zero ELSE beta)
           under == [e \in {0, 1} |-> child(e)]
           other == 1 - side
<1>1. DOMAIN nodes = 1..n /\ \A k \in 1..n : /\ nodes[k] = Hole <=> k = p
                                             /\ k # p => nodes[k] = s[k]
  BY ListFacts DEF Replaced
<1>2. ASSUME NEW e \in {0, 1}
      PROVE  total(e) = Add(rest(e), Prg(s[p], e))
  <2> DEFINE a == [k \in DOMAIN nodes |-> IF nodes[k] = Hole THEN Zero ELSE Prg(nodes[k], e)]
             b == [k \in 1..n |-> IF k = p THEN Prg(s[p], e) ELSE Zero]
             c == [k \in 1..n |-> Prg(s[k], e)]
  <2>1. total(e) = Sum(c)
    BY LevelSumIs
  <2>2. rest(e) = Sum(a)
    OBVIOUS
  <2>3. \A k \in 1..n : a[k] = (IF k = p THEN Zero ELSE Prg(s[k], e)) /\ b[k] = (IF k = p THEN Prg(s[p], e) ELSE Zero)
                        /\ c[k] = Prg(s[k], e)
    BY <1>1
  <2>4. DOMAIN a = 1..n /\ DOMAIN b = 1..n /\ DOMAIN c = 1..n /\ IsFiniteSet(1..n)
    BY <1>1, FS_Interval
  <2> HIDE DEF a, b, c
  <2>5. \A k \in 1..n : c[k] = Add(a[k], b[k])
    BY <2>3, AddFacts
  <2>6. Sum(c) = Add(Sum(a), Sum(b))
    BY <2>4, <2>5, SumAdd
  <2>7. Sum(b) = b[p]
    <3>1. \A k \in 1..n : k # p => b[k] = Zero
      BY <2>3
    <3>2. QED
      BY <2>4, <3>1, SumOne
  <2>8. b[p] = Prg(s[p], e)
    BY <2>3
  <2>9. QED
    BY <2>1, <2>2, <2>6, <2>7, <2>8
<1>3. Grow(nodes, total(side), side, beta)
        = [k \in 1..2 * n |-> IF nodes[Parent(k)] = Hole THEN under[Side(k)] ELSE Prg(nodes[Parent(k)], Side(k))]
  <2>1. Len(nodes) = n
    BY ListFacts DEF Replaced
  <2>2. QED
    BY <2>1 DEF Grow
<1>4. under[side] = Prg(s[p], side)
  <2>1. under[side] = Add(Add(total(side), rest(side)), Zero)
    OBVIOUS
  <2>2. total(side) = Add(rest(side), Prg(s[p], side))
    BY <1>2
  <2> HIDE DEF total, rest
  <2>3. QED
    BY <2>1, <2>2, AddFacts
<1>5. other \in {0, 1} /\ other # side
  OBVIOUS
<1>6. under[other] = IF beta = Hole THEN Hole ELSE Add(Prg(s[p], other), x)
  <2>1. CASE beta = Hole
    BY <1>5, <2>1
  <2>2. CASE beta # Hole
    <3>1. under[other] = Add(Add(total(side), rest(other)), beta)
      BY <1>5, <2>2
    <3>2. total(other) = Add(rest(other), Prg(s[p], other))
      BY <1>2, <1>5
    <3>3. beta = Add(Add(total(side), total(other)), x)
      <4>1. beta = Add(Add(total(0), total(1)), x)
        BY <2>2
      <4>2. (side = 0 /\ other = 1) \/ (side = 1 /\ other = 0)
        OBVIOUS
      <4> HIDE DEF total, other
      <4>3. QED
        BY <4>1, <4>2, AddFacts
    <3> HIDE DEF total, rest, other, under
    <3>4. \A A, B, C, y : Add(Add(A, B), Add(Add(A, Add(B, C)), y)) = Add(C, y)
      <4>1. ASSUME NEW A, NEW B, NEW C, NEW y
            PROVE  Add(Add(A, B), Add(Add(A, Add(B, C)), y)) = Add(C, y)
        <5>1. \A z : z \in Add(Add(A, B), Add(Add(A, Add(B, C)), y)) <=> z \in Add(C, y)
          BY InAdd
        <5>2. QED
          BY <5>1
      <4>2. QED
        BY <4>1
    <3>5. QED
      BY <2>2, <3>1, <3>2, <3>3, <3>4
  <2>3. QED
    BY <2>1, <2>2
<1>7. ASSUME NEW k \in 1..2 * n
      PROVE  (IF nodes[Parent(k)] = Hole THEN under[Side(k)] ELSE Prg(nodes[Parent(k)], Side(k)))
               = IF k # 2 * p - side THEN Children(s)[k]
                 ELSE IF beta = Hole THEN Hole ELSE Add(Children(s)[k], x)
  <2>1. PICK q \in 1..n, e \in {0, 1} : q = Parent(k) /\ e = Side(k) /\ k = 2 * q - 1 + e
    BY ChildIndex
  <2>2. Children(s)[k] = Prg(s[q], e)
    BY <1>12, <2>1
  <2>3. k = 2 * p - side <=> q = p /\ e = other
    BY <2>1
  <2> HIDE DEF under
  <2>4. CASE q # p
    BY <1>1, <2>1, <2>2, <2>3, <2>4
  <2>5. CASE q = p /\ e = side
    BY <1>1, <1>4, <1>5, <2>1, <2>2, <2>3, <2>5
  <2>6. CASE q = p /\ e = other
    <3> HIDE DEF other
    <3>1. QED
      BY <1>1, <1>6, <2>1, <2>2, <2>3, <2>6
  <2>7. e = side \/ e = other
    OBVIOUS
  <2>8. QED
    BY <2>4, <2>5, <2>6, <2>7
<1> DEFINE value(k) == IF nodes[Parent(k)] = Hole THEN under[Side(k)] ELSE Prg(nodes[Parent(k)], Side(k))
           wanted(k) == IF k # 2 * p - side THEN Children(s)[k]
                        ELSE IF beta = Hole THEN Hole ELSE Add(Children(s)[k], x)
<1>10. \A k \in 1..2 * n : value(k) = wanted(k)
  BY <1>7
<1>11. [k \in 1..2 * n |-> value(k)] = [k \in 1..2 * n |-> wanted(k)]
  <2> HIDE DEF value, wanted
  <2>1. QED
    BY <1>10
<1> HIDE DEF total, under
<1>8. PICK g : g = Grow(nodes, total(side), side, beta) /\ g = [k \in 1..2 * n |-> wanted(k)]
  BY <1>3, <1>11
<1>9. List(g, 2 * n) /\ \A k \in 1..2 * n : g[k] = wanted(k)
  <2> HIDE DEF wanted
  <2>1. QED
    BY <1>8 DEF List
<1>13. \A k \in 1..2 * n : g[k] = IF k # 2 * p - side THEN Children(s)[k]
                              ELSE IF beta = Hole THEN Hole ELSE Add(Children(s)[2 * p - side], x)
  BY <1>9
<1>14. QED
  BY <1>8, <1>9, <1>13 DEF total, Replaced

\* The punctured tree, from the sums of the nodes beside the path to a leaf:
\* every leaf but one, and that one as corrected.
LEMMA PuncturedTree ==
  ASSUME NEW depth \in Nat \ {0}, NEW T, Levels(T, depth), T[0][1] # Hole,
         NEW bits, \A d \in 1..depth : bits[d] \in {0, 1},
         NEW q, q[0] = 0, \A d \in 1..depth : q[d] = 2 * q[d - 1] + 1 - bits[d],
         \A d \in 0..depth : q[d] \in 0..Pow2[d] - 1,
         NEW m, \A d \in 1..depth : m[d] = LevelSum(T[d], bits[d]),
         NEW x, NEW beta, beta # Hole,
         beta = Add(Add(LevelSum(T[depth], 0), LevelSum(T[depth], 1)), x)
  PROVE  Replaced(PuncEval(depth, beta, m, bits), T[depth], Pow2[depth], q[depth] + 1,
                  Add(T[depth][q[depth] + 1], x))
<1> DEFINE Holed(g, d, b) == Replaced(g, T[d], Pow2[d], q[d] + 1,
                                      IF b = Hole THEN Hole ELSE Add(T[d][q[d] + 1], x))
           Is(f) == f = [d \in 0..depth - 1 |-> IF d = 0 THEN <<Hole>> ELSE Grow(f[d - 1], m[d], bits[d], Hole)]
<1>1. ASSUME NEW d \in 1..depth, NEW g, Holed(g, d - 1, Hole),
             NEW b, b = Hole \/ /\ b # Hole
                                /\ b = Add(Add(LevelSum(T[d], 0), LevelSum(T[d], 1)), x)
      PROVE  Holed(Grow(g, m[d], bits[d], b), d, b)
  <2>1. d - 1 \in Nat /\ d - 1 \in 0..depth /\ (d - 1) + 1 = d /\ depth \in Nat
    OBVIOUS
  <2>2. PICK n \in Nat : n = Pow2[d - 1] /\ Pow2[d] = 2 * n
    <3>1. PICK c \in Nat : c = d - 1 /\ c + 1 = d
      BY <2>1
    <3>2. Pow2[c] \in Nat /\ Pow2[c + 1] = 2 * Pow2[c]
      BY Pow2Facts
    <3>3. QED
      BY <3>1, <3>2
  <2>3. PICK s : s = T[d - 1]
    OBVIOUS
  <2>4. List(s, n) /\ \A k \in 1..n : s[k] # Hole
    BY <1>1, <2>1, <2>2, <2>3, LevelFacts
  <2>5. T[d] = Children(s)
    BY <2>3 DEF Levels
  <2>6. PICK p \in 1..n, side \in {0, 1} : p = q[d - 1] + 1 /\ side = bits[d] /\ 2 * p - side = q[d] + 1
    <3>1. q[d - 1] \in 0..n - 1 /\ q[d] = 2 * q[d - 1] + 1 - bits[d] /\ bits[d] \in {0, 1}
      BY <2>1, <2>2
    <3>2. q[d - 1] + 1 \in 1..n /\ 2 * (q[d - 1] + 1) - bits[d] = q[d] + 1
      BY <2>2, <3>1
    <3>3. QED
      BY <3>1, <3>2
  <2>7. m[d] = LevelSum(Children(s), side)
    BY <2>5, <2>6
  <2>8. Replaced(g, s, n, p, Hole)
    BY <1>1, <2>2, <2>3, <2>6
  <2>9. b = Hole \/ /\ b # Hole
                    /\ b = Add(Add(LevelSum(Children(s), 0), LevelSum(Children(s), 1)), x)
    BY <1>1, <2>5
  <2> HIDE DEF Holed
  <2>10. Replaced(Grow(g, LevelSum(Children(s), side), side, b), Children(s), 2 * n, 2 * p - side,
                 IF b = Hole THEN Hole ELSE Add(Children(s)[2 * p - side], x))
    BY <2>4, <2>8, <2>9, GrowStep
  <2>11. QED
    BY <2>2, <2>5, <2>6, <2>7, <2>10 DEF Holed
<1>2. Holed(<<Hole>>, 0, Hole)
  <2>1. Pow2[0] = 1
    BY Pow2Facts
  <2>2. \A k \in 1..1 : k = 1
    OBVIOUS
  <2>3. <<Hole>> = [k \in 1..1 |-> <<Hole>>[k]] /\ <<Hole>>[1] = Hole
    OBVIOUS
  <2>4. QED
    BY <2>1, <2>2, <2>3 DEF List, Replaced
<1> DEFINE at(d) == [k \in 1..Pow2[d] |-> IF k # q[d] + 1 THEN T[d][k] ELSE Hole]
           h == [d \in 0..depth - 1 |-> at(d)]
<1>3. \A d \in 0..depth : Holed(at(d), d, Hole) /\ \A g : Holed(g, d, Hole) => g = at(d)
  <2>1. TAKE d \in 0..depth
  <2>2. PICK t : t = at(d) /\ t = [k \in 1..Pow2[d] |-> IF k # q[d] + 1 THEN T[d][k] ELSE Hole]
    OBVIOUS
  <2>3. \A k \in 1..Pow2[d] : t[k] = IF k # q[d] + 1 THEN T[d][k] ELSE Hole
    BY <2>2
  <2>4. t = [k \in 1..Pow2[d] |-> t[k]]
    BY <2>2
  <2> HIDE DEF at
  <2>5. Holed(t, d, Hole)
    BY <2>3, <2>4 DEF List, Replaced
  <2>6. ASSUME NEW g, Holed(g, d, Hole)
        PROVE  g = t
    <3>1. g = [k \in 1..Pow2[d] |-> g[k]] /\ \A k \in 1..Pow2[d] : g[k] = t[k]
      BY <2>3, <2>6 DEF List, Replaced
    <3>2. QED
      BY <2>4, <3>1
  <2> HIDE DEF Holed
  <2>7. QED
    BY <2>2, <2>5, <2>6
<1>4. ASSUME NEW d \in 1..depth
      PROVE  Grow(at(d - 1), m[d], bits[d], Hole) = at(d)
  <2>1. d - 1 \in 0..depth /\ d \in 0..depth
    OBVIOUS
  <2> HIDE DEF at, Holed
  <2>2. Holed(Grow(at(d - 1), m[d], bits[d], Hole), d, Hole)
    BY <1>1, <1>3, <2>1
  <2>3. QED
    BY <1>3, <2>1, <2>2
<1>5. at(0) = <<Hole>>
  <2>1. 0 \in 0..depth
    OBVIOUS
  <2> HIDE DEF at, Holed
  <2>2. QED
    BY <1>2, <1>3, <2>1
<1>6. Is(h)
  <2>1. ASSUME NEW d \in 0..depth - 1
        PROVE  h[d] = IF d = 0 THEN <<Hole>> ELSE Grow(h[d - 1], m[d], bits[d], Hole)
    <3>1. h[d] = at(d)
      OBVIOUS
    <3>2. CASE d = 0
      BY <1>5, <3>1, <3>2
    <3>3. CASE d # 0
      <4>1. d \in 1..depth /\ d - 1 \in 0..depth - 1
        BY <3>3
      <4>2. h[d - 1] = at(d - 1)
        BY <4>1
      <4> HIDE DEF h, at
      <4>3. QED
        BY <1>4, <3>1, <3>3, <4>1, <4>2
    <3>4. QED
      BY <3>2, <3>3
  <2>2. h = [d \in 0..depth - 1 |-> h[d]]
    OBVIOUS
  <2> HIDE DEF h
  <2>3. QED
    BY <2>1, <2>2
<1>7. PICK f : f = (CHOOSE g : Is(g)) /\ Is(f)
  <2> HIDE DEF Is
  <2>1. QED
    BY <1>6
<1> DEFINE S == {d \in Nat : d <= depth - 1 => Holed(f[d], d, Hole)}
<1>8. \A d \in 0..depth - 1 : f[d] = IF d = 0 THEN <<Hole>> ELSE Grow(f[d - 1], m[d], bits[d], Hole)
  BY <1>7
<1>9. 0 \in S
  <2>1. 0 \in 0..depth - 1
    OBVIOUS
  <2> HIDE DEF Holed
  <2>2. QED
    BY <1>2, <1>8, <2>1
<1>10. ASSUME NEW d \in Nat, d \in S
       PROVE  d + 1 \in S
  <2> HIDE DEF Holed
  <2>1. SUFFICES ASSUME d + 1 <= depth - 1 PROVE Holed(f[d + 1], d + 1, Hole)
    OBVIOUS
  <2>2. PICK e \in 1..depth : e = d + 1 /\ e - 1 = d /\ e \in 0..depth - 1 /\ e # 0
    <3>1. d + 1 \in 1..depth /\ (d + 1) - 1 = d /\ d + 1 \in 0..depth - 1 /\ d + 1 # 0
      BY <2>1
    <3>2. QED
      BY <3>1
  <2>3. Holed(f[e - 1], e - 1, Hole)
    BY <1>10, <2>1, <2>2
  <2>4. f[e] = Grow(f[e - 1], m[e], bits[e], Hole)
    BY <1>8, <2>2
  <2>5. Holed(Grow(f[e - 1], m[e], bits[e], Hole), e, Hole)
    BY <1>1, <2>3
  <2>6. QED
    BY <2>2, <2>4, <2>5
<1> HIDE DEF S
<1>11. Nat \subseteq S
  BY <1>9, <1>10, NatInductionSet
<1>12. Holed(f[depth - 1], depth - 1, Hole)
  <2>1. depth - 1 \in Nat /\ depth - 1 <= depth - 1
    OBVIOUS
  <2> HIDE DEF Holed
  <2>2. QED
    BY <1>11, <2>1 DEF S
<1>13. PuncEval(depth, beta, m, bits) = Grow(f[depth - 1], m[depth], bits[depth], beta)
  BY <1>7 DEF PuncEval
<1>14. Holed(Grow(f[depth - 1], m[depth], bits[depth], beta), depth, beta)
  <2>1. depth \in 1..depth
    OBVIOUS
  <2> HIDE DEF Holed
  <2>2. QED
    BY <1>1, <1>12, <2>1
<1>15. QED
  BY <1>13, <1>14

\* The VOLE relation, entry by entry.
Related(a, b, c, n) ==
  /\ List(a, n) /\ List(b, n) /\ List(c, n)
  /\ \A k \in 1..n : b[k] = Add(c[k], TimesDelta(a[k]))

\* Related pieces make related lists.
LEMMA FlatRelated ==
  ASSUME NEW t \in Nat \ {0}, NEW L \in Nat, NEW len, NEW n, Lengths(t, L, len, n),
         NEW a, List(a, t), NEW b, List(b, t), NEW c, List(c, t),
         \A i \in 1..t : Related(a[i], b[i], c[i], len[i])
  PROVE  Related(FlattenSeq(a), FlattenSeq(b), FlattenSeq(c), n)
<1>1. PICK u, v, w : u = FlattenSeq(a) /\ v = FlattenSeq(b) /\ w = FlattenSeq(c)
  OBVIOUS
<1>2. List(u, n) /\ PiecesIn(u, a, t, L, len, n)
  <2>1. \A i \in 1..t : List(a[i], len[i])
    BY DEF Related
  <2>2. QED
    BY <1>1, <2>1, FlatAt
<1>3. List(v, n) /\ PiecesIn(v, b, t, L, len, n)
  <2>1. \A i \in 1..t : List(b[i], len[i])
    BY DEF Related
  <2>2. QED
    BY <1>1, <2>1, FlatAt
<1>4. List(w, n) /\ PiecesIn(w, c, t, L, len, n)
  <2>1. \A i \in 1..t : List(c[i], len[i])
    BY DEF Related
  <2>2. QED
    BY <1>1, <2>1, FlatAt
<1>5. ASSUME NEW r \in 1..n
      PROVE  v[r] = Add(w[r], TimesDelta(u[r]))
  <2>1. PICK i \in 1..t : \E k \in 1..len[i] : r = (i - 1) * L + k
    BY FlatCover
  <2>2. PICK k \in 1..len[i] : r = (i - 1) * L + k
    BY <2>1
  <2>3. u[r] = a[i][k] /\ v[r] = b[i][k] /\ w[r] = c[i][k]
    BY <1>2, <1>3, <1>4, <2>2 DEF PiecesIn
  <2>4. b[i][k] = Add(c[i][k], TimesDelta(a[i][k]))
    BY DEF Related
  <2>5. QED
    BY <2>3, <2>4
<1>6. Related(u, v, w, n)
  BY <1>2, <1>3, <1>4, <1>5 DEF Related
<1>7. QED
  BY <1>1, <1>6

-----------------------------------------------------------------------------
(***************************************************************************)
(* The code is linear.                                                     *)
(***************************************************************************)
LEMMA SumRelated ==
  ASSUME NEW D, IsFiniteSet(D), NEW a, DOMAIN a = D, NEW b, DOMAIN b = D, NEW c, DOMAIN c = D,
         \A k \in D : b[k] = Add(c[k], TimesDelta(a[k]))
  PROVE  Sum(b) = Add(Sum(c), TimesDelta(Sum(a)))
<1>1. PICK t : t = [k \in D |-> TimesDelta(a[k])]
  OBVIOUS
<1>2. DOMAIN t = D /\ \A k \in D : t[k] = TimesDelta(a[k])
  BY <1>1
<1>3. Sum(t) = TimesDelta(Sum(a))
  BY <1>2, TimesDeltaSum
<1>4. \A k \in D : b[k] = Add(c[k], t[k])
  BY <1>2
<1>5. Sum(b) = Add(Sum(c), Sum(t))
  BY <1>2, <1>4, SumAdd
<1>6. QED
  BY <1>3, <1>5

\* A list with one more entry.
Extended(u, s, v) == u = Append(s, v)

\* Its entries are the old ones and the new one.
LEMMA AppendList ==
  ASSUME NEW n \in Nat, NEW s, List(s, n), NEW v, NEW u, Extended(u, s, v)
  PROVE  List(u, n + 1) /\ (\A k \in 1..n : u[k] = s[k]) /\ u[n + 1] = v
<1> DEFINE A == {s[k] : k \in 1..n} \cup {v}
<1>1. (\A k \in 1..n : s[k] \in A) /\ v \in A
  OBVIOUS
<1> HIDE DEF A
<1>2. s \in [1..n -> A]
  BY <1>1 DEF List
<1>3. s \in Seq(A) /\ Len(s) = n
  BY <1>2
<1>4. Append(s, v) \in Seq(A) /\ Len(Append(s, v)) = n + 1
  BY <1>1, <1>3, AppendProperties
<1>5. u = [k \in 1..n + 1 |-> u[k]]
  <2>1. Append(s, v) \in [1..Len(Append(s, v)) -> A]
    BY <1>4, LenProperties
  <2>2. u \in [1..n + 1 -> A]
    BY <1>4, <2>1 DEF Extended
  <2>3. QED
    BY <2>2
<1>6. (\A k \in 1..n : Append(s, v)[k] = s[k]) /\ Append(s, v)[n + 1] = v
  <2>1. \A k \in 1..Len(s) : Append(s, v)[k] = s[k]
    BY <1>1, <1>3, AppendProperties
  <2>2. Append(s, v)[Len(s) + 1] = v
    BY <1>1, <1>3, AppendProperties
  <2>3. QED
    BY <1>3, <2>1, <2>2
<1>7. QED
  <2>1. PICK w : w = Append(s, v) /\ w = u
    BY DEF Extended
  <2>2. (\A k \in 1..n : w[k] = s[k]) /\ w[n + 1] = v
    BY <1>6, <2>1
  <2>3. QED
    BY <1>5, <2>1, <2>2 DEF List

\* What is added to the next position.
Addends(s, key, n, x, d, j) ==
  /\ List(s, 1 + j) /\ s[1] = x[j + 1]
  /\ \A i \in 1..j : s[1 + i] = IF j + 1 \in Tapped(key, i, n) THEN d[i] ELSE Zero

\* The next position that accumulate finishes.
LEMMA NextPosition ==
  ASSUME NEW key, NEW n \in Nat, NEW x, List(x, n), NEW j \in Nat, NEW d, List(d, j)
  PROVE  \E s : Addends(s, key, n, x, d, j) /\ Extended(AppendNext(key, x, d), d, Sum(s))
<1>1. Len(d) = j /\ Len(x) = n
  BY ListFacts
<1>2. PICK u, v : u = <<x[j + 1]>> /\ v = [i \in 1..j |-> IF j + 1 \in Tapped(key, i, n) THEN d[i] ELSE Zero]
  OBVIOUS
<1>3. PICK s : JoinedTo(s, u, v)
  BY DEF JoinedTo
<1>4. AppendNext(key, x, d) = Append(d, Sum(s))
  <2>1. PICK m : m = j + 1 /\ m - 1 = j
    OBVIOUS
  <2>2. AppendNext(key, x, d) =
          Append(d, Sum(<<x[m]>> \o [i \in 1..m - 1 |-> IF m \in Tapped(key, i, n) THEN d[i] ELSE Zero]))
    BY <1>1, <2>1 DEF AppendNext
  <2>3. QED
    BY <1>2, <1>3, <2>1, <2>2 DEF JoinedTo
<1>5. List(u, 1) /\ u[1] = x[j + 1]
  BY <1>2 DEF List
<1>6. List(v, j) /\ \A i \in 1..j : v[i] = IF j + 1 \in Tapped(key, i, n) THEN d[i] ELSE Zero
  BY <1>2 DEF List
<1>7. List(s, 1 + j) /\ s[1] = u[1] /\ \A i \in 1..j : s[1 + i] = v[i]
  <2>1. 1 \in Nat /\ 1 \in 1..1
    OBVIOUS
  <2>2. List(s, 1 + j)
    BY <1>3, <1>5, <1>6, <2>1, ConcatList
  <2>3. \A k \in 1..1 : s[k] = u[k]
    BY <1>3, <1>5, <1>6, <2>1, ConcatList
  <2>4. \A i \in 1..j : s[1 + i] = v[i]
    BY <1>3, <1>5, <1>6, <2>1, ConcatList
  <2>5. QED
    BY <2>1, <2>2, <2>3, <2>4
<1>8. QED
  BY <1>4, <1>5, <1>6, <1>7 DEF Addends, Extended

\* One more position of three related lists.
LEMMA NextRelated ==
  ASSUME NEW key, NEW n \in Nat, NEW a, NEW b, NEW c, Related(a, b, c, n),
         NEW j \in Nat, j + 1 <= n, NEW d, NEW e, NEW f, Related(d, e, f, j)
  PROVE  Related(AppendNext(key, a, d), AppendNext(key, b, e), AppendNext(key, c, f), j + 1)
<1>1. List(a, n) /\ List(b, n) /\ List(c, n) /\ List(d, j) /\ List(e, j) /\ List(f, j)
  BY DEF Related
<1>2. PICK s, u : u = AppendNext(key, a, d) /\ Addends(s, key, n, a, d, j) /\ Extended(u, d, Sum(s))
  BY <1>1, NextPosition
<1>3. PICK t, v : v = AppendNext(key, b, e) /\ Addends(t, key, n, b, e, j) /\ Extended(v, e, Sum(t))
  BY <1>1, NextPosition
<1>4. PICK r, w : w = AppendNext(key, c, f) /\ Addends(r, key, n, c, f, j) /\ Extended(w, f, Sum(r))
  BY <1>1, NextPosition
<1>5. ASSUME NEW k \in 1..1 + j
      PROVE  t[k] = Add(r[k], TimesDelta(s[k]))
  <2>1. CASE k = 1
    <3>1. j + 1 \in 1..n
      OBVIOUS
    <3>2. t[1] = b[j + 1] /\ r[1] = c[j + 1] /\ s[1] = a[j + 1]
      BY <1>2, <1>3, <1>4 DEF Addends
    <3>3. QED
      BY <2>1, <3>1, <3>2 DEF Related
  <2>2. CASE k # 1
    <3>1. PICK i \in 1..j : k = 1 + i
      <4>1. k - 1 \in 1..j /\ k = 1 + (k - 1)
        BY <2>2
      <4>2. QED
        BY <4>1
    <3>2. /\ t[k] = IF j + 1 \in Tapped(key, i, n) THEN e[i] ELSE Zero
          /\ r[k] = IF j + 1 \in Tapped(key, i, n) THEN f[i] ELSE Zero
          /\ s[k] = IF j + 1 \in Tapped(key, i, n) THEN d[i] ELSE Zero
      BY <1>2, <1>3, <1>4, <3>1 DEF Addends
    <3>3. e[i] = Add(f[i], TimesDelta(d[i]))
      BY DEF Related
    <3>4. Zero = Add(Zero, TimesDelta(Zero))
      BY TimesDeltaZero, AddFacts
    <3>5. QED
      BY <3>2, <3>3, <3>4
  <2>3. QED
    BY <2>1, <2>2
<1>6. Sum(t) = Add(Sum(r), TimesDelta(Sum(s)))
  <2>1. DOMAIN s = 1..1 + j /\ DOMAIN t = 1..1 + j /\ DOMAIN r = 1..1 + j
    <3>1. 1 + j \in Nat
      OBVIOUS
    <3>2. QED
      BY <1>2, <1>3, <1>4, <3>1, ListFacts DEF Addends
  <2>2. IsFiniteSet(1..1 + j)
    BY FS_Interval
  <2>3. QED
    BY <1>5, <2>1, <2>2, SumRelated
<1>7. List(u, j + 1) /\ (\A k \in 1..j : u[k] = d[k]) /\ u[j + 1] = Sum(s)
  BY <1>1, <1>2, AppendList
<1>8. List(v, j + 1) /\ (\A k \in 1..j : v[k] = e[k]) /\ v[j + 1] = Sum(t)
  BY <1>1, <1>3, AppendList
<1>9. List(w, j + 1) /\ (\A k \in 1..j : w[k] = f[k]) /\ w[j + 1] = Sum(r)
  BY <1>1, <1>4, AppendList
<1>10. ASSUME NEW k \in 1..j + 1
       PROVE  v[k] = Add(w[k], TimesDelta(u[k]))
  <2>1. CASE k = j + 1
    BY <1>6, <1>7, <1>8, <1>9, <2>1
  <2>2. CASE k # j + 1
    <3>1. k \in 1..j
      BY <2>2
    <3>2. e[k] = Add(f[k], TimesDelta(d[k]))
      BY <3>1 DEF Related
    <3>3. QED
      BY <1>7, <1>8, <1>9, <3>1, <3>2
  <2>3. QED
    BY <2>1, <2>2
<1>11. Related(u, v, w, j + 1)
  BY <1>7, <1>8, <1>9, <1>10 DEF Related
<1>12. QED
  BY <1>2, <1>3, <1>4, <1>11

\* Accumulation adds the positions one by one.
Adding(f, key, n, x) ==
  f[0] = << >> /\ \A j \in 1..n : f[j] = AppendNext(key, x, f[j - 1])

\* accumulate, position by position.
LEMMA AccumulateSteps ==
  ASSUME NEW key, NEW n \in Nat, NEW x, List(x, n)
  PROVE  \E f : Adding(f, key, n, x) /\ Accumulate(key, x) = f[n]
<1> DEFINE Up(m, f) == f = [j \in 0..m |-> IF j = 0 THEN << >> ELSE AppendNext(key, x, f[j - 1])]
<1>1. \A m \in Nat : \E f : Up(m, f)
  <2> DEFINE T == {m \in Nat : \E f : Up(m, f)}
  <2>1. 0 \in T
    <3>1. Up(0, [j \in 0..0 |-> << >>])
      OBVIOUS
    <3> HIDE DEF Up
    <3>2. QED
      BY <3>1
  <2>2. ASSUME NEW m \in Nat, m \in T
        PROVE  m + 1 \in T
    <3>1. PICK f : Up(m, f)
      BY <2>2
    <3> DEFINE g == [j \in 0..m + 1 |-> IF j # m + 1 THEN f[j] ELSE AppendNext(key, x, f[m])]
    <3>2. \A j \in 0..m : j # m + 1 /\ j \in 0..m + 1
      OBVIOUS
    <3>3. (\A j \in 0..m : g[j] = f[j]) /\ g[m + 1] = AppendNext(key, x, f[m])
      BY <3>2
    <3>4. g = [j \in 0..m + 1 |-> g[j]]
      OBVIOUS
    <3>5. \A j \in 0..m : f[j] = IF j = 0 THEN << >> ELSE AppendNext(key, x, f[j - 1])
      BY <3>1
    <3> HIDE DEF g
    <3>6. ASSUME NEW j \in 0..m + 1
          PROVE  g[j] = IF j = 0 THEN << >> ELSE AppendNext(key, x, g[j - 1])
      <4>1. CASE j = m + 1
        <5>1. j # 0 /\ j - 1 = m /\ m \in 0..m
          BY <4>1
        <5>2. QED
          BY <3>3, <4>1, <5>1
      <4>2. CASE j # m + 1
        <5>1. j \in 0..m /\ (j # 0 => j - 1 \in 0..m)
          BY <4>2
        <5>2. QED
          BY <3>3, <3>5, <5>1
      <4>3. QED
        BY <4>1, <4>2
    <3>7. Up(m + 1, g)
      BY <3>4, <3>6
    <3> HIDE DEF Up
    <3>8. QED
      BY <3>7
  <2> HIDE DEF T
  <2>3. Nat \subseteq T
    BY <2>1, <2>2, NatInductionSet
  <2>4. QED
    BY <2>3 DEF T
<1>2. PICK f : f = (CHOOSE g : Up(n, g)) /\ Up(n, f)
  <2> HIDE DEF Up
  <2>1. QED
    BY <1>1
<1>3. Accumulate(key, x) = f[n]
  <2>1. Len(x) = n
    BY ListFacts
  <2>2. QED
    BY <1>2, <2>1 DEF Accumulate
<1>4. \A j \in 0..n : f[j] = IF j = 0 THEN << >> ELSE AppendNext(key, x, f[j - 1])
  BY <1>2
<1>5. f[0] = << >> /\ \A j \in 1..n : f[j] = AppendNext(key, x, f[j - 1])
  <2>1. 0 \in 0..n /\ \A j \in 1..n : j \in 0..n /\ j # 0
    OBVIOUS
  <2>2. QED
    BY <1>4, <2>1
<1>6. QED
  BY <1>3, <1>5 DEF Adding

\* Accumulation keeps the relation.
LEMMA AccumulateRelated ==
  ASSUME NEW key, NEW n \in Nat, NEW a, NEW b, NEW c, Related(a, b, c, n)
  PROVE  Related(Accumulate(key, a), Accumulate(key, b), Accumulate(key, c), n)
<1>1. List(a, n) /\ List(b, n) /\ List(c, n)
  BY DEF Related
<1>2. PICK d : Adding(d, key, n, a) /\ Accumulate(key, a) = d[n]
  BY <1>1, AccumulateSteps
<1>3. PICK e : Adding(e, key, n, b) /\ Accumulate(key, b) = e[n]
  BY <1>1, AccumulateSteps
<1>4. PICK f : Adding(f, key, n, c) /\ Accumulate(key, c) = f[n]
  BY <1>1, AccumulateSteps
<1> DEFINE T == {j \in Nat : j <= n => Related(d[j], e[j], f[j], j)}
<1>5. 0 \in T
  <2>1. List(<< >>, 0)
    BY DEF List
  <2>2. Related(<< >>, << >>, << >>, 0)
    BY <2>1 DEF Related
  <2>3. QED
    BY <1>2, <1>3, <1>4, <2>2 DEF Adding
<1>6. ASSUME NEW j \in Nat, j \in T
      PROVE  j + 1 \in T
  <2>1. SUFFICES ASSUME j + 1 <= n PROVE Related(d[j + 1], e[j + 1], f[j + 1], j + 1)
    OBVIOUS
  <2>2. Related(d[j], e[j], f[j], j)
    BY <1>6, <2>1
  <2>3. j + 1 \in 1..n /\ (j + 1) - 1 = j
    BY <2>1
  <2>4. /\ d[j + 1] = AppendNext(key, a, d[j]) /\ e[j + 1] = AppendNext(key, b, e[j])
        /\ f[j + 1] = AppendNext(key, c, f[j])
    BY <1>2, <1>3, <1>4, <2>3 DEF Adding
  <2>5. Related(AppendNext(key, a, d[j]), AppendNext(key, b, e[j]), AppendNext(key, c, f[j]), j + 1)
    BY <2>1, <2>2, NextRelated
  <2>6. QED
    BY <2>4, <2>5
<1> HIDE DEF T
<1>7. Nat \subseteq T
  BY <1>5, <1>6, NatInductionSet
<1>8. Related(d[n], e[n], f[n], n)
  BY <1>7 DEF T
<1>9. QED
  BY <1>2, <1>3, <1>4, <1>8

\* The whole code keeps the relation.
LEMMA EncodeRelated ==
  ASSUME NEW key \in EcKeys, NEW n \in ItemNums, NEW a, NEW b, NEW c, Related(a, b, c, 2 * n)
  PROVE  Related(DualEncode(key, a), DualEncode(key, b), DualEncode(key, c), n)
<1>1. PICK m \in Nat : m = 2 * n /\ m \div 2 = n /\ n \in Nat
  <2>1. n \in Nat
    BY VoleAssumption
  <2>2. 2 * n \in Nat /\ (2 * n) \div 2 = n
    BY <2>1
  <2>3. QED
    BY <2>1, <2>2
<1>2. Related(a, b, c, m)
  BY <1>1
<1>3. PICK d, e, f : /\ d = Accumulate(key, a) /\ e = Accumulate(key, b) /\ f = Accumulate(key, c)
                     /\ Related(d, e, f, m)
  BY <1>2, AccumulateRelated
<1>4. Len(a) = m /\ Len(b) = m /\ Len(c) = m
  BY <1>2, ListFacts DEF Related
<1> DEFINE at(k, w) == Spot(key, m, (k - 1) * Weight + w)
           row(x, k) == [w \in 1..Weight |-> x[at(k, w)]]
<1>5. ASSUME NEW k \in 1..n, NEW w \in 1..Weight
      PROVE  at(k, w) \in 1..m
  <2>1. PICK h \in Nat : h = Weight
    BY VoleAssumption
  <2>2. PICK x \in Nat, y \in Nat : x = k - 1 /\ n = k + y
    <3>1. k - 1 \in Nat /\ n - k \in Nat /\ n = k + (n - k)
      BY <1>1
    <3>2. QED
      BY <3>1
  <2>3. n * h = x * h + h + y * h /\ x * h \in Nat /\ y * h \in Nat
    <3>1. n = x + 1 + y
      BY <1>1, <2>2
    <3>2. (x + 1 + y) * h = x * h + h + y * h
      OBVIOUS
    <3>3. QED
      BY <3>1, <3>2
  <2>4. PICK u \in Nat, v \in Nat : u = x * h /\ v = y * h
    BY <2>3
  <2>5. u + w \in 1..u + h + v
    BY <2>1
  <2>6. (k - 1) * Weight + w \in 1..n * Weight
    BY <2>1, <2>2, <2>3, <2>4, <2>5
  <2>7. QED
    BY <1>1, <2>6, VoleAssumption
<1>6. ASSUME NEW x, Len(x) = m
      PROVE  DualEncode(key, x) = [k \in 1..n |-> Sum(row(Accumulate(key, x), k))]
  BY <1>1, <1>6 DEF DualEncode
<1>7. /\ DualEncode(key, a) = [k \in 1..n |-> Sum(row(d, k))]
      /\ DualEncode(key, b) = [k \in 1..n |-> Sum(row(e, k))]
      /\ DualEncode(key, c) = [k \in 1..n |-> Sum(row(f, k))]
  BY <1>3, <1>4, <1>6
<1>8. ASSUME NEW k \in 1..n
      PROVE  Sum(row(e, k)) = Add(Sum(row(f, k)), TimesDelta(Sum(row(d, k))))
  <2>1. PICK u, v, w : u = row(d, k) /\ v = row(e, k) /\ w = row(f, k)
    OBVIOUS
  <2>2. PICK D : D = 1..Weight /\ IsFiniteSet(D)
    BY VoleAssumption, FS_Interval
  <2>3. DOMAIN u = D /\ DOMAIN v = D /\ DOMAIN w = D
    BY <2>1, <2>2
  <2>4. \A i \in D : v[i] = Add(w[i], TimesDelta(u[i]))
    <3>1. TAKE i \in D
    <3>2. PICK p \in 1..m : p = at(k, i)
      BY <1>5, <2>2
    <3>3. u[i] = d[p] /\ v[i] = e[p] /\ w[i] = f[p]
      BY <2>1, <2>2, <3>2
    <3>4. QED
      BY <1>3, <3>3 DEF Related
  <2> HIDE DEF row, at
  <2>5. Sum(v) = Add(Sum(w), TimesDelta(Sum(u)))
    <3>1. IsFiniteSet(DOMAIN u) /\ DOMAIN v = DOMAIN u /\ DOMAIN w = DOMAIN u
      BY <2>2, <2>3
    <3>2. \A i \in DOMAIN u : v[i] = Add(w[i], TimesDelta(u[i]))
      BY <2>3, <2>4
    <3>3. QED
      BY <3>1, <3>2, SumRelated
  <2>6. QED
    BY <2>1, <2>5
<1> HIDE DEF row
<1>9. QED
  <2>1. PICK u, v, w : u = DualEncode(key, a) /\ v = DualEncode(key, b) /\ w = DualEncode(key, c)
    OBVIOUS
  <2>2. /\ u = [k \in 1..n |-> Sum(row(d, k))] /\ v = [k \in 1..n |-> Sum(row(e, k))]
        /\ w = [k \in 1..n |-> Sum(row(f, k))]
    BY <1>7, <2>1
  <2>3. List(u, n) /\ List(v, n) /\ List(w, n)
    BY <2>2 DEF List
  <2>4. \A k \in 1..n : v[k] = Add(w[k], TimesDelta(u[k]))
    BY <1>8, <2>2
  <2>5. QED
    BY <2>1, <2>3, <2>4 DEF Related

-----------------------------------------------------------------------------
(***************************************************************************)
(* The path to the punctured leaf.                                         *)
(***************************************************************************)
\* The node of depth d above leaf x of a tree of the given depth, from 0 on;
\* the selection bits lead from node to node.
Above(x, depth) == [d \in 0..depth |-> x \div Pow2[depth - d]]

\* From the root to leaf x, one bit a step.
LEMMA PathFacts ==
  ASSUME NEW depth \in Nat \ {0}, NEW x \in Nat, x < Pow2[depth],
         NEW q, q = Above(x, depth), NEW bits, bits = SelectionBits(x, depth)
  PROVE  /\ List(bits, depth) /\ \A d \in 1..depth : bits[d] \in {0, 1}
         /\ q[0] = 0 /\ q[depth] = x /\ \A d \in 1..depth : q[d] = 2 * q[d - 1] + 1 - bits[d]
         /\ \A d \in 0..depth : q[d] \in 0..Pow2[d] - 1
<1>1. \A d \in 0..depth : q[d] = x \div Pow2[depth - d]
  BY DEF Above
<1>2. /\ bits = [k \in 1..depth |-> 1 - ((x \div Pow2[depth - k]) % 2)]
      /\ \A d \in 1..depth : bits[d] = 1 - ((x \div Pow2[depth - d]) % 2)
  BY DEF SelectionBits
<1>3. ASSUME NEW d \in 1..depth
      PROVE  bits[d] \in {0, 1} /\ q[d] = 2 * q[d - 1] + 1 - bits[d] /\ q[d] \in Nat /\ q[d - 1] \in Nat
  <2>1. depth - d \in Nat /\ d \in 0..depth /\ d - 1 \in 0..depth /\ depth - (d - 1) = (depth - d) + 1
    OBVIOUS
  <2>2. PICK P \in Nat \ {0} : P = Pow2[depth - d] /\ Pow2[depth - (d - 1)] = 2 * P
    BY <2>1, Pow2Facts
  <2>3. PICK s \in Nat, u \in Nat, b \in {0, 1} : s = x \div P /\ u = x \div (2 * P) /\ b = s % 2 /\ s = 2 * u + b
    <3>1. /\ x \div P \in Nat /\ x \div (2 * P) \in Nat /\ (x \div P) % 2 \in {0, 1}
          /\ x \div P = 2 * (x \div (2 * P)) + ((x \div P) % 2)
      BY HalfQuotient
    <3>2. QED
      BY <3>1
  <2>4. q[d] = s /\ q[d - 1] = u
    BY <1>1, <2>1, <2>2, <2>3
  <2>5. bits[d] = 1 - b
    BY <1>2, <2>2, <2>3
  <2>6. 1 - b \in {0, 1} /\ 2 * u + 1 - (1 - b) = 2 * u + b
    OBVIOUS
  <2>7. QED
    BY <2>3, <2>4, <2>5, <2>6
<1>4. q[0] = 0 /\ q[depth] = x
  <2>1. 0 \in 0..depth /\ depth \in 0..depth /\ depth - 0 = depth /\ depth - depth = 0 /\ depth \in Nat
    OBVIOUS
  <2>2. PICK P \in Nat \ {0} : P = Pow2[depth] /\ Pow2[0] = 1
    BY <2>1, Pow2Facts
  <2>3. x \div P = 0 /\ x \div 1 = x
    <3>1. x < P
      BY <2>2
    <3>2. PICK a \in Nat, r \in 0..P - 1 : x = a * P + r /\ x \div P = a
      BY Quotient
    <3>3. a = 0
      <4>1. SUFFICES ASSUME a # 0 PROVE FALSE
        OBVIOUS
      <4>2. PICK c \in Nat : a = c + 1
        <5>1. a - 1 \in Nat /\ a = (a - 1) + 1
          BY <4>1
        <5>2. QED
          BY <5>1
      <4>3. (c + 1) * P = c * P + P /\ c * P \in Nat
        OBVIOUS
      <4>4. PICK y \in Nat : y = c * P
        BY <4>3
      <4>5. x = y + P + r
        BY <3>2, <4>2, <4>3, <4>4
      <4>6. QED
        BY <3>1, <4>5
    <3>4. x \div 1 = x
      OBVIOUS
    <3>5. QED
      BY <3>2, <3>3, <3>4
  <2>4. QED
    BY <1>1, <2>1, <2>2, <2>3
<1> DEFINE T == {d \in Nat : d <= depth => q[d] \in 0..Pow2[d] - 1}
<1>5. 0 \in T
  <2>1. Pow2[0] = 1
    BY Pow2Facts
  <2>2. QED
    BY <1>4, <2>1
<1>6. ASSUME NEW d \in Nat, d \in T
      PROVE  d + 1 \in T
  <2>1. SUFFICES ASSUME d + 1 <= depth PROVE q[d + 1] \in 0..Pow2[d + 1] - 1
    OBVIOUS
  <2>2. PICK P \in Nat \ {0} : P = Pow2[d] /\ Pow2[d + 1] = 2 * P
    BY Pow2Facts
  <2>3. q[d] \in 0..P - 1
    BY <1>6, <2>1, <2>2
  <2>4. d + 1 \in 1..depth /\ (d + 1) - 1 = d
    BY <2>1
  <2>5. bits[d + 1] \in {0, 1} /\ q[d + 1] = 2 * q[d] + 1 - bits[d + 1]
    BY <1>3, <2>4
  <2>6. QED
    BY <2>2, <2>3, <2>5
<1> HIDE DEF T
<1>7. Nat \subseteq T
  BY <1>5, <1>6, NatInductionSet
<1>8. \A d \in 0..depth : q[d] \in 0..Pow2[d] - 1
  <2>1. \A d \in 0..depth : d \in Nat /\ d <= depth
    OBVIOUS
  <2>2. QED
    BY <1>7, <2>1 DEF T
<1>9. List(bits, depth)
  BY <1>2 DEF List
<1>10. QED
  BY <1>3, <1>4, <1>8, <1>9

\* What the calls of VOLE are made with.
VoleOK ==
  /\ ItemNum \in ItemNums /\ Delta \in [1..BlockBits -> {0, 1}] /\ param.ecKey \in EcKeys
  /\ \A i \in Trees : param.index[i] \in Nat /\ (~IsSmall => param.index[i] < TreeLen(i))

\* The tree of an extension, level by level; M are the sums of its levels.
LEMMA TreeLevels ==
  ASSUME VoleOK, ~IsSmall, NEW i \in Trees
  PROVE  /\ Depth(i) \in Nat \ {0} /\ Depth(i) \in 1..MaxDepth
         /\ Levels(Tree[i], Depth(i)) /\ Tree[i][0][1] # Hole
         /\ \A d \in 1..Depth(i), side \in {0, 1} : M[i][side][d] = LevelSum(Tree[i][d], side)
<1>1. /\ MaxDepth \in Nat /\ Depth(i) \in 1..MaxDepth
  BY TreeFacts DEF VoleOK
<1>2. PICK D \in Nat \ {0}, E \in Nat : D = Depth(i) /\ E = MaxDepth /\ D <= E
  BY <1>1
<1>3. Tree[i] = Nodes(Root(i))
  BY DEF Tree
<1>4. Tree[i][0] = <<Root(i)>> /\ \A d \in 1..MaxDepth : Tree[i][d] = Children(Tree[i][d - 1])
  BY <1>1, <1>3, NodesFacts
<1>5. \A d \in 1..D : d \in 1..E
  BY <1>2
<1>6. Tree[i][0][1] # Hole
  <2>1. <<"root", i>> # <<"hole">>
    <3>1. <<"root", i>>[1] = "root" /\ <<"hole">>[1] = "hole"
      OBVIOUS
    <3>2. QED
      BY <3>1
  <2>2. PICK u, v : u = <<"root", i>> /\ v = <<"hole">>
    OBVIOUS
  <2>3. Root(i) = {u} /\ Hole = {v} /\ u # v
    BY <2>1, <2>2 DEF Root, Fresh, Hole
  <2>4. QED
    BY <1>4, <2>3
<1>7. \A d \in 1..D, side \in {0, 1} : M[i][side][d] = LevelSum(Tree[i][d], side)
  BY <1>2, <1>5 DEF M
<1>8. List(Tree[i][0], 1)
  <2>1. <<Root(i)>> = [k \in 1..1 |-> <<Root(i)>>[k]]
    OBVIOUS
  <2>2. QED
    BY <1>4, <2>1 DEF List
<1>9. Levels(Tree[i], D)
  BY <1>2, <1>4, <1>5, <1>8 DEF Levels
<1>10. QED
  BY <1>1, <1>2, <1>6, <1>7, <1>9

\* The correction of the last level is not mistaken for a hole.
LEMMA BetaFacts ==
  ASSUME NEW n \in Nat, NEW s, List(s, n), NEW A,
         NEW beta, beta = Add(Add(LevelSum(Children(s), 0), LevelSum(Children(s), 1)), TimesDelta(A))
  PROVE  beta # Hole
<1>1. SUFFICES ASSUME <<"hole">> \in beta PROVE FALSE
  BY DEF Hole
<1>2. PICK x : x = <<"hole">> /\ x[1] = "hole"
  <2>1. <<"hole">>[1] = "hole"
    OBVIOUS
  <2>2. QED
    BY <2>1
<1>3. \/ x \in LevelSum(Children(s), 0)
      \/ x \in LevelSum(Children(s), 1)
      \/ x \in TimesDelta(A)
  BY <1>1, <1>2, InAdd
<1>4. ASSUME NEW e \in {0, 1}
      PROVE  x \notin LevelSum(Children(s), e)
  <2>1. PICK t : t = [k \in 1..n |-> Prg(s[k], e)] /\ LevelSum(Children(s), e) = Sum(t)
    BY LevelSumIs
  <2>2. SUFFICES ASSUME x \in Sum(t) PROVE FALSE
    BY <2>1
  <2>3. PICK k \in DOMAIN t : x \in t[k]
    BY <2>2, SumTerms
  <2>4. x = <<"ggm", s[k], e>>
    BY <2>1, <2>3 DEF Prg
  <2>5. <<"ggm", s[k], e>>[1] = "ggm"
    OBVIOUS
  <2>6. QED
    BY <1>2, <2>4, <2>5
<1>5. x \notin TimesDelta(A)
  <2>1. SUFFICES ASSUME NEW i, NEW term, x = <<"g", i, term>> PROVE FALSE
    BY InTimesDelta
  <2>2. <<"g", i, term>>[1] = "g"
    OBVIOUS
  <2>3. QED
    BY <1>2, <2>1, <2>2
<1>6. QED
  BY <1>3, <1>4, <1>5

\* The leaves of tree i that A ends with: B's, but for one.
LEMMA LeavesOf ==
  ASSUME VoleOK, ~IsSmall, NEW i \in Trees,
         NEW bits, bits = SelectionBits(param.index[i], Depth(i)),
         NEW m, \A d \in 1..Depth(i) : m[d] = M[i][bits[d]][d],
         NEW beta, beta = Add(LeafSum(i), TimesDelta(U(i)))
  PROVE  /\ List(Tree[i][Depth(i)], Pow2[Depth(i)])
         /\ Replaced(PuncEval(Depth(i), beta, m, bits), Tree[i][Depth(i)], Pow2[Depth(i)],
                     param.index[i] + 1, Add(Tree[i][Depth(i)][param.index[i] + 1], TimesDelta(U(i))))
<1>0. PICK T, y : T = Tree[i] /\ y = TimesDelta(U(i))
  OBVIOUS
<1>1. PICK D \in Nat \ {0} : D = Depth(i)
  BY TreeLevels
<1>2. /\ Levels(T, D) /\ T[0][1] # Hole
      /\ \A d \in 1..D, side \in {0, 1} : M[i][side][d] = LevelSum(T[d], side)
  BY <1>0, <1>1, TreeLevels
<1>3. PICK x \in Nat : x = param.index[i] /\ x < Pow2[D]
  <2>1. TreeLen(i) \in Nat /\ TreeLen(i) <= Pow2[D] /\ Pow2[D] \in Nat
    BY <1>0, <1>1, TreeFacts, Pow2Facts DEF VoleOK
  <2>2. param.index[i] \in Nat /\ param.index[i] < TreeLen(i)
    BY DEF VoleOK
  <2>3. QED
    BY <2>1, <2>2
<1>4. PICK q : q = Above(x, D)
  OBVIOUS
<1>5. /\ List(bits, D) /\ \A d \in 1..D : bits[d] \in {0, 1}
      /\ q[0] = 0 /\ q[D] = x /\ \A d \in 1..D : q[d] = 2 * q[d - 1] + 1 - bits[d]
      /\ \A d \in 0..D : q[d] \in 0..Pow2[d] - 1
  <2>1. bits = SelectionBits(x, D)
    BY <1>0, <1>1, <1>3
  <2>2. List(bits, D) /\ \A d \in 1..D : bits[d] \in {0, 1}
    BY <1>3, <1>4, <2>1, PathFacts
  <2>3. q[0] = 0 /\ q[D] = x /\ \A d \in 1..D : q[d] = 2 * q[d - 1] + 1 - bits[d]
    BY <1>3, <1>4, <2>1, PathFacts
  <2>4. \A d \in 0..D : q[d] \in 0..Pow2[d] - 1
    BY <1>3, <1>4, <2>1, PathFacts
  <2>5. QED
    BY <2>2, <2>3, <2>4
<1>6. \A d \in 1..D : m[d] = LevelSum(T[d], bits[d])
  BY <1>0, <1>1, <1>2, <1>5
<1>7. beta = Add(Add(LevelSum(T[D], 0), LevelSum(T[D], 1)), y)
  <2>1. D \in 1..D
    OBVIOUS
  <2>2. M[i][0][D] = LevelSum(T[D], 0) /\ M[i][1][D] = LevelSum(T[D], 1)
    BY <1>2, <2>1
  <2>3. QED
    BY <1>0, <1>1, <2>2 DEF LeafSum
<1>8. beta # Hole
  <2>0. PICK s : s = T[D - 1]
    OBVIOUS
  <2>1. D - 1 \in 0..D /\ D \in 1..D /\ D - 1 \in Nat /\ D \in Nat
    OBVIOUS
  <2>2. PICK n \in Nat : n = Pow2[D - 1]
    BY <2>1, Pow2Facts
  <2>3. List(s, n)
    BY <1>2, <2>0, <2>1, <2>2, LevelFacts
  <2>4. T[D] = Children(s)
    BY <1>2, <2>0, <2>1 DEF Levels
  <2>5. beta = Add(Add(LevelSum(Children(s), 0), LevelSum(Children(s), 1)), TimesDelta(U(i)))
    BY <1>0, <1>1, <1>7, <2>4
  <2>6. QED
    BY <2>3, <2>5, BetaFacts
<1>9. Replaced(PuncEval(D, beta, m, bits), T[D], Pow2[D], q[D] + 1, Add(T[D][q[D] + 1], y))
  BY <1>2, <1>5, <1>6, <1>7, <1>8, PuncturedTree
<1>10. List(T[D], Pow2[D])
  <2>1. D \in 0..D /\ D \in Nat
    OBVIOUS
  <2>2. QED
    BY <1>2, <2>1, LevelFacts
<1>11. QED
  BY <1>0, <1>1, <1>3, <1>5, <1>9, <1>10

-----------------------------------------------------------------------------
(***************************************************************************)
(* The messages that A chooses from, tree by tree and depth by depth.      *)
(***************************************************************************)
\* How the rows of the extension are divided among the trees.
DepthOf == [i \in Trees |-> Depth(i)]
StepLen == CeilLog2(SubLen)

\* Every tree but the last one takes StepLen rows.
LEMMA RowLengths ==
  ASSUME VoleOK, ~IsSmall
  PROVE  /\ PprfNum \in Nat \ {0} /\ StepLen \in Nat /\ SelectLen \in Nat /\ ExtendLen \in Nat
         /\ SelectLen <= ExtendLen
         /\ Lengths(PprfNum, StepLen, DepthOf, SelectLen)
         /\ \A i \in Trees : DepthOf[i] = Depth(i) /\ Depth(i) \in Nat /\ Depth(i) <= MaxDepth /\ Offset(i) = (i - 1) * StepLen
<1>1. PprfNum \in Nat \ {0} /\ MaxDepth \in Nat /\ SubLen \in Nat
  BY VoleAssumption, TreeFacts DEF VoleOK
<1>2. StepLen \in Nat
  BY <1>1, LogFacts DEF StepLen
<1>3. ASSUME NEW i \in Trees
      PROVE  /\ DepthOf[i] = Depth(i) /\ Depth(i) \in Nat /\ Depth(i) <= MaxDepth
             /\ Offset(i) = (i - 1) * StepLen
             /\ i # PprfNum => Depth(i) = StepLen
  <2>1. Depth(i) \in 1..MaxDepth
    BY TreeFacts DEF VoleOK
  <2>2. Offset(i) = (i - 1) * StepLen
    BY DEF Offset, StepLen
  <2>3. i # PprfNum => Depth(i) = StepLen
    BY DEF Depth, TreeLen, StepLen
  <2>4. QED
    BY <1>1, <2>1, <2>2, <2>3 DEF DepthOf
<1>4. PprfNum \in Trees
  BY <1>1 DEF Trees
<1>5. SelectLen = (PprfNum - 1) * StepLen + DepthOf[PprfNum]
  BY <1>3, <1>4 DEF SelectLen
<1>6. SelectLen \in Nat
  <2>1. PICK t \in Nat, L \in Nat, d \in Nat : t = PprfNum - 1 /\ L = StepLen /\ d = DepthOf[PprfNum]
    <3>1. PprfNum - 1 \in Nat
      BY <1>1
    <3>2. QED
      BY <1>2, <1>3, <1>4, <3>1
  <2>2. t * L + d \in Nat
    OBVIOUS
  <2>3. QED
    BY <1>5, <2>1, <2>2
<1>7. ExtendLen \in Nat /\ SelectLen <= ExtendLen
  <2>1. PICK B \in Nat \ {0}, S \in Nat : B = BlockBits /\ S = SelectLen
    BY <1>6, VoleAssumption
  <2>2. PICK a \in Nat : a = S + B - 1
    OBVIOUS
  <2>3. PICK q \in Nat, r \in 0..B - 1 : a = q * B + r /\ a \div B = q
    BY Quotient
  <2>4. ExtendLen = q * B
    BY <2>1, <2>2, <2>3 DEF ExtendLen
  <2>5. PICK y \in Nat : y = q * B
    OBVIOUS
  <2>6. S <= y
    BY <2>2, <2>3, <2>5
  <2>7. QED
    BY <2>1, <2>4, <2>5, <2>6
<1>8. Lengths(PprfNum, StepLen, DepthOf, SelectLen)
  BY <1>3, <1>5 DEF Lengths, Trees
<1>9. QED
  BY <1>1, <1>2, <1>3, <1>6, <1>7, <1>8

\* The rows of u that belong to the trees, and what the others hold.
InRows(u, s) ==
  \A i \in Trees : \A d \in 1..Depth(i) : Offset(i) + d \in 1..ExtendLen /\ u[Offset(i) + d] = s[i][d]

NoMore(u, s, zero) ==
  \A row \in 1..ExtendLen : u[row] = zero \/ \E i \in Trees : \E d \in 1..Depth(i) : u[row] = s[i][d]

\* What is written for each tree, depth by depth, is found in the tree's rows;
\* the rest of the rows hold zero.
LEMMA RowsHold ==
  ASSUME VoleOK, ~IsSmall, NEW s, List(s, PprfNum), \A i \in Trees : List(s[i], Depth(i)), NEW zero,
         NEW u, u = [row \in 1..ExtendLen |-> IF row <= SelectLen THEN FlattenSeq(s)[row] ELSE zero]
  PROVE  List(u, ExtendLen) /\ InRows(u, s) /\ NoMore(u, s, zero)
<1>0. /\ PprfNum \in Nat \ {0} /\ StepLen \in Nat /\ SelectLen \in Nat /\ ExtendLen \in Nat
      /\ SelectLen <= ExtendLen /\ Lengths(PprfNum, StepLen, DepthOf, SelectLen)
  BY RowLengths
<1>20. PICK t \in Nat \ {0} : t = PprfNum
  BY <1>0
<1>21. PICK L \in Nat : L = StepLen
  BY <1>0
<1>22. PICK n \in Nat : n = SelectLen
  BY <1>0
<1>23. PICK all \in Nat : all = ExtendLen
  BY <1>0
<1>24. PICK len : len = DepthOf
  OBVIOUS
<1>1. /\ t = PprfNum /\ L = StepLen /\ len = DepthOf /\ n = SelectLen /\ all = ExtendLen /\ n <= all
      /\ Lengths(t, L, len, n)
  BY <1>0, <1>20, <1>21, <1>22, <1>23, <1>24
<1>25. Lengths(t, L, len, n)
  BY <1>1
<1>2. \A i \in 1..t : len[i] = Depth(i) /\ Depth(i) \in Nat /\ Offset(i) = (i - 1) * L
  BY <1>1, RowLengths DEF Trees
<1>3. PICK f : f = FlattenSeq(s) /\ List(f, n) /\ PiecesIn(f, s, t, L, len, n)
  <2>1. List(s, t) /\ \A i \in 1..t : List(s[i], len[i])
    BY <1>1, <1>2 DEF Trees
  <2>2. QED
    BY <1>1, <2>1, FlatAt
<1>4. \A row \in 1..all : u[row] = IF row <= n THEN f[row] ELSE zero
  BY <1>1, <1>3
<1>5. List(u, all)
  BY <1>1 DEF List
<1>6. ASSUME NEW i \in 1..t, NEW d \in 1..len[i]
      PROVE  Offset(i) + d \in 1..all /\ u[Offset(i) + d] = s[i][d]
  <2>1. PICK r : r = (i - 1) * L + d
    OBVIOUS
  <2>2. r \in 1..n /\ f[r] = s[i][d]
    BY <1>3, <2>1 DEF PiecesIn
  <2>3. r \in 1..all /\ r <= n
    BY <1>1, <2>2
  <2>4. u[r] = s[i][d]
    BY <1>4, <2>2, <2>3
  <2>5. r = Offset(i) + d
    BY <1>2, <2>1
  <2>6. QED
    BY <2>3, <2>4, <2>5
<1>7. ASSUME NEW row \in 1..all
      PROVE  u[row] = zero \/ \E i \in 1..t : \E d \in 1..len[i] : u[row] = s[i][d]
  <2>3. PICK m : m = n /\ Lengths(t, L, len, m)
    BY <1>25
  <2>1. CASE row <= n
    <3>1. row \in 1..m
      BY <2>1, <2>3
    <3>2. PICK i \in 1..t : \E d \in 1..len[i] : row = (i - 1) * L + d
      <4>1. PICK r \in 1..m : r = row
        BY <3>1
      <4>2. \E i \in 1..t : \E d \in 1..len[i] : r = (i - 1) * L + d
        <5>1. Lengths(t, L, len, m)
          BY <2>3
        <5>2. QED
          BY <5>1, FlatCover
      <4>3. QED
        BY <4>1, <4>2
    <3>3. PICK d \in 1..len[i] : row = (i - 1) * L + d
      BY <3>2
    <3>4. f[row] = s[i][d]
      BY <1>3, <3>3 DEF PiecesIn
    <3>5. QED
      BY <1>4, <2>1, <3>4
  <2>2. CASE ~(row <= n)
    BY <1>4, <2>2
  <2>4. QED
    BY <2>1, <2>2
<1>8. Trees = 1..t /\ \A i \in 1..t : len[i] = Depth(i)
  BY <1>1, <1>2 DEF Trees
<1>9. InRows(u, s)
  BY <1>1, <1>6, <1>8 DEF InRows
<1>10. NoMore(u, s, zero)
  BY <1>1, <1>7, <1>8 DEF NoMore
<1>11. QED
  BY <1>1, <1>5, <1>9, <1>10

BitsOf(i) == SelectionBits(param.index[i], Depth(i))

\* The selection bits lead down each tree.
LEMMA SelectionRows ==
  ASSUME VoleOK, ~IsSmall
  PROVE  /\ List(Selection, ExtendLen) /\ \A row \in 1..ExtendLen : Selection[row] \in {0, 1}
         /\ \A i \in Trees : \A d \in 1..Depth(i) :
              /\ Offset(i) + d \in 1..ExtendLen /\ Selection[Offset(i) + d] = BitsOf(i)[d]
              /\ BitsOf(i)[d] \in {0, 1}
<1>1. PICK s : s = [i \in Trees |-> BitsOf(i)]
  OBVIOUS
<1>2. List(s, PprfNum)
  BY <1>1 DEF List, Trees
<1>3. \A i \in Trees : s[i] = BitsOf(i) /\ List(s[i], Depth(i)) /\ \A d \in 1..Depth(i) : s[i][d] \in {0, 1}
  <2>1. TAKE i \in Trees
  <2>2. PICK D \in Nat \ {0}, x \in Nat : D = Depth(i) /\ x = param.index[i]
    BY TreeLevels DEF VoleOK
  <2>3. PICK b : b = SelectionBits(x, D)
    OBVIOUS
  <2>4. List(b, D)
    BY <2>3 DEF SelectionBits, List
  <2>5. \A d \in 1..D : b[d] \in {0, 1}
    <3>1. TAKE d \in 1..D
    <3>2. D - d \in Nat
      OBVIOUS
    <3>3. PICK P \in Nat \ {0} : P = Pow2[D - d]
      BY <3>2, Pow2Facts
    <3>4. b[d] = 1 - ((x \div P) % 2)
      BY <2>3, <3>3 DEF SelectionBits
    <3>5. (x \div P) % 2 \in {0, 1}
      BY HalfQuotient
    <3>6. QED
      BY <3>4, <3>5
  <2>6. s[i] = b /\ BitsOf(i) = b
    BY <1>1, <2>2, <2>3 DEF BitsOf
  <2>7. QED
    BY <2>2, <2>4, <2>5, <2>6
<1>4. Selection = [row \in 1..ExtendLen |-> IF row <= SelectLen THEN FlattenSeq(s)[row] ELSE 0]
  BY <1>1 DEF Selection, BitsOf
<1>5. List(Selection, ExtendLen) /\ InRows(Selection, s) /\ NoMore(Selection, s, 0)
  <2>1. PICK u : u = Selection /\ u = [row \in 1..ExtendLen |-> IF row <= SelectLen THEN FlattenSeq(s)[row] ELSE 0]
    BY <1>4
  <2>2. \A i \in Trees : List(s[i], Depth(i))
    BY <1>3
  <2>3. QED
    BY <1>2, <2>1, <2>2, RowsHold
<1>6. \A i \in Trees : \A d \in 1..Depth(i) : Offset(i) + d \in 1..ExtendLen /\ Selection[Offset(i) + d] = s[i][d]
  BY <1>5 DEF InRows
<1>7. \A row \in 1..ExtendLen :
        Selection[row] = 0 \/ \E i \in Trees : \E d \in 1..Depth(i) : Selection[row] = s[i][d]
  BY <1>5 DEF NoMore
<1>8. \A row \in 1..ExtendLen : Selection[row] \in {0, 1}
  BY <1>3, <1>7
<1>9. QED
  BY <1>3, <1>5, <1>6, <1>8

\* The messages of one side, tree by tree.
LEMMA VecMRows ==
  ASSUME VoleOK, ~IsSmall, NEW side \in {0, 1}
  PROVE  List(VecM(side), ExtendLen)
         /\ \A i \in Trees : \A d \in 1..Depth(i) : VecM(side)[Offset(i) + d] = M[i][side][d]
<1>1. PICK s : s = [i \in Trees |-> SubSeq(M[i][side], 1, Depth(i))]
  OBVIOUS
<1>2. List(s, PprfNum)
  BY <1>1 DEF List, Trees
<1>3. \A i \in Trees : List(s[i], Depth(i)) /\ \A d \in 1..Depth(i) : s[i][d] = M[i][side][d]
  <2>1. TAKE i \in Trees
  <2>2. PICK D \in Nat, E \in Nat : D = Depth(i) /\ E = MaxDepth /\ D <= E
    <3>1. Depth(i) \in 1..MaxDepth /\ MaxDepth \in Nat
      BY TreeFacts DEF VoleOK
    <3>2. Depth(i) \in Nat /\ Depth(i) <= MaxDepth
      BY <3>1
    <3>3. QED
      BY <3>1, <3>2
  <2>3. PICK m : m = M[i][side] /\ m = [d \in 1..E |-> LevelSum(Tree[i][d], side)]
    BY <2>2 DEF M
  <2>4. List(m, E)
    BY <2>3 DEF List
  <2>5. PICK u : u = s[i] /\ Slice(u, m, 0, D)
    <3>1. 0 + 1 = 1 /\ 0 + D = D
      OBVIOUS
    <3>2. s[i] = SubSeq(m, 1, D)
      BY <1>1, <2>2, <2>3
    <3>3. QED
      BY <3>1, <3>2 DEF Slice
  <2>6. 0 \in Nat /\ 0 + D <= E
    BY <2>2
  <2>7. List(u, D) /\ \A k \in 1..D : u[k] = m[0 + k]
    BY <2>4, <2>5, <2>6, PartList
  <2>8. \A k \in 1..D : 0 + k = k
    OBVIOUS
  <2>9. QED
    BY <2>2, <2>3, <2>5, <2>7, <2>8
<1>4. PICK u : /\ u = VecM(side)
               /\ u = [row \in 1..ExtendLen |-> IF row <= SelectLen THEN FlattenSeq(s)[row] ELSE Zero]
  BY <1>1 DEF VecM
<1>5. List(u, ExtendLen) /\ InRows(u, s)
  <2>1. \A i \in Trees : List(s[i], Depth(i))
    BY <1>3
  <2>2. QED
    BY <1>2, <1>4, <2>1, RowsHold
<1>6. QED
  BY <1>3, <1>4, <1>5 DEF InRows

\* What B sends for the extension, as the receiver of the OT reads it.
ExtendSaid ==
  /\ inbox["S"][<<"extend", "vec_outer_c0">>] = [row \in 1..ExtendLen |-> Encrypt(row, 0, VecM(0)[row])]
  /\ inbox["S"][<<"extend", "vec_outer_c1">>] = [row \in 1..ExtendLen |-> Encrypt(row, 1, VecM(1)[row])]

\* What A makes of it.
LEMMA ReceivedRows ==
  ASSUME VoleOK, ~IsSmall, ExtendSaid
  PROVE  /\ List(Received, ExtendLen)
         /\ \A i \in Trees : \A d \in 1..Depth(i) : Received[Offset(i) + d] = M[i][BitsOf(i)[d]][d]
<1>1. PICK bits, m0, m1, c0, c1 :
        /\ bits = Selection /\ m0 = VecM(0) /\ m1 = VecM(1)
        /\ c0 = inbox["S"][<<"extend", "vec_outer_c0">>] /\ c1 = inbox["S"][<<"extend", "vec_outer_c1">>]
  OBVIOUS
<1>2. PICK rows : rows = 1..ExtendLen
  OBVIOUS
<1>3. \A row \in rows : c0[row] = Encrypt(row, 0, m0[row]) /\ c1[row] = Encrypt(row, 1, m1[row])
  BY <1>1, <1>2 DEF ExtendSaid
<1>4. DOMAIN bits = rows /\ \A row \in rows : bits[row] \in {0, 1}
  <2>1. ExtendLen \in Nat
    BY RowLengths
  <2>2. List(Selection, ExtendLen) /\ \A row \in 1..ExtendLen : Selection[row] \in {0, 1}
    BY SelectionRows
  <2>3. DOMAIN Selection = 1..ExtendLen
    BY <2>1, <2>2, ListFacts
  <2>4. QED
    BY <1>1, <1>2, <2>2, <2>3
<1>5. OtReceive(bits, c0, c1) = [row \in rows |-> IF bits[row] = 0 THEN m0[row] ELSE m1[row]]
  BY <1>3, <1>4, OtDelivers
<1>6. PICK u : u = Received /\ u = [row \in rows |-> IF bits[row] = 0 THEN m0[row] ELSE m1[row]]
  BY <1>1, <1>5 DEF Received
<1>7. List(u, ExtendLen)
  BY <1>2, <1>6 DEF List
<1>8. ASSUME NEW i \in Trees, NEW d \in 1..Depth(i)
      PROVE  u[Offset(i) + d] = M[i][BitsOf(i)[d]][d]
  <2>1. PICK row \in rows : row = Offset(i) + d /\ bits[row] = BitsOf(i)[d] /\ bits[row] \in {0, 1}
    BY <1>1, <1>2, SelectionRows
  <2>2. m0[row] = M[i][0][d] /\ m1[row] = M[i][1][d]
    <3>1. 0 \in {0, 1} /\ 1 \in {0, 1}
      OBVIOUS
    <3>2. VecM(0)[Offset(i) + d] = M[i][0][d] /\ VecM(1)[Offset(i) + d] = M[i][1][d]
      BY <3>1, VecMRows
    <3>3. QED
      BY <1>1, <2>1, <3>2
  <2>3. u[row] = IF bits[row] = 0 THEN m0[row] ELSE m1[row]
    BY <1>6
  <2>4. QED
    BY <2>1, <2>2, <2>3
<1>9. QED
  BY <1>6, <1>7, <1>8

-----------------------------------------------------------------------------
(***************************************************************************)
(* What A learns of a tree, and what the two parties end with.             *)
(***************************************************************************)
\* The terms of a level's sum are of its nodes on that side.
LEMMA LevelSumTerms ==
  ASSUME NEW n \in Nat, NEW s, List(s, n), NEW e \in {0, 1}, NEW x \in LevelSum(Children(s), e)
  PROVE  \E k \in 1..n : x \in Prg(s[k], e) /\ x = <<"ggm", s[k], e>>
<1>1. PICK t : t = [k \in 1..n |-> Prg(s[k], e)] /\ LevelSum(Children(s), e) = Sum(t)
  BY LevelSumIs
<1>2. x \in Sum(t)
  BY <1>1
<1>3. PICK k \in DOMAIN t : x \in t[k]
  BY <1>2, SumTerms
<1>4. k \in 1..n /\ t[k] = Prg(s[k], e)
  BY <1>1
<1>5. QED
  BY <1>3, <1>4 DEF Prg

\* The message A chose at depth d holds nothing of the node on the path.
LEMMA ChosenHidesPath ==
  ASSUME VoleOK, ~IsSmall, NEW i \in Trees, NEW d \in 1..Depth(i), NEW m, m = M[i][BitsOf(i)[d]][d]
  PROVE  m \cap PathNode(i, d) = {} /\ m \subseteq UNION ToSet(Tree[i][d])
<1>0. PICK T : T = Tree[i]
  OBVIOUS
<1>1. PICK D \in Nat \ {0} : D = Depth(i)
  BY TreeLevels
<1>2. /\ Levels(T, D) /\ T[0][1] # Hole
      /\ \A c \in 1..D, side \in {0, 1} : M[i][side][c] = LevelSum(T[c], side)
  BY <1>0, <1>1, TreeLevels
<1>3. PICK x \in Nat : x = param.index[i] /\ x < Pow2[D]
  <2>1. TreeLen(i) \in Nat /\ TreeLen(i) <= Pow2[D] /\ Pow2[D] \in Nat
    BY <1>0, <1>1, TreeFacts, Pow2Facts DEF VoleOK
  <2>2. param.index[i] \in Nat /\ param.index[i] < TreeLen(i)
    BY DEF VoleOK
  <2>3. QED
    BY <2>1, <2>2
<1>4. PICK q, bits : q = Above(x, D) /\ bits = SelectionBits(x, D) /\ bits = BitsOf(i)
  BY <1>0, <1>1, <1>3 DEF BitsOf
<1>5. d \in 1..D /\ d - 1 \in 0..D /\ d \in 0..D /\ d - 1 \in Nat /\ (d - 1) + 1 = d /\ D \in Nat
  BY <1>0, <1>1
<1>6. PICK n \in Nat : n = Pow2[d - 1] /\ Pow2[d] = 2 * n
  BY <1>5, Pow2Facts
<1>7. PICK s : s = T[d - 1] /\ T[d] = Children(s) /\ List(s, n)
  <2>1. List(T[d - 1], Pow2[d - 1])
    BY <1>2, <1>5, LevelFacts
  <2>2. T[d] = Children(T[d - 1])
    BY <1>2, <1>5 DEF Levels
  <2>3. QED
    BY <1>6, <2>1, <2>2
<1>8. PICK p \in 1..n, e \in {0, 1} : p = q[d - 1] + 1 /\ bits[d] = e /\ q[d] + 1 = 2 * p - 1 + (1 - e)
  <2>0. x < Pow2[D] /\ q = Above(x, D) /\ bits = SelectionBits(x, D)
    BY <1>3, <1>4
  <2>1. \A c \in 1..D : bits[c] \in {0, 1}
    BY <2>0, PathFacts
  <2>2. \A c \in 1..D : q[c] = 2 * q[c - 1] + 1 - bits[c]
    BY <2>0, PathFacts
  <2>3. \A c \in 0..D : q[c] \in 0..Pow2[c] - 1
    BY <2>0, PathFacts
  <2>4. PICK a \in 0..n - 1, e \in {0, 1} : a = q[d - 1] /\ bits[d] = e /\ q[d] = 2 * a + 1 - e
    BY <1>5, <1>6, <2>1, <2>2, <2>3
  <2>5. a + 1 \in 1..n /\ q[d] + 1 = 2 * (a + 1) - 1 + (1 - e)
    BY <2>4
  <2>6. QED
    BY <2>4, <2>5
<1>9. PathNode(i, d) = Prg(s[p], 1 - e)
  <2>1. PathNode(i, d) = T[d][q[d] + 1]
    <3>1. q[d] = x \div Pow2[D - d]
      BY <1>4, <1>5 DEF Above
    <3>2. QED
      BY <1>0, <1>1, <1>3, <3>1 DEF PathNode
  <2>2. 1 - e \in {0, 1}
    OBVIOUS
  <2>3. \A a \in 1..n, b \in {0, 1} : Children(s)[2 * a - 1 + b] = Prg(s[a], b)
    BY <1>7, ChildrenFacts
  <2>4. PICK b \in {0, 1} : b = 1 - e /\ q[d] + 1 = 2 * p - 1 + b
    BY <1>8, <2>2
  <2>5. T[d][q[d] + 1] = Children(s)[2 * p - 1 + b]
    BY <1>7, <2>4
  <2>6. QED
    BY <2>1, <2>3, <2>4, <2>5
<1>10. m = LevelSum(Children(s), e)
  BY <1>0, <1>1, <1>2, <1>4, <1>5, <1>7, <1>8
<1>11. ASSUME NEW y \in m
       PROVE  y \notin PathNode(i, d) /\ y \in UNION ToSet(Tree[i][d])
  <2>1. PICK k \in 1..n : y \in Prg(s[k], e) /\ y = <<"ggm", s[k], e>>
    BY <1>7, <1>10, LevelSumTerms
  <2>2. y \notin PathNode(i, d)
    <3>1. y[3] = e
      BY <2>1
    <3>2. \A z \in Prg(s[p], 1 - e) : z[3] = 1 - e
      BY DEF Prg
    <3>3. e # 1 - e
      OBVIOUS
    <3>4. QED
      BY <1>9, <3>1, <3>2, <3>3
  <2>3. PICK r \in 1..2 * n : Children(s)[r] = Prg(s[k], e)
    BY <1>7, ChildrenFacts
  <2>4. DOMAIN T[d] = 1..2 * n
    <3>1. List(T[d], Pow2[d])
      BY <1>2, <1>5, LevelFacts
    <3>2. PICK l \in Nat : l = 2 * n
      OBVIOUS
    <3>3. PICK v : v = T[d] /\ l = 2 * n /\ List(v, l)
      BY <1>6, <3>1, <3>2
    <3>4. DOMAIN v = 1..l
      BY <3>3, ListFacts
    <3>5. QED
      BY <3>3, <3>4
  <2>5. Prg(s[k], e) \in ToSet(T[d])
    BY <1>7, <2>3, <2>4 DEF ToSet
  <2>6. QED
    BY <1>0, <1>1, <2>1, <2>2, <2>5
<1>12. QED
  BY <1>11

\* What B sends for the extension in the clear.
TrueSend == [i \in Trees |-> Add(LeafSum(i), Add(W(i), TimesDelta(U(i))))]
LenOf == [i \in Trees |-> TreeLen(i)]

\* Tree i's positions before they are encoded.
PieceA(i) == [k \in 1..TreeLen(i) |-> IF k = param.index[i] + 1 THEN U(i) ELSE Zero]
PieceB(i) == SubSeq(Tree[i][Depth(i)], 1, TreeLen(i))
PieceC(i) ==
  LET beta == Add(inbox["S"][<<"extend", "vec_send_to_a">>][i], W(i))
      part(rows) == SubSeq(rows, Offset(i) + 1, Offset(i) + Depth(i))
  IN  SubSeq(PuncEval(Depth(i), beta, part(Received), part(Selection)), 1, TreeLen(i))

\* They are related: A differs from B in the punctured position alone.
LEMMA PieceRelated ==
  ASSUME VoleOK, ~IsSmall, ExtendSaid, inbox["S"][<<"extend", "vec_send_to_a">>] = TrueSend, NEW i \in Trees
  PROVE  Related(PieceA(i), PieceB(i), PieceC(i), TreeLen(i))
<1>1. PICK D \in Nat \ {0} : D = Depth(i)
  BY TreeLevels
<1>2. PICK n \in Nat : n = TreeLen(i) /\ n <= Pow2[D]
  BY <1>1, TreeFacts DEF VoleOK
<1>3. PICK N \in Nat : N = Pow2[D] /\ n <= N
  BY <1>2, Pow2Facts
<1>4. PICK x \in Nat : x = param.index[i] /\ x < n
  BY <1>2 DEF VoleOK
<1>5. PICK off \in Nat : off = Offset(i) /\ off + D <= ExtendLen
  <2>1. PICK t \in Nat, L \in Nat : t = i - 1 /\ L = StepLen /\ Offset(i) = t * L
    <3>1. i - 1 \in Nat
      BY VoleAssumption DEF Trees
    <3>2. StepLen \in Nat /\ Offset(i) = (i - 1) * StepLen
      BY RowLengths
    <3>3. QED
      BY <3>1, <3>2
  <2>2. t * L \in Nat
    OBVIOUS
  <2>3. D \in 1..D
    OBVIOUS
  <2>4. Offset(i) + D \in 1..ExtendLen /\ ExtendLen \in Nat
    BY <1>1, <2>3, SelectionRows, RowLengths
  <2>5. QED
    BY <2>1, <2>2, <2>4
<1>6. PICK m, bits : /\ m = SubSeq(Received, off + 1, off + D) /\ Slice(m, Received, off, D)
                     /\ bits = SubSeq(Selection, off + 1, off + D) /\ Slice(bits, Selection, off, D)
  BY DEF Slice
<1>7. ExtendLen \in Nat /\ List(Received, ExtendLen) /\ List(Selection, ExtendLen)
  BY RowLengths, ReceivedRows, SelectionRows
<1>8. List(m, D) /\ \A d \in 1..D : m[d] = Received[off + d]
  <2>1. D \in Nat /\ ExtendLen \in Nat /\ List(Received, ExtendLen) /\ off \in Nat /\ off + D <= ExtendLen /\ Slice(m, Received, off, D)
    BY <1>5, <1>6, <1>7
  <2>2. List(m, D)
    BY <2>1, PartList
  <2>3. \A d \in 1..D : m[d] = Received[off + d]
    BY <2>1, PartList
  <2>4. QED
    BY <2>2, <2>3
<1>9. List(bits, D) /\ \A d \in 1..D : bits[d] = Selection[off + d]
  <2>1. D \in Nat /\ ExtendLen \in Nat /\ List(Selection, ExtendLen) /\ off \in Nat /\ off + D <= ExtendLen /\ Slice(bits, Selection, off, D)
    BY <1>5, <1>6, <1>7
  <2>2. List(bits, D)
    BY <2>1, PartList
  <2>3. \A d \in 1..D : bits[d] = Selection[off + d]
    BY <2>1, PartList
  <2>4. QED
    BY <2>2, <2>3
<1>10. bits = BitsOf(i)
  <2>1. PICK v : v = BitsOf(i) /\ v = [k \in 1..D |-> v[k]]
    BY <1>1 DEF BitsOf, SelectionBits
  <2>2. \A d \in 1..D : bits[d] = v[d]
    BY <1>1, <1>5, <1>9, <2>1, SelectionRows
  <2>3. bits = [k \in 1..D |-> bits[k]]
    BY <1>9 DEF List
  <2>4. QED
    BY <2>1, <2>2, <2>3
<1>11. \A d \in 1..Depth(i) : m[d] = M[i][bits[d]][d]
  BY <1>1, <1>5, <1>8, <1>10, ReceivedRows
<1>12. PICK beta : /\ beta = Add(inbox["S"][<<"extend", "vec_send_to_a">>][i], W(i))
                   /\ beta = Add(LeafSum(i), TimesDelta(U(i)))
  <2>1. inbox["S"][<<"extend", "vec_send_to_a">>][i] = Add(LeafSum(i), Add(W(i), TimesDelta(U(i))))
    BY DEF TrueSend
  <2>2. \A A, B, C : Add(Add(A, Add(B, C)), B) = Add(A, C)
    <3>1. ASSUME NEW A, NEW B, NEW C
          PROVE  Add(Add(A, Add(B, C)), B) = Add(A, C)
      <4>1. \A z : z \in Add(Add(A, Add(B, C)), B) <=> z \in Add(A, C)
        BY InAdd
      <4>2. QED
        BY <4>1
    <3>2. QED
      BY <3>1
  <2>3. QED
    BY <2>1, <2>2
<1>13. PICK T, P, y : T = Tree[i][D] /\ P = PuncEval(D, beta, m, bits) /\ y = TimesDelta(U(i))
  OBVIOUS
<1>14. List(T, N) /\ Replaced(P, T, N, x + 1, Add(T[x + 1], y))
  <2>1. bits = SelectionBits(param.index[i], Depth(i))
    BY <1>10 DEF BitsOf
  <2>2. beta = Add(LeafSum(i), TimesDelta(U(i)))
    BY <1>12
  <2>3. List(Tree[i][Depth(i)], Pow2[Depth(i)])
    BY <1>11, <2>1, <2>2, LeavesOf
  <2>4. Replaced(PuncEval(Depth(i), beta, m, bits), Tree[i][Depth(i)], Pow2[Depth(i)],
                 param.index[i] + 1, Add(Tree[i][Depth(i)][param.index[i] + 1], TimesDelta(U(i))))
    BY <1>11, <2>1, <2>2, LeavesOf
  <2>5. QED
    BY <1>1, <1>3, <1>4, <1>13, <2>3, <2>4
<1>15. PICK a, b, c : a = PieceA(i) /\ b = PieceB(i) /\ c = PieceC(i)
  OBVIOUS
<1>16. a = [k \in 1..n |-> IF k = x + 1 THEN U(i) ELSE Zero]
  BY <1>2, <1>4, <1>15 DEF PieceA
<1>17. b = SubSeq(T, 1, n) /\ c = SubSeq(P, 1, n)
  BY <1>1, <1>2, <1>5, <1>6, <1>12, <1>13, <1>15 DEF PieceB, PieceC
<1>18. Slice(b, T, 0, n) /\ Slice(c, P, 0, n) /\ 0 + n <= N /\ 0 \in Nat
  <2>1. 0 + 1 = 1 /\ 0 + n = n
    OBVIOUS
  <2>2. QED
    BY <1>3, <1>17, <2>1 DEF Slice
<1>19. List(P, N)
  BY <1>14 DEF Replaced
<1>20. List(b, n) /\ \A k \in 1..n : b[k] = T[0 + k]
  <2>1. n \in Nat /\ N \in Nat /\ List(T, N) /\ 0 \in Nat /\ 0 + n <= N /\ Slice(b, T, 0, n)
    BY <1>3, <1>14, <1>18
  <2>2. List(b, n)
    BY <2>1, PartList
  <2>3. \A k \in 1..n : b[k] = T[0 + k]
    BY <2>1, PartList
  <2>4. QED
    BY <2>2, <2>3
<1>21. List(c, n) /\ \A k \in 1..n : c[k] = P[0 + k]
  <2>1. n \in Nat /\ N \in Nat /\ List(P, N) /\ 0 \in Nat /\ 0 + n <= N /\ Slice(c, P, 0, n)
    BY <1>3, <1>18, <1>19
  <2>2. List(c, n)
    BY <2>1, PartList
  <2>3. \A k \in 1..n : c[k] = P[0 + k]
    BY <2>1, PartList
  <2>4. QED
    BY <2>2, <2>3
<1>22. \A k \in 1..n : 0 + k = k /\ k \in 1..N
  BY <1>3
<1>23. ASSUME NEW k \in 1..n
       PROVE  b[k] = Add(c[k], TimesDelta(a[k]))
  <2>1. b[k] = T[k] /\ c[k] = P[k] /\ k \in 1..N
    BY <1>20, <1>21, <1>22
  <2>2. CASE k = x + 1
    <3>1. a[k] = U(i) /\ P[k] = Add(T[k], y)
      BY <1>14, <1>16, <2>1, <2>2 DEF Replaced
    <3>2. Add(Add(T[k], y), y) = T[k]
      BY AddFacts
    <3>3. QED
      BY <1>13, <2>1, <3>1, <3>2
  <2>3. CASE k # x + 1
    <3>1. a[k] = Zero /\ P[k] = T[k]
      BY <1>14, <1>16, <2>1, <2>3 DEF Replaced
    <3>2. QED
      BY <2>1, <3>1, TimesDeltaZero, AddFacts
  <2>4. QED
    BY <2>2, <2>3
<1>24. List(a, n)
  BY <1>16 DEF List
<1>25. QED
  BY <1>2, <1>15, <1>20, <1>21, <1>23, <1>24 DEF Related

\* The lists before they are encoded.
LEMMA LeavesRelated ==
  ASSUME VoleOK, ~IsSmall, ExtendSaid, inbox["S"][<<"extend", "vec_send_to_a">>] = TrueSend
  PROVE  Related(BaseFieldA, LeavesB, LeavesA, 2 * ItemNum)
<1>1. PICK a, b, c : /\ a = [i \in Trees |-> PieceA(i)] /\ b = [i \in Trees |-> PieceB(i)]
                     /\ c = [i \in Trees |-> PieceC(i)]
  OBVIOUS
<1>2. BaseFieldA = FlattenSeq(a) /\ LeavesB = FlattenSeq(b) /\ LeavesA = FlattenSeq(c)
  BY <1>1 DEF BaseFieldA, LeavesB, LeavesA, PieceA, PieceB, PieceC
<1>3. PICK t \in Nat \ {0} : t = PprfNum
  BY VoleAssumption
<1>4. PICK L \in Nat : L = SubLen
  BY TreeFacts DEF VoleOK
<1>5. PICK len : len = LenOf
  OBVIOUS
<1>6. Trees = 1..t /\ t \in Trees
  BY <1>3 DEF Trees
<1>7. \A i \in 1..t : len[i] = TreeLen(i) /\ len[i] \in Nat /\ (i # t => len[i] = L)
  <2>1. \A i \in Trees : TreeLen(i) \in Nat
    BY TreeFacts DEF VoleOK
  <2>2. \A i \in Trees : len[i] = TreeLen(i) /\ (i # PprfNum => len[i] = SubLen)
    BY <1>5 DEF LenOf, TreeLen
  <2>3. QED
    BY <1>3, <1>4, <1>6, <2>1, <2>2
<1>8. PICK n : n = 2 * ItemNum
  OBVIOUS
<1>9. Lengths(t, L, len, n)
  <2>1. (PprfNum - 1) * SubLen + LastLen = 2 * ItemNum
    BY TreeFacts DEF VoleOK
  <2>2. len[t] = LastLen
    BY <1>3, <1>6, <1>7 DEF TreeLen
  <2>3. n = (t - 1) * L + len[t]
    BY <1>3, <1>4, <1>8, <2>1, <2>2
  <2>4. QED
    BY <1>7, <2>3 DEF Lengths
<1>10. List(a, t) /\ List(b, t) /\ List(c, t)
  BY <1>1, <1>6 DEF List
<1>11. \A i \in 1..t : Related(a[i], b[i], c[i], len[i])
  <2>1. TAKE i \in 1..t
  <2>2. a[i] = PieceA(i) /\ b[i] = PieceB(i) /\ c[i] = PieceC(i)
    BY <1>1, <1>6
  <2>3. Related(PieceA(i), PieceB(i), PieceC(i), TreeLen(i))
    BY <1>6, PieceRelated
  <2>4. QED
    BY <1>7, <2>2, <2>3
<1>12. Related(FlattenSeq(a), FlattenSeq(b), FlattenSeq(c), n)
  BY <1>9, <1>10, <1>11, FlatRelated
<1>13. QED
  BY <1>2, <1>8, <1>12
-----------------------------------------------------------------------------
(***************************************************************************)
(* What the inputs determine: the messages of every protocol that carry    *)
(* data, and the results.                                                  *)
(***************************************************************************)
SenderPoints   == RaiseAll(HashAll(VecY), "k1")
ReceiverPoints == RaiseAll(HashAll(VecX), "k2")
ReturnedPoints == Comparable(RaiseAll(ReceiverPoints, "k1"))
SenderSet      == ToSet(Comparable(RaiseAll(SenderPoints, "k2")))
MatchingRows   == {i \in DOMAIN VecX : ReturnedPoints[i] \in SenderSet}
TrueIntersection ==
  [k \in DOMAIN Ascending(MatchingRows) |-> VecX[Ascending(MatchingRows)[k]]]

TrueKey(run)   == [okvs_seed |-> OkvsSeed(run), encoded_key |-> VecC(run)]

IdOf(e)      == SymDiff(Decode(OkvsSeed("first"), e, VecC("first")),
                        Decode(OkvsSeed("second"), e, VecC("second")))
IdsOf(items) == [i \in DOMAIN items |-> IdOf(items[i])]
NewRows == {i \in DOMAIN param.x : /\ IdOf(param.x[i]) \notin ToSet(IdsOf(param.y))
                                   /\ param.x[i] \notin param.stray}
TrueUnion ==
  IdsOf(param.y) \o [k \in DOMAIN Ascending(NewRows) |-> IdOf(param.x[Ascending(NewRows)[k]])]
TrueUnionId == IF param.reversed THEN Reverse(TrueUnion) ELSE TrueUnion

TrueOteKey ==
  [c \in Columns |-> [p \in Positions |->
     SymDiff(ColumnPrg(ColumnKey(param.selection[c], c))[p],
             IF param.selection[c] = 1 THEN MatrixB(c)[p] ELSE {})]]

OprfNames(run) == {<<run, "oprf", "okvs_seed">>, <<run, "oprf", "correction">>}

ExtendNames == {<<"extend", "vec_send_to_a">>, <<"extend", "vec_outer_c0">>,
                <<"extend", "vec_outer_c1">>, <<"extend", "ec_key">>}

DataNames ==
  CASE param.protocol = "vole"       -> BaseNames \cup IF IsSmall THEN {} ELSE ExtendNames
    [] param.protocol = "psi"        -> {"vec_fk1_y", "vec_fk2_x", "vec_fk1k2_x"}
    [] param.protocol = "vole_oprf"  -> OprfNames("oprf")
    [] param.protocol = "ote_oprf"   -> {<<"np", "vec_y0">>, <<"np", "vec_y1">>} \cup
                                        {<<"matrix_b", b>> : b \in Buckets}
    [] param.protocol = "private_id" -> (OprfNames("first") \cup OprfNames("second")) \cup
                                        {<<"psu", "vec_outer_c">>, <<"ids", "union_id">>}

PsiSaid(name) ==
  CASE name = "vec_fk1_y"   -> SenderPoints
    [] name = "vec_fk2_x"   -> ReceiverPoints
    [] name = "vec_fk1k2_x" -> ReturnedPoints

IdSaid(name) ==
  CASE name[1] \in {"first", "second"} -> OprfPayload(name)
    [] name = <<"psu", "vec_outer_c">> -> IdsOf(param.x)
    [] name = <<"ids", "union_id">>    -> TrueUnionId

VoleSaid(name) == IF name = <<"extend", "vec_send_to_a">> THEN TrueSend ELSE VolePayload(name)

Said(name) ==
  CASE param.protocol = "vole"       -> VoleSaid(name)
    [] param.protocol = "psi"        -> PsiSaid(name)
    [] param.protocol = "vole_oprf"  -> OprfPayload(name)
    [] param.protocol = "ote_oprf"   -> OtePayload(name)
    [] param.protocol = "private_id" -> IdSaid(name)
Transcript == [p \in Party |-> [name \in DataNames |-> Said(name)]]

TrueOutput(p) ==
  LET sender == p = "S" IN
  CASE param.protocol = "vole"       -> << >>
    [] param.protocol = "psi"        -> IF sender THEN << >> ELSE TrueIntersection
    [] param.protocol = "vole_oprf"  -> IF sender THEN TrueKey("oprf") ELSE OprfValues("oprf", param.x)
    [] param.protocol = "ote_oprf"   -> IF sender THEN TrueOteKey ELSE OteValues
    [] param.protocol = "private_id" -> [id |-> IdsOf(IF sender THEN param.x ELSE param.y),
                                         union_id |-> TrueUnionId]
-----------------------------------------------------------------------------
\* A party holds nothing but what its program receives.
NoMoreThan(p, program) ==
  \A x \in DOMAIN inbox[p] : \E c \in Calls(program) : c.op = "recv" /\ c.name = x

\* Every step of the session keeps that.
LEMMA NoMoreStep ==
  ASSUME SessionOK, InStep, InboxOK, SessionStep,
         NEW C, NEW program \in Seq(C), NEW p \in Party, SoFar(p, program), NoMoreThan(p, program)
  PROVE  NoMoreThan(p, program)'
<1>1. ASSUME DOMAIN inbox'[p] \subseteq DOMAIN inbox[p]
      PROVE  NoMoreThan(p, program)'
  BY <1>1 DEF NoMoreThan, Calls
<1>2. ASSUME NEW q \in Party, Recv(q)
      PROVE  NoMoreThan(p, program)'
  <2>1. CASE p = q
    <3>1. DOMAIN inbox'[p] = DOMAIN inbox[p] \cup {NextName(p)}
      BY <1>2, <2>1, ReceiveKeeps
    <3>2. \E c \in Calls(program) : c.op = "recv" /\ c.name = NextName(p)
      BY <1>2, <2>1, CallMade DEF Recv
    <3>3. PICK calls, x : calls = Calls(program) /\ x = NextName(p)
      OBVIOUS
    <3>4. \A y \in DOMAIN inbox'[p] : \E c \in calls : c.op = "recv" /\ c.name = y
      BY <3>1, <3>2, <3>3 DEF NoMoreThan
    <3>5. QED
      BY <3>3, <3>4 DEF NoMoreThan, Calls
  <2>2. CASE p # q
    <3>1. p = Peer(q)
      BY <2>2, PeerFacts
    <3>2. inbox'[p] = inbox[p]
      BY <1>2, <3>1, ReceiveKeeps
    <3>3. QED
      BY <1>1, <3>2
  <2>3. QED
    BY <2>1, <2>2
<1>3. ASSUME inbox' = inbox
      PROVE  NoMoreThan(p, program)'
  BY <1>1, <1>3
<1>4. QED
  BY <1>2, <1>3 DEF SessionStep, Send, PeerClosed, NetworkBreaks, Return, session

\* What the proofs need of a state: the parties are in step, each knows how far
\* it has come and holds what it has received and no more, every message says what the inputs determine, and so does every
\* result.
SessionsInv ==
  /\ ParamOK
  /\ SessionOK /\ InStep /\ InboxOK
  /\ \A p \in Party : SoFar(p, Program(p)) /\ NoMoreThan(p, Program(p))
  /\ Delivers(DataNames, Transcript)

ResultsTrue ==
  result = [p \in Party |-> IF status[p] = "returned" THEN <<TrueOutput(p)>> ELSE << >>]

\* A message received says what the inputs determine.
LEMMA InboxSaid ==
  ASSUME SessionsInv, NEW p \in Party, NEW name \in DataNames, name \in DOMAIN inbox[p]
  PROVE  inbox[p][name] = Said(name)
BY PeerFacts DEF SessionsInv, Delivers, Transcript

\* The programs are sequences of calls.
LEMMA ProgramCalls ==
  ASSUME ParamOK
  PROVE  \E C : Program("S") \in Seq(C) /\ Program("R") \in Seq(C)
BY EveryMirror DEF Mirror

\* The sender of the PSI answers when it holds the receiver's points.
LEMMA PsiSenderHolds ==
  ASSUME SessionsInv, param.protocol = "psi",
         NEW p \in Party, AtCall(p, "send"), NextName(p) = "vec_fk1k2_x"
  PROVE  "vec_fk2_x" \in DOMAIN inbox["S"]
<1>1. PICK C : Program("S") \in Seq(C) /\ Program("R") \in Seq(C)
  BY ProgramCalls DEF SessionsInv
<1>2. Program("S") = PsiSender /\ Program("R") = PsiReceiver
  BY DEF Program
<1>3. p = "S" \/ p = "R"
  BY DEF Party
<1>4. PICK program \in Seq(C) : program = Program(p) /\ SoFar(p, program)
  BY <1>1, <1>3 DEF SessionsInv
<1>5. PICK j \in 1..Len(program) :
        /\ program[j].op = "send" /\ program[j].name = "vec_fk1k2_x"
        /\ \A i \in 1..j - 1 : program[i].op = "recv" => program[i].name \in DOMAIN inbox[p]
  BY <1>4, AtNext DEF SessionsInv
<1>6. CASE p = "S"
  <2>1. program = << Snd("vec_fk1_y"), Rcv("vec_fk2_x"), Snd("vec_fk1k2_x") >>
    BY <1>2, <1>4, <1>6 DEF PsiSender
  <2>2. /\ Len(program) = 3 /\ program[1].name = "vec_fk1_y"
        /\ program[2].op = "recv" /\ program[2].name = "vec_fk2_x"
    BY <2>1 DEF Snd, Rcv
  <2>3. j = 3
    BY <1>5, <2>2
  <2>4. 2 \in 1..j - 1
    BY <2>3
  <2>5. QED
    BY <1>5, <1>6, <2>2, <2>4
<1>7. CASE p = "R"
  <2>1. program = << Rcv("vec_fk1_y"), Snd("vec_fk2_x"), Rcv("vec_fk1k2_x") >>
    BY <1>2, <1>4, <1>7 DEF PsiReceiver
  <2>2. /\ Len(program) = 3 /\ program[1].name = "vec_fk1_y"
        /\ program[2].name = "vec_fk2_x" /\ program[3].op = "recv"
    BY <2>1 DEF Snd, Rcv
  <2>3. QED
    BY <1>5, <2>2
<1>8. QED
  BY <1>3, <1>6, <1>7

\* A program that is put together from two, and what of the first its party
\* holds at a call of the second.
LEMMA HeldFirst ==
  ASSUME SessionsInv, NEW p \in Party, NEW op, AtCall(p, op),
         NEW s, NEW t, Program(p) = s \o t,
         NEW A, Consists(s, A), NEW B, Consists(t, B),
         \A c \in A : ~(c.op = op /\ c.name = NextName(p))
  PROVE  \A c \in A : c.op = "recv" => c.name \in DOMAIN inbox[p]
<1>1. s \in Seq(A \cup B) /\ t \in Seq(A \cup B) /\ Calls(s) = A
  BY SeqMonotonic DEF Consists
<1>2. PICK C : s \in Seq(C) /\ t \in Seq(C)
  BY <1>1
<1>3. SoFar(p, s \o t)
  BY DEF SessionsInv
<1>4. \A c \in Calls(s) : ~(c.op = op /\ c.name = NextName(p))
  BY <1>1
<1>5. \A c \in Calls(s) : c.op = "recv" => c.name \in DOMAIN inbox[p]
  BY <1>2, <1>3, <1>4, HeldBefore DEF SessionsInv
<1>6. QED
  BY <1>1, <1>5

\* The call a party makes is one of its program's.
LEMMA CallOfProgram ==
  ASSUME SessionsInv, NEW p \in Party, NEW op, AtCall(p, op), NEW A, Consists(Program(p), A)
  PROVE  \E c \in A : c.op = op /\ c.name = NextName(p)
<1>1. PICK program : program = Program(p)
  OBVIOUS
<1>2. program \in Seq(A) /\ Calls(program) = A /\ SoFar(p, program)
  BY <1>1 DEF Consists, SessionsInv
<1>3. QED
  BY <1>2, CallMade DEF SessionsInv

\* The calls of Private-ID's two parties, each program in two parts.
LEMMA IdSenderParts ==
  ASSUME param.small \in BOOLEAN, param.membership \in {"BloomFilter", "PlainSet"}
  PROVE  \E s, t, A, B :
              /\ IdSender = s \o t
              /\ Consists(s, A)
              /\ \A c \in A : c.name[1] = "first"
              /\ Rcv(<<"first", "oprf", "okvs_seed">>) \in A
              /\ Rcv(<<"first", "oprf", "correction">>) \in A
              /\ Consists(t, B)
              /\ \A c \in B : c.op = "send" => c.name[1] # "ids"
              /\ Rcv(<<"ids", "union_id">>) \in B
<1>1. PICK s, t : /\ s = OprfSender("first")
                  /\ t = OprfReceiver("second")
                               \o (In("psu", PsoSender("Union", param.membership))
                                    \o In("ids", << Rcv("union_id_size"), Rcv("union_id") >>))
  OBVIOUS
<1>2. \E A, B :
              /\ IdSender = s \o t
              /\ Consists(s, A)
              /\ \A c \in A : c.name[1] = "first"
              /\ Rcv(<<"first", "oprf", "okvs_seed">>) \in A
              /\ Rcv(<<"first", "oprf", "correction">>) \in A
              /\ Consists(t, B)
              /\ \A c \in B : c.op = "send" => c.name[1] # "ids"
              /\ Rcv(<<"ids", "union_id">>) \in B
  BY <1>1, IdCalls, Zenon
<1>3. QED
  BY <1>2

\* ... and its receiver's.
LEMMA IdReceiverParts ==
  ASSUME param.small \in BOOLEAN, param.membership \in {"BloomFilter", "PlainSet"}
  PROVE  \E s, t, A, B :
              /\ IdReceiver = s \o t
              /\ Consists(s, A)
              /\ \A c \in A : c.name[1] \in IdPhases
              /\ \A c \in A : c.op = "send" => c.name # <<"psu", "vec_outer_c">>
              /\ Rcv(<<"second", "oprf", "okvs_seed">>) \in A
              /\ Rcv(<<"second", "oprf", "correction">>) \in A
              /\ Rcv(<<"psu", "vec_outer_c">>) \in A
              /\ Consists(t, B)
              /\ \A c \in B : c.name[1] = "ids"
<1>1. PICK s, t : /\ s = (OprfReceiver("first") \o OprfSender("second"))
                               \o In("psu", PsoReceiver("Union", param.membership))
                  /\ t = In("ids", << Snd("union_id_size"), Snd("union_id") >>)
  OBVIOUS
<1>2. \E A, B :
              /\ IdReceiver = s \o t
              /\ Consists(s, A)
              /\ \A c \in A : c.name[1] \in IdPhases
              /\ \A c \in A : c.op = "send" => c.name # <<"psu", "vec_outer_c">>
              /\ Rcv(<<"second", "oprf", "okvs_seed">>) \in A
              /\ Rcv(<<"second", "oprf", "correction">>) \in A
              /\ Rcv(<<"psu", "vec_outer_c">>) \in A
              /\ Consists(t, B)
              /\ \A c \in B : c.name[1] = "ids"
  BY <1>1, IdCalls, Zenon
<1>3. QED
  BY <1>2

\* The sender of Private-ID forms its IDs when its first OPRF is done.
LEMMA IdSenderHolds ==
  ASSUME SessionsInv, param.protocol = "private_id",
         NEW p \in Party, AtCall(p, "send"), NextName(p) = <<"psu", "vec_outer_c">>
  PROVE  p = "S" /\ OprfNames("first") \subseteq DOMAIN inbox["S"]
<1>1. param.small \in BOOLEAN /\ param.membership \in {"BloomFilter", "PlainSet"}
  BY ParamFacts DEF SessionsInv
<1>2. NextName(p)[1] = "psu"
  OBVIOUS
<1>3. p # "R"
  <2>1. SUFFICES ASSUME p = "R" PROVE FALSE
    OBVIOUS
  <2>2. PICK s, t, A, B :
              /\ IdReceiver = s \o t
              /\ Consists(s, A)
              /\ \A c \in A : c.name[1] \in IdPhases
              /\ \A c \in A : c.op = "send" => c.name # <<"psu", "vec_outer_c">>
              /\ Rcv(<<"second", "oprf", "okvs_seed">>) \in A
              /\ Rcv(<<"second", "oprf", "correction">>) \in A
              /\ Rcv(<<"psu", "vec_outer_c">>) \in A
              /\ Consists(t, B)
              /\ \A c \in B : c.name[1] = "ids"
    BY <1>1, IdReceiverParts
  <2>3. Program(p) = s \o t
    BY <2>1, <2>2 DEF Program
  <2>4. PICK c \in A \cup B : c.op = "send" /\ c.name = NextName(p)
    <3>1. Consists(s, A) /\ Consists(t, B)
      BY <2>2
    <3>2. Consists(Program(p), A \cup B)
      BY <2>3, <3>1, ConsistsConcat
    <3>3. QED
      BY <3>2, CallOfProgram
  <2>5. QED
    BY <1>2, <2>2, <2>4
<1>4. p = "S"
  BY <1>3 DEF Party
<1>5. PICK s, t, A, B :
              /\ IdSender = s \o t
              /\ Consists(s, A)
              /\ \A c \in A : c.name[1] = "first"
              /\ Rcv(<<"first", "oprf", "okvs_seed">>) \in A
              /\ Rcv(<<"first", "oprf", "correction">>) \in A
              /\ Consists(t, B)
              /\ \A c \in B : c.op = "send" => c.name[1] # "ids"
              /\ Rcv(<<"ids", "union_id">>) \in B
  BY <1>1, IdSenderParts
<1>6. Program(p) = s \o t
  BY <1>4, <1>5 DEF Program
<1>7. \A c \in A : ~(c.op = "send" /\ c.name = NextName(p))
  BY <1>2, <1>5
<1>8. \A c \in A : c.op = "recv" => c.name \in DOMAIN inbox[p]
  BY <1>5, <1>6, <1>7, HeldFirst
<1>9. \A x : Rcv(x).op = "recv" /\ Rcv(x).name = x
  BY DEF Rcv
<1>10. QED
  BY <1>4, <1>5, <1>8, <1>9 DEF OprfNames

\* Its receiver hands the union back when it has it, and its own second key.
LEMMA IdReceiverHolds ==
  ASSUME SessionsInv, param.protocol = "private_id",
         NEW p \in Party, AtCall(p, "send"), NextName(p) = <<"ids", "union_id">>
  PROVE  /\ p = "R"
         /\ OprfNames("second") \cup {<<"psu", "vec_outer_c">>} \subseteq DOMAIN inbox["R"]
<1>1. param.small \in BOOLEAN /\ param.membership \in {"BloomFilter", "PlainSet"}
  BY ParamFacts DEF SessionsInv
<1>2. NextName(p)[1] = "ids"
  OBVIOUS
<1>3. p # "S"
  <2>1. SUFFICES ASSUME p = "S" PROVE FALSE
    OBVIOUS
  <2>2. PICK s, t, A, B :
              /\ IdSender = s \o t
              /\ Consists(s, A)
              /\ \A c \in A : c.name[1] = "first"
              /\ Rcv(<<"first", "oprf", "okvs_seed">>) \in A
              /\ Rcv(<<"first", "oprf", "correction">>) \in A
              /\ Consists(t, B)
              /\ \A c \in B : c.op = "send" => c.name[1] # "ids"
              /\ Rcv(<<"ids", "union_id">>) \in B
    BY <1>1, IdSenderParts
  <2>3. Program(p) = s \o t
    BY <2>1, <2>2 DEF Program
  <2>4. PICK c \in A \cup B : c.op = "send" /\ c.name = NextName(p)
    <3>1. Consists(s, A) /\ Consists(t, B)
      BY <2>2
    <3>2. Consists(Program(p), A \cup B)
      BY <2>3, <3>1, ConsistsConcat
    <3>3. QED
      BY <3>2, CallOfProgram
  <2>5. QED
    BY <1>2, <2>2, <2>4
<1>4. p = "R"
  BY <1>3 DEF Party
<1>5. PICK s, t, A, B :
              /\ IdReceiver = s \o t
              /\ Consists(s, A)
              /\ \A c \in A : c.name[1] \in IdPhases
              /\ \A c \in A : c.op = "send" => c.name # <<"psu", "vec_outer_c">>
              /\ Rcv(<<"second", "oprf", "okvs_seed">>) \in A
              /\ Rcv(<<"second", "oprf", "correction">>) \in A
              /\ Rcv(<<"psu", "vec_outer_c">>) \in A
              /\ Consists(t, B)
              /\ \A c \in B : c.name[1] = "ids"
  BY <1>1, IdReceiverParts
<1>6. Program(p) = s \o t
  BY <1>4, <1>5 DEF Program
<1>7. \A c \in A : ~(c.op = "send" /\ c.name = NextName(p))
  BY <1>2, <1>5 DEF IdPhases
<1>8. \A c \in A : c.op = "recv" => c.name \in DOMAIN inbox[p]
  BY <1>5, <1>6, <1>7, HeldFirst
<1>9. \A x : Rcv(x).op = "recv" /\ Rcv(x).name = x
  BY DEF Rcv
<1>10. QED
  BY <1>4, <1>5, <1>8, <1>9 DEF OprfNames

\* A party that is done holds whatever its program receives.
LEMMA DoneHolds ==
  ASSUME SessionsInv, NEW p \in Party, status[p] = "returned" \/ todo[p] = <<>>,
         NEW A, Consists(Program(p), A), NEW x, Rcv(x) \in A
  PROVE  x \in DOMAIN inbox[p]
<1>1. PICK program : program = Program(p)
  OBVIOUS
<1>2. program \in Seq(A) /\ Calls(program) = A /\ SoFar(p, program)
  BY <1>1 DEF Consists, SessionsInv
<1>3. \A c \in A : c.op = "recv" => c.name \in DOMAIN inbox[p]
  BY <1>2, ReturnedHoldsAll DEF SessionsInv
<1>4. QED
  BY <1>3 DEF Rcv

\* What the parties hold when they return: of the PSI, ...
LEMMA PsiDoneHolds ==
  ASSUME SessionsInv, param.protocol = "psi", status["R"] = "returned" \/ todo["R"] = <<>>
  PROVE  {"vec_fk1_y", "vec_fk1k2_x"} \subseteq DOMAIN inbox["R"]
<1> DEFINE A == {Rcv("vec_fk1_y"), Snd("vec_fk2_x"), Rcv("vec_fk1k2_x")}
<1>1. Program("R") = PsiReceiver /\ "R" \in Party
  BY DEF Program, Party
<1>2. Consists(PsiReceiver, A)
  <2>1. PICK a, b, c : a = Rcv("vec_fk1_y") /\ b = Snd("vec_fk2_x") /\ c = Rcv("vec_fk1k2_x")
    OBVIOUS
  <2>2. Consists(<< a, b, c >>, {a, b, c})
    BY CallsThree DEF Consists
  <2>3. QED
    BY <2>1, <2>2 DEF PsiReceiver
<1>3. Rcv("vec_fk1_y") \in A /\ Rcv("vec_fk1k2_x") \in A
  OBVIOUS
<1> HIDE DEF A
<1>4. QED
  BY <1>1, <1>2, <1>3, DoneHolds

\* ... of an OPRF from VOLE, ...
LEMMA OprfDoneHolds ==
  ASSUME SessionsInv, param.protocol = "vole_oprf", status["S"] = "returned" \/ todo["S"] = <<>>
  PROVE  OprfNames("oprf") \subseteq DOMAIN inbox["S"]
<1>1. Program("S") = OprfSender("oprf") /\ "S" \in Party /\ param.small \in BOOLEAN
  BY ParamFacts DEF Program, Party, SessionsInv
<1>2. PICK A : /\ Consists(OprfSender("oprf"), A)
               /\ Rcv(<<"oprf", "oprf", "okvs_seed">>) \in A
               /\ Rcv(<<"oprf", "oprf", "correction">>) \in A
  BY <1>1, OprfSenderCalls
<1>3. QED
  BY <1>1, <1>2, DoneHolds DEF OprfNames

\* ... of the OPRF from OT, ...
LEMMA OteDoneHolds ==
  ASSUME SessionsInv, param.protocol = "ote_oprf", status["S"] = "returned" \/ todo["S"] = <<>>
  PROVE  DataNames \subseteq DOMAIN inbox["S"]
<1>1. Program("S") = OteSender /\ "S" \in Party
  BY DEF Program, Party
<1> DEFINE A == {Rcv("c"), Rcv("vec_x"), Snd("vec_pk0"), Rcv("vec_y0"), Rcv("vec_y1")}
           B == {Rcv(b) : b \in Buckets}
           np == {[op |-> c.op, name |-> <<"np", c.name>>] : c \in A}
           matrix == {[op |-> c.op, name |-> <<"matrix_b", c.name>>] : c \in B}
           s == [b \in Buckets |-> Rcv(b)]
<1>2. Consists(NpOtReceiver, A)
  BY OtCallSets
<1>3. Consists(s, B)
  <2>1. PICK n \in Nat : n = (MatrixWidth + SplitBucketSize - 1) \div SplitBucketSize
    BY OteAssumption
  <2>2. Buckets = 1..n
    BY <2>1 DEF Buckets
  <2>3. s \in [1..n -> B] /\ B = {s[i] : i \in 1..n}
    BY <2>2
  <2> HIDE DEF s, B
  <2>4. s \in Seq(B) /\ Len(s) = n
    BY <2>3
  <2>5. QED
    BY <2>3, <2>4 DEF Consists, Calls
<1>4. (\A c \in A : IsCall(c)) /\ (\A c \in B : IsCall(c))
  BY DEF IsCall, Snd, Rcv
<1>5. \A x : Rcv(x) = [op |-> "recv", name |-> x]
  BY DEF Rcv
<1>6. /\ Rcv(<<"np", "vec_y0">>) \in np /\ Rcv(<<"np", "vec_y1">>) \in np
      /\ \A b \in Buckets : Rcv(<<"matrix_b", b>>) \in matrix
  <2>1. Rcv("vec_y0") \in A /\ Rcv("vec_y1") \in A /\ \A b \in Buckets : Rcv(b) \in B
    OBVIOUS
  <2>2. \A x : Rcv(x).op = "recv" /\ Rcv(x).name = x
    BY DEF Rcv
  <2>4. /\ \A c \in A : [op |-> c.op, name |-> <<"np", c.name>>] \in np
        /\ \A c \in B : [op |-> c.op, name |-> <<"matrix_b", c.name>>] \in matrix
    OBVIOUS
  <2> HIDE DEF A, B, np, matrix
  <2>3. /\ [op |-> "recv", name |-> <<"np", "vec_y0">>] \in np
        /\ [op |-> "recv", name |-> <<"np", "vec_y1">>] \in np
        /\ \A b \in Buckets : [op |-> "recv", name |-> <<"matrix_b", b>>] \in matrix
    BY <2>1, <2>2, <2>4
  <2>5. QED
    BY <1>5, <2>3
<1>7. Consists(OteSender, np \cup matrix)
  <2> HIDE DEF A, B, s
  <2>1. Consists(In("np", NpOtReceiver), np)
    BY <1>2, <1>4, ConsistsIn
  <2>2. Consists(In("matrix_b", s), matrix)
    BY <1>3, <1>4, ConsistsIn
  <2> HIDE DEF np, matrix
  <2>3. Consists(In("np", NpOtReceiver) \o In("matrix_b", s), np \cup matrix)
    BY <2>1, <2>2, ConsistsConcat
  <2>4. QED
    BY <2>3 DEF OteSender, s
<1> HIDE DEF A, B, np, matrix, s
<1>8. \A x : Rcv(x) \in np \cup matrix => x \in DOMAIN inbox["S"]
  BY <1>1, <1>7, DoneHolds
<1>9. DataNames = {<<"np", "vec_y0">>, <<"np", "vec_y1">>} \cup {<<"matrix_b", b>> : b \in Buckets}
  BY DEF DataNames
<1>10. QED
  BY <1>6, <1>8, <1>9

\* ... and of Private-ID.
LEMMA IdDoneHolds ==
  ASSUME SessionsInv, param.protocol = "private_id",
         NEW p \in Party, status[p] = "returned" \/ todo[p] = <<>>
  PROVE  /\ p = "S" => OprfNames("first") \cup {<<"ids", "union_id">>} \subseteq DOMAIN inbox["S"]
         /\ p = "R" => OprfNames("second") \cup {<<"psu", "vec_outer_c">>} \subseteq DOMAIN inbox["R"]
<1>1. param.small \in BOOLEAN /\ param.membership \in {"BloomFilter", "PlainSet"}
  BY ParamFacts DEF SessionsInv
<1>2. CASE p = "S"
  <2>1. PICK s, t, A, B :
              /\ IdSender = s \o t
              /\ Consists(s, A)
              /\ \A c \in A : c.name[1] = "first"
              /\ Rcv(<<"first", "oprf", "okvs_seed">>) \in A
              /\ Rcv(<<"first", "oprf", "correction">>) \in A
              /\ Consists(t, B)
              /\ \A c \in B : c.op = "send" => c.name[1] # "ids"
              /\ Rcv(<<"ids", "union_id">>) \in B
    BY <1>1, IdSenderParts
  <2>2. Consists(Program(p), A \cup B)
    <3>1. Program(p) = s \o t
      BY <1>2, <2>1 DEF Program
    <3>2. Consists(s, A) /\ Consists(t, B)
      BY <2>1
    <3>3. QED
      BY <3>1, <3>2, ConsistsConcat
  <2>3. QED
    BY <1>2, <2>1, <2>2, DoneHolds DEF OprfNames
<1>3. CASE p = "R"
  <2>1. PICK s, t, A, B :
              /\ IdReceiver = s \o t
              /\ Consists(s, A)
              /\ \A c \in A : c.name[1] \in IdPhases
              /\ \A c \in A : c.op = "send" => c.name # <<"psu", "vec_outer_c">>
              /\ Rcv(<<"second", "oprf", "okvs_seed">>) \in A
              /\ Rcv(<<"second", "oprf", "correction">>) \in A
              /\ Rcv(<<"psu", "vec_outer_c">>) \in A
              /\ Consists(t, B)
              /\ \A c \in B : c.name[1] = "ids"
    BY <1>1, IdReceiverParts
  <2>2. Consists(Program(p), A \cup B)
    <3>1. Program(p) = s \o t
      BY <1>3, <2>1 DEF Program
    <3>2. Consists(s, A) /\ Consists(t, B)
      BY <2>1
    <3>3. QED
      BY <3>1, <3>2, ConsistsConcat
  <2>3. QED
    BY <1>3, <2>1, <2>2, DoneHolds DEF OprfNames
<1>4. QED
  BY <1>2, <1>3
-----------------------------------------------------------------------------
\* Terms that occur twice in a sum cancel.
LEMMA SymDiffFacts ==
  /\ \A A : SymDiff({}, A) = A /\ SymDiff(A, {}) = A
  /\ \A A, B : SymDiff(SymDiff(A, B), B) = A
  /\ \A A, B : SymDiff(A, SymDiff(A, B)) = B
<1>1. \A A : SymDiff({}, A) = A /\ SymDiff(A, {}) = A
  BY DEF SymDiff
<1>2. ASSUME NEW A, NEW B
      PROVE  SymDiff(SymDiff(A, B), B) = A /\ SymDiff(A, SymDiff(A, B)) = B
  BY DEF SymDiff
<1>3. QED
  BY <1>1, <1>2

\* A column lies in its bucket.
LEMMA ColumnBucket ==
  ASSUME NEW c \in Columns
  PROVE  /\ BucketOf(c) \in Buckets
         /\ LeftIndex(BucketOf(c)) \in Nat
         /\ c - LeftIndex(BucketOf(c)) \in 1..RightIndex(BucketOf(c)) - LeftIndex(BucketOf(c))
<1>1. PICK width \in Nat \ {0}, B \in Nat \ {0} : width = MatrixWidth /\ B = SplitBucketSize
  BY OteAssumption
<1>2. PICK d \in Nat : d = c - 1 /\ c \in 1..width
  BY <1>1 DEF Columns
<1>3. PICK q \in Nat, r \in 0..B - 1 : d = q * B + r /\ d \div B = q
  BY <1>2, Quotient
<1>4. PICK e \in Nat : e = width + B - 1
  OBVIOUS
<1>5. PICK k \in Nat, s \in 0..B - 1 : e = k * B + s /\ e \div B = k
  BY <1>4, Quotient
<1>6. BucketOf(c) = q + 1
  BY <1>1, <1>2, <1>3 DEF BucketOf
<1>7. Buckets = 1..k
  BY <1>1, <1>4, <1>5 DEF Buckets
<1>8. PICK x \in Nat, y \in Nat : x = q * B /\ y = k * B
  OBVIOUS
<1>9. (q + 1) * B = x + B /\ (k + 1) * B = y + B
  BY <1>8
<1>10. x + B < y + B
  BY <1>2, <1>3, <1>4, <1>5, <1>8
<1>11. q + 1 <= k
  <2>1. (q + 1) * B < (k + 1) * B
    <3>1. e - d = (width - (c - 1)) + B - 1
      BY <1>2, <1>4
    <3>2. QED
      BY <1>9, <1>10
  <2>2. QED
    BY <2>1, Multiples
<1>12. LeftIndex(q + 1) = x
  <2>1. (q + 1) - 1 = q
    OBVIOUS
  <2>2. QED
    BY <1>1, <1>8, <2>1 DEF LeftIndex
<1>13. RightIndex(q + 1) = IF x + B <= width THEN x + B ELSE width
  BY <1>1, <1>12, MinOfTwo DEF RightIndex
<1>14. d = x + r
  BY <1>3, <1>8
<1>15. c - x \in 1..(IF x + B <= width THEN x + B ELSE width) - x
  BY <1>2, <1>14
<1>16. QED
  BY <1>6, <1>7, <1>11, <1>12, <1>13, <1>15

\* What the two messages of an OPRF from VOLE carry.
LEMMA OprfPayloads ==
  ASSUME NEW run
  PROVE  /\ OprfPayload(<<run, "oprf", "okvs_seed">>) = OkvsSeed(run)
         /\ OprfPayload(<<run, "oprf", "correction">>) = VecA(run)
<1>1. /\ Tail(<<run, "oprf", "okvs_seed">>) = <<"oprf", "okvs_seed">>
      /\ <<run, "oprf", "okvs_seed">>[1] = run
      /\ Tail(<<run, "oprf", "correction">>) = <<"oprf", "correction">>
      /\ <<run, "oprf", "correction">>[1] = run
  BY Tuples
<1>2. <<"oprf", "okvs_seed">> # <<"oprf", "correction">>
  <2>1. <<"oprf", "okvs_seed">>[2] = "okvs_seed" /\ <<"oprf", "correction">>[2] = "correction"
    OBVIOUS
  <2>2. QED
    BY <2>1
<1>3. SymDiff(EncodedZeros, VecA(run)) = VecA(run)
  BY SymDiffFacts DEF EncodedZeros
<1>4. PICK n1, n2 : n1 = <<run, "oprf", "okvs_seed">> /\ n2 = <<run, "oprf", "correction">>
  OBVIOUS
<1>5. /\ Tail(n1) = <<"oprf", "okvs_seed">> /\ n1[1] = run
      /\ Tail(n2) = <<"oprf", "correction">> /\ n2[1] = run
  BY <1>1, <1>4
<1>6. OprfPayload(n1) = OkvsSeed(run)
  BY <1>5 DEF OprfPayload
<1>7. OprfPayload(n2) = VecA(run)
  BY <1>2, <1>3, <1>5 DEF OprfPayload
<1>8. QED
  BY <1>4, <1>6, <1>7

\* The key an OPRF's sender puts together from them.
LEMMA OprfKeyTrue ==
  ASSUME SessionsInv, NEW p \in Party, NEW run,
         \/ param.protocol = "vole_oprf" /\ run = "oprf"
         \/ param.protocol = "private_id" /\ run \in {"first", "second"},
         OprfNames(run) \subseteq DOMAIN inbox[p]
  PROVE  OprfKey(p, run) = TrueKey(run)
<1> DEFINE seed == <<run, "oprf", "okvs_seed">>
           correction == <<run, "oprf", "correction">>
<1>1. seed \in DataNames /\ correction \in DataNames
  BY DEF DataNames, OprfNames
<1>2. seed[1] = run /\ correction[1] = run
  BY Tuples
<1>3. Said(seed) = OkvsSeed(run) /\ Said(correction) = VecA(run)
  <2>1. OprfPayload(seed) = OkvsSeed(run) /\ OprfPayload(correction) = VecA(run)
    BY OprfPayloads
  <2> HIDE DEF seed, correction
  <2>2. CASE param.protocol = "vole_oprf"
    BY <2>1, <2>2 DEF Said
  <2>3. CASE param.protocol = "private_id" /\ run \in {"first", "second"}
    BY <1>2, <2>1, <2>3 DEF Said, IdSaid
  <2>4. QED
    BY <2>2, <2>3
<1>4. seed \in DOMAIN inbox[p] /\ correction \in DOMAIN inbox[p]
  BY DEF OprfNames
<1>5. inbox[p][seed] = OkvsSeed(run) /\ inbox[p][correction] = VecA(run)
  <2> HIDE DEF seed, correction
  <2>1. QED
    BY <1>1, <1>3, <1>4, InboxSaid
<1>6. SymDiff(VecB(run), DeltaTimes(VecA(run))) = VecC(run)
  BY SymDiffFacts DEF VecB
<1>7. QED
  BY <1>5, <1>6 DEF OprfKey, TrueKey, Held

\* An ID is the sum of its item's two values, whichever of them its party
\* evaluates itself.
LEMMA IdsTrue ==
  /\ OprfKey("S", "first") = TrueKey("first") => SenderId = IdsOf(param.x)
  /\ OprfKey("R", "second") = TrueKey("second") => ReceiverId = IdsOf(param.y)
BY DEF SenderId, ReceiverId, IdsOf, IdOf, SumUp, Evaluate, OprfValues, TrueKey

\* The receiver's union.
LEMMA UnionTrue ==
  ASSUME Distinct(param.x), ReceiverId = IdsOf(param.y),
         inbox["R"][<<"psu", "vec_outer_c">>] = IdsOf(param.x)
  PROVE  Union = TrueUnion /\ UnionId = TrueUnionId
<1>1. PICK n \in Nat : DOMAIN param.x = 1..n
  BY DEF Distinct
<1>2. NewRows \in SUBSET (1..n)
  BY <1>1 DEF NewRows
<1>3. PICK m \in Nat : Ascending(NewRows) \in [1..m -> NewRows]
  BY <1>2, AscendingProperties
<1>4. PICK a \in [1..m -> NewRows] : a = Ascending(NewRows)
  BY <1>3
<1>5. PICK sent : sent = inbox["R"][<<"psu", "vec_outer_c">>]
  OBVIOUS
<1>6. DOMAIN sent = DOMAIN param.x /\ \A i \in DOMAIN param.x : sent[i] = IdOf(param.x[i])
  BY <1>5 DEF IdsOf
<1>7. {i \in DOMAIN sent : sent[i] \notin ToSet(ReceiverId) /\ param.x[i] \notin param.stray} = NewRows
  BY <1>6 DEF NewRows
<1>8. Union = ReceiverId \o [k \in DOMAIN a |-> sent[a[k]]]
  BY <1>4, <1>5, <1>7 DEF Union, Held
<1>9. [k \in DOMAIN a |-> sent[a[k]]] = [k \in DOMAIN a |-> IdOf(param.x[a[k]])]
  <2>1. \A k \in DOMAIN a : sent[a[k]] = IdOf(param.x[a[k]])
    BY <1>1, <1>2, <1>4, <1>6
  <2>2. QED
    BY <2>1
<1>10. TrueUnion = IdsOf(param.y) \o [k \in DOMAIN a |-> IdOf(param.x[a[k]])]
  BY <1>4 DEF TrueUnion
<1>11. Union = TrueUnion
  BY <1>8, <1>9, <1>10
<1>12. QED
  BY <1>11 DEF UnionId, TrueUnionId

\* The PSI's receiver matches what the inputs determine.
LEMMA IntersectionTrue ==
  ASSUME SessionsInv, param.protocol = "psi",
         {"vec_fk1_y", "vec_fk1k2_x"} \subseteq DOMAIN inbox["R"]
  PROVE  VecIntersection = TrueIntersection
<1>1. /\ inbox["R"]["vec_fk1_y"] = SenderPoints
      /\ inbox["R"]["vec_fk1k2_x"] = ReturnedPoints
  <2>1. "R" \in Party /\ "vec_fk1_y" \in DataNames /\ "vec_fk1k2_x" \in DataNames
    BY DEF Party, DataNames
  <2>2. Said("vec_fk1_y") = SenderPoints /\ Said("vec_fk1k2_x") = ReturnedPoints
    BY DEF Said, PsiSaid
  <2>3. QED
    BY <2>1, <2>2, InboxSaid
<1>2. ToSet(Comparable(RaiseAll(Held("R", "vec_fk1_y"), "k2"))) = SenderSet
  BY <1>1 DEF Held, SenderSet
<1>3. {i \in DOMAIN VecX : Held("R", "vec_fk1k2_x")[i] \in SenderSet} = MatchingRows
  BY <1>1 DEF Held, MatchingRows
<1>4. QED
  BY <1>2, <1>3 DEF VecIntersection, TrueIntersection

\* The key of the OPRF from OT.
LEMMA OteKeyTrue ==
  ASSUME SessionsInv, param.protocol = "ote_oprf", DataNames \subseteq DOMAIN inbox["S"]
  PROVE  OteKey = TrueOteKey
<1> DEFINE y0 == <<"np", "vec_y0">>
           y1 == <<"np", "vec_y1">>
           matrix(b) == <<"matrix_b", b>>
<1>1. y0[1] = "np" /\ y0[2] = "vec_y0" /\ y1[2] = "vec_y1" /\ \A b : matrix(b)[1] = "matrix_b" /\ matrix(b)[2] = b
  OBVIOUS
<1>2. y0 \in DataNames /\ y1 \in DataNames /\ \A b \in Buckets : matrix(b) \in DataNames
  BY DEF DataNames
<1>3. y0 # y1 /\ \A b : matrix(b) # y0 /\ matrix(b) # y1
  OBVIOUS
<1> HIDE DEF y0, y1, matrix
<1>4. /\ OtePayload(y0) = [c \in Columns |-> Encrypt(c, 0, ColumnKey(0, c))]
      /\ OtePayload(y1) = [c \in Columns |-> Encrypt(c, 1, ColumnKey(1, c))]
      /\ \A b : OtePayload(matrix(b)) = [i \in 1..RightIndex(b) - LeftIndex(b) |-> MatrixB(LeftIndex(b) + i)]
  <2>1. OtePayload(y0) = [c \in Columns |-> Encrypt(c, 0, ColumnKey(0, c))]
    BY DEF OtePayload, y0
  <2>2. OtePayload(y1) = [c \in Columns |-> Encrypt(c, 1, ColumnKey(1, c))]
    BY <1>3 DEF OtePayload, y0, y1
  <2>3. ASSUME NEW b
        PROVE  OtePayload(matrix(b)) = [i \in 1..RightIndex(b) - LeftIndex(b) |-> MatrixB(LeftIndex(b) + i)]
    <3>1. PICK n : n = matrix(b) /\ n # <<"np", "vec_y0">> /\ n # <<"np", "vec_y1">>
      BY <1>3 DEF y0, y1
    <3>2. n[1] = "matrix_b" /\ n[2] = b
      BY <1>1, <3>1
    <3>3. OtePayload(n) = [i \in 1..RightIndex(n[2]) - LeftIndex(n[2]) |-> MatrixB(LeftIndex(n[2]) + i)]
      BY <3>1, <3>2 DEF OtePayload
    <3>4. QED
      BY <3>1, <3>2, <3>3
  <2>4. QED
    BY <2>1, <2>2, <2>3
<1>5. \A name \in DataNames : inbox["S"][name] = OtePayload(name)
  <2>1. "S" \in Party
    BY DEF Party
  <2>2. \A name \in DataNames : Said(name) = OtePayload(name)
    BY DEF Said
  <2>3. QED
    BY <2>1, <2>2, InboxSaid
<1>6. param.selection \in [Columns -> {0, 1}]
  BY ParamFacts DEF SessionsInv
<1> DEFINE k == OtReceive(param.selection, Held("S", y0), Held("S", y1))
<1>7. \A c \in Columns : k[c] = ColumnKey(param.selection[c], c)
  <2>1. Held("S", y0) = OtePayload(y0) /\ Held("S", y1) = OtePayload(y1)
    BY <1>2, <1>5 DEF Held
  <2>2. \A c, b, m : Decrypt(<<c, b>>, Encrypt(c, b, m)) = m
    BY DEF Decrypt, Encrypt
  <2>3. TAKE c \in Columns
  <2>4. k[c] = Decrypt(<<c, param.selection[c]>>, IF param.selection[c] = 0 THEN Held("S", y0)[c] ELSE Held("S", y1)[c])
    BY <1>6 DEF OtReceive
  <2>5. CASE param.selection[c] = 0
    BY <1>4, <2>1, <2>2, <2>4, <2>5
  <2>6. CASE param.selection[c] = 1
    BY <1>4, <2>1, <2>2, <2>4, <2>6
  <2>7. QED
    BY <1>6, <2>5, <2>6
<1>8. \A c \in Columns : Held("S", matrix(BucketOf(c)))[c - LeftIndex(BucketOf(c))] = MatrixB(c)
  <2>1. TAKE c \in Columns
  <2>2. PICK b \in Buckets : b = BucketOf(c)
    BY ColumnBucket
  <2>3. PICK l \in Nat : l = LeftIndex(b)
    BY <2>2, ColumnBucket
  <2>4. c - l \in 1..RightIndex(b) - l
    BY <2>2, <2>3, ColumnBucket
  <2>5. Held("S", matrix(b)) = [i \in 1..RightIndex(b) - l |-> MatrixB(l + i)]
    <3>1. Held("S", matrix(b)) = OtePayload(matrix(b))
      BY <1>2, <1>5 DEF Held
    <3>2. OtePayload(matrix(b)) = [i \in 1..RightIndex(b) - LeftIndex(b) |-> MatrixB(LeftIndex(b) + i)]
      BY <1>4
    <3>3. QED
      BY <2>3, <3>1, <3>2, Zenon
  <2>6. l + (c - l) = c
    BY OteAssumption DEF Columns
  <2>7. QED
    BY <2>2, <2>3, <2>4, <2>5, <2>6
<1>9. OteKey = [c \in Columns |-> [p \in Positions |->
         SymDiff(ColumnPrg(k[c])[p],
                 IF param.selection[c] = 1 THEN Held("S", matrix(BucketOf(c)))[c - LeftIndex(BucketOf(c))][p] ELSE {})]]
  BY DEF OteKey, matrix, y0, y1
<1> HIDE DEF k
<1>10. QED
  BY <1>7, <1>8, <1>9 DEF TrueOteKey
-----------------------------------------------------------------------------
\* A message received on either side says what the inputs determine.
LEMMA IdMessages ==
  ASSUME SessionsInv, param.protocol = "private_id", NEW p \in Party,
         NEW name \in {<<"psu", "vec_outer_c">>, <<"ids", "union_id">>}, name \in DOMAIN inbox[p]
  PROVE  inbox[p][name] = IF name = <<"psu", "vec_outer_c">> THEN IdsOf(param.x) ELSE TrueUnionId
<1>1. name \in DataNames
  BY DEF DataNames
<1>2. <<"psu", "vec_outer_c">>[1] = "psu" /\ <<"ids", "union_id">>[1] = "ids"
  OBVIOUS
<1>3. name[1] \notin {"first", "second"}
  BY <1>2
<1>4. Said(name) = IF name = <<"psu", "vec_outer_c">> THEN IdsOf(param.x) ELSE TrueUnionId
  BY <1>3 DEF Said, IdSaid
<1>5. QED
  BY <1>1, <1>4, InboxSaid

\* The receiver of Private-ID has the union when it has the sender's IDs.
LEMMA IdUnionTrue ==
  ASSUME SessionsInv, param.protocol = "private_id",
         OprfNames("second") \cup {<<"psu", "vec_outer_c">>} \subseteq DOMAIN inbox["R"]
  PROVE  ReceiverId = IdsOf(param.y) /\ UnionId = TrueUnionId
<1>1. "R" \in Party
  BY DEF Party
<1>2. OprfKey("R", "second") = TrueKey("second")
  BY <1>1, OprfKeyTrue
<1>3. ReceiverId = IdsOf(param.y)
  BY <1>2, IdsTrue
<1>4. inbox["R"][<<"psu", "vec_outer_c">>] = IdsOf(param.x)
  BY <1>1, IdMessages
<1>5. Distinct(param.x)
  BY ParamFacts DEF SessionsInv
<1>6. QED
  BY <1>3, <1>4, <1>5, UnionTrue

-----------------------------------------------------------------------------
(***************************************************************************)
(* The messages of VOLE.                                                   *)
(***************************************************************************)
\* The calls of its parts.
LEMMA VoleCalls ==
  \E A, B, C, D :
    /\ Consists(BaseVoleA, A) /\ Consists(BaseVoleB, B) /\ Consists(ExtendVoleA, C) /\ Consists(ExtendVoleB, D)
    /\ \A c \in A \cup B : c.name[1] = "base"
    /\ \A c \in C \cup D : c.name[1] = "extend"
    /\ \A name \in BaseNames : Rcv(name) \in B
    /\ \A name \in ExtendNames : Rcv(name) \in C
    /\ \A c \in C : c.name = <<"extend", "vec_send_to_a">> => c.op = "recv"
<1> DEFINE np == {Snd("c"), Snd("vec_x"), Rcv("vec_pk0"), Snd("vec_y0"), Snd("vec_y1")}
           pn == {Rcv("c"), Rcv("vec_x"), Snd("vec_pk0"), Rcv("vec_y0"), Rcv("vec_y1")}
           s == (pn \cup {Rcv("matrix_p")}) \cup {Snd("vec_outer_c0"), Snd("vec_outer_c1")}
           r == (np \cup {Snd("matrix_p")}) \cup {Rcv("vec_outer_c0"), Rcv("vec_outer_c1")}
           Label(phase, X) == {[op |-> c.op, name |-> <<phase, c.name>>] : c \in X}
           a == s \cup {Snd("vec_gamma")}
           b == r \cup {Rcv("vec_gamma")}
           c == ({Rcv("vec_send_to_a")} \cup r) \cup {Rcv("ec_key")}
           d == ({Snd("vec_send_to_a")} \cup s) \cup {Snd("ec_key")}
<1>1. Consists(OtSender, s) /\ Consists(OtReceiver, r)
  <2>1. /\ Consists(<< Snd("vec_outer_c0"), Snd("vec_outer_c1") >>, {Snd("vec_outer_c0"), Snd("vec_outer_c1")})
        /\ Consists(<< Rcv("vec_outer_c0"), Rcv("vec_outer_c1") >>, {Rcv("vec_outer_c0"), Rcv("vec_outer_c1")})
    BY ConsistsOf
  <2>2. Consists(RandomSender, pn \cup {Rcv("matrix_p")}) /\ Consists(RandomReceiver, np \cup {Snd("matrix_p")})
    BY OtCallSets
  <2> HIDE DEF np, pn
  <2>3. QED
    BY <2>1, <2>2, ConsistsConcat DEF OtSender, OtReceiver
<1>2. \A x : Consists(<< Snd(x) >>, {Snd(x)}) /\ Consists(<< Rcv(x) >>, {Rcv(x)})
  BY ConsistsOf
<1>3. \A x : /\ IsCall(Snd(x)) /\ Snd(x).op = "send" /\ Snd(x).name = x
             /\ IsCall(Rcv(x)) /\ Rcv(x).op = "recv" /\ Rcv(x).name = x
  BY DEF IsCall, Snd, Rcv
<1>4. /\ \A x \in a : IsCall(x)
      /\ \A x \in b : IsCall(x)
      /\ \A x \in c : IsCall(x) /\ (x.name = "vec_send_to_a" => x.op = "recv")
      /\ \A x \in d : IsCall(x)
  BY <1>3
<1>5. Consists(OtSender \o << Snd("vec_gamma") >>, a) /\ Consists(OtReceiver \o << Rcv("vec_gamma") >>, b)
  <2> HIDE DEF s, r
  <2>1. QED
    BY <1>1, <1>2, ConsistsConcat
<1>6. /\ Consists(<< Rcv("vec_send_to_a") >> \o OtReceiver \o << Rcv("ec_key") >>, c)
      /\ Consists(<< Snd("vec_send_to_a") >> \o OtSender \o << Snd("ec_key") >>, d)
  <2> HIDE DEF s, r
  <2>1. /\ Consists(<< Rcv("vec_send_to_a") >> \o OtReceiver, {Rcv("vec_send_to_a")} \cup r)
        /\ Consists(<< Snd("vec_send_to_a") >> \o OtSender, {Snd("vec_send_to_a")} \cup s)
    BY <1>1, <1>2, ConsistsConcat
  <2>2. QED
    BY <1>2, <2>1, ConsistsConcat
<1>7. /\ Rcv("vec_outer_c0") \in b /\ Rcv("vec_outer_c1") \in b /\ Rcv("vec_gamma") \in b
      /\ Rcv("vec_outer_c0") \in c /\ Rcv("vec_outer_c1") \in c
      /\ Rcv("vec_send_to_a") \in c /\ Rcv("ec_key") \in c
  OBVIOUS
<1> HIDE DEF a, b, c, d, s, r, np, pn
<1>8. \A phase, X : \A y \in Label(phase, X) : y.name[1] = phase
  OBVIOUS
<1>9. \A phase, X, x : Rcv(x) \in X => Rcv(<<phase, x>>) \in Label(phase, X)
  <2>1. ASSUME NEW phase, NEW X, NEW x, Rcv(x) \in X
        PROVE  Rcv(<<phase, x>>) \in Label(phase, X)
    <3>1. [op |-> Rcv(x).op, name |-> <<phase, Rcv(x).name>>] \in Label(phase, X)
      BY <2>1
    <3>2. [op |-> Rcv(x).op, name |-> <<phase, Rcv(x).name>>] = [op |-> "recv", name |-> <<phase, x>>]
      BY <1>3
    <3>3. QED
      BY <3>1, <3>2 DEF Rcv
  <2>2. QED
    BY <2>1
<1>10. \A y \in Label("extend", c) : y.name = <<"extend", "vec_send_to_a">> => y.op = "recv"
  <2>1. TAKE y \in Label("extend", c)
  <2>2. PICK x \in c : y = [op |-> x.op, name |-> <<"extend", x.name>>]
    OBVIOUS
  <2>3. y.name = <<"extend", "vec_send_to_a">> => x.name = "vec_send_to_a"
    BY <2>2
  <2>4. QED
    BY <1>4, <2>2, <2>3
<1>11. /\ Consists(BaseVoleA, Label("base", a)) /\ Consists(BaseVoleB, Label("base", b))
       /\ Consists(ExtendVoleA, Label("extend", c)) /\ Consists(ExtendVoleB, Label("extend", d))
  BY <1>4, <1>5, <1>6, ConsistsIn DEF BaseVoleA, BaseVoleB, ExtendVoleA, ExtendVoleB
<1>12. /\ \A name \in BaseNames : Rcv(name) \in Label("base", b)
       /\ \A name \in ExtendNames : Rcv(name) \in Label("extend", c)
  <2> HIDE DEF Label
  <2>1. QED
    BY <1>7, <1>9 DEF BaseNames, ExtendNames
<1> HIDE DEF Label
<1>13. /\ \A x \in Label("base", a) \cup Label("base", b) : x.name[1] = "base"
       /\ \A x \in Label("extend", c) \cup Label("extend", d) : x.name[1] = "extend"
  BY <1>8
<1>14. QED
  BY <1>10, <1>11, <1>12, <1>13

\* No two messages have the same name.
LEMMA VoleNames ==
  /\ <<"base", "vec_outer_c0">>[1] = "base" /\ <<"base", "vec_outer_c1">>[1] = "base"
  /\ <<"base", "vec_gamma">>[1] = "base"
  /\ <<"extend", "vec_send_to_a">>[1] = "extend" /\ <<"extend", "vec_outer_c0">>[1] = "extend"
  /\ <<"extend", "vec_outer_c1">>[1] = "extend" /\ <<"extend", "ec_key">>[1] = "extend"
  /\ <<"extend", "vec_send_to_a">>[2] = "vec_send_to_a" /\ <<"extend", "vec_outer_c0">>[2] = "vec_outer_c0"
  /\ <<"extend", "vec_outer_c1">>[2] = "vec_outer_c1" /\ <<"extend", "ec_key">>[2] = "ec_key"
OBVIOUS

\* What the inputs make of the messages' data does not change with the state.
LEMMA VoleSaidKept ==
  ASSUME param' = param
  PROVE  \A name : VoleSaid(name)' = VoleSaid(name)
<1>1. /\ ItemNum' = ItemNum /\ Delta' = Delta /\ IsSmall' = IsSmall
      /\ BaseRows' = BaseRows
  BY DEF ItemNum, Delta, IsSmall, BaseRows, BaseLen
<1>2. (\A i : TreeLen(i)' = TreeLen(i)) /\ SubLen' = SubLen
  BY DEF TreeLen, SubLen, LastLen, ItemNum
<1>3. (\A i : Depth(i)' = Depth(i)) /\ (\A i : Offset(i)' = Offset(i))
  BY <1>2 DEF Depth, Offset
<1>4. SelectLen' = SelectLen
  BY <1>3 DEF SelectLen
<1>5. ExtendLen' = ExtendLen
  BY <1>4 DEF ExtendLen
<1>6. \A side : VecM(side)' = VecM(side)
  BY <1>3, <1>4, <1>5 DEF VecM
<1>7. TrueSend' = TrueSend
  <2>1. \A i : LeafSum(i)' = LeafSum(i)
    BY <1>3 DEF LeafSum
  <2>2. \A x : TimesDelta(x)' = TimesDelta(x)
    BY <1>1 DEF TimesDelta
  <2>3. QED
    BY <2>1, <2>2 DEF TrueSend
<1>8. Gamma' = Gamma
  BY <1>1 DEF Gamma
<1>9. ASSUME NEW name
      PROVE  VoleSaid(name)' = VoleSaid(name)
  <2>1. CASE name = <<"extend", "vec_send_to_a">>
    BY <1>7, <2>1 DEF VoleSaid
  <2>2. CASE name # <<"extend", "vec_send_to_a">>
    <3>1. VolePayload(name)' = VolePayload(name)
      BY <1>1, <1>5, <1>6, <1>8, <2>2 DEF VolePayload
    <3>2. QED
      BY <2>2, <3>1 DEF VoleSaid
  <2>3. QED
    BY <2>1, <2>2
<1>10. QED
  BY <1>9

\* The inputs of VOLE are in range.
LEMMA VoleInputs ==
  ASSUME ParamOK, param.protocol = "vole"
  PROVE  VoleOK /\ IsSmall \in BOOLEAN
<1>1. param \in VoleParams
  BY DEF ParamOK, PsiParams, VoleOprfParams, OteOprfParams, IdParams
<1>2. /\ ItemNum \in ItemNums /\ Delta \in Deltas /\ param.ecKey \in EcKeys
      /\ param.index \in [Trees -> 0..Max(ItemNums)]
  BY <1>1 DEF VoleParams, ItemNum, Delta, Trees
<1>3. Delta \in [1..BlockBits -> {0, 1}]
  BY <1>2, VoleAssumption
<1>4. \A i \in Trees : param.index[i] \in Nat
  <2>1. \A i \in Trees : param.index[i] \in 0..Max(ItemNums)
    BY <1>2
  <2>2. \A z : \A x \in 0..z : x \in Nat
    OBVIOUS
  <2>3. QED
    BY <2>1, <2>2
<1>5. ~IsSmall => \A i \in Trees : param.index[i] < TreeLen(i)
  BY <1>1 DEF VoleParams, IsSmall, ItemNum, Trees, TreeLen, LastLen, SubLen
<1>6. QED
  BY <1>2, <1>3, <1>4, <1>5 DEF VoleOK, IsSmall

\* Once B holds the messages of base VOLE it has its side of the correlation.
LEMMA BaseHeld ==
  ASSUME SessionsInv, param.protocol = "vole", BaseNames \subseteq DOMAIN inbox["R"]
  PROVE  \A j \in 1..BaseLen : V(j) = Add(W(j), TimesDelta(U(j)))
<1>1. VoleOK
  BY VoleInputs DEF SessionsInv
<1>2. BaseLen \in Nat
  BY <1>1, VoleAssumption DEF BaseLen, VoleOK
<1>3. ASSUME NEW name \in BaseNames
      PROVE  inbox["R"][name] = BaseSaid(name)
  <2>1. name \in DataNames /\ "R" \in Party
    BY DEF DataNames, Party
  <2>2. inbox["R"][name] = Said(name)
    BY <2>1, InboxSaid
  <2>3. Said(name) = VoleSaid(name)
    BY DEF Said
  <2>4. VoleSaid(name) = BaseSaid(name)
    <3>1. name # <<"extend", "vec_send_to_a">>
      BY VoleNames DEF BaseNames
    <3>2. QED
      BY <3>1 DEF VoleSaid, BaseSaid, VolePayload, BaseNames
  <2>5. QED
    BY <2>2, <2>3, <2>4
<1>4. QED
  BY <1>1, <1>2, <1>3, BaseRelation DEF VoleOK

\* B holds them when it starts the extension.
LEMMA BaseFirst ==
  ASSUME SessionsInv, param.protocol = "vole", ~IsSmall,
         NEW p \in Party, AtCall(p, "send"), NextName(p) = <<"extend", "vec_send_to_a">>
  PROVE  BaseNames \subseteq DOMAIN inbox["R"]
<1>1. PICK A, B, C, D :
    /\ Consists(BaseVoleA, A) /\ Consists(BaseVoleB, B) /\ Consists(ExtendVoleA, C) /\ Consists(ExtendVoleB, D)
    /\ \A c \in A \cup B : c.name[1] = "base"
    /\ \A name \in BaseNames : Rcv(name) \in B
    /\ \A c \in C : c.name = <<"extend", "vec_send_to_a">> => c.op = "recv"
  BY VoleCalls
<1>2. PICK name : name = <<"extend", "vec_send_to_a">> /\ name[1] # "base"
  BY VoleNames
<1>3. Program("S") = BaseVoleA \o ExtendVoleA /\ Program("R") = BaseVoleB \o ExtendVoleB
  BY DEF Program, PartyA, PartyB
<1>4. p = "R"
  <2>1. ASSUME p = "S"
        PROVE  FALSE
    <3>0. PICK s, t : s = BaseVoleA /\ t = ExtendVoleA
      OBVIOUS
    <3>1. Consists(Program(p), A \cup C)
      <4>1. Consists(s, A) /\ Consists(t, C) /\ Program(p) = s \o t
        BY <1>1, <1>3, <2>1, <3>0
      <4>2. Consists(s \o t, A \cup C)
        BY <4>1, ConsistsConcat
      <4>3. QED
        BY <4>1, <4>2
    <3>2. PICK c \in A \cup C : c.op = "send" /\ c.name = name
      BY <1>2, <3>1, CallOfProgram
    <3>3. QED
      BY <1>1, <1>2, <3>2
  <2>2. QED
    BY <2>1 DEF Party
<1>5. \A c \in B : ~(c.op = "send" /\ c.name = NextName(p))
  BY <1>1, <1>2
<1>6. PICK s, t : s = BaseVoleB /\ t = ExtendVoleB
  OBVIOUS
<1>7. Program(p) = s \o t /\ Consists(s, B) /\ Consists(t, D)
  BY <1>1, <1>3, <1>4, <1>6
<1>8. \A c \in B : c.op = "recv" => c.name \in DOMAIN inbox[p]
  BY <1>5, <1>7, HeldFirst
<1>9. QED
  BY <1>1, <1>4, <1>8 DEF Rcv

\* Hence B's sends carry what the inputs determine.
LEMMA VolePayloads ==
  ASSUME SessionsInv, param.protocol = "vole",
         NEW p \in Party, AtCall(p, "send"), NextName(p) \in DataNames
  PROVE  VolePayload(NextName(p)) = VoleSaid(NextName(p))
<1>1. CASE NextName(p) # <<"extend", "vec_send_to_a">>
  BY <1>1 DEF VoleSaid
<1>2. CASE NextName(p) = <<"extend", "vec_send_to_a">>
  <2>1. VoleOK /\ IsSmall \in BOOLEAN
    BY VoleInputs DEF SessionsInv
  <2>2. ~IsSmall
    <3>1. NextName(p) \notin BaseNames
      BY <1>2, VoleNames DEF BaseNames
    <3>2. QED
      BY <3>1 DEF DataNames
  <2>3. \A j \in 1..BaseLen : V(j) = Add(W(j), TimesDelta(U(j)))
    BY <1>2, <2>2, BaseFirst, BaseHeld
  <2>4. \A i \in Trees : V(i) = Add(W(i), TimesDelta(U(i)))
    BY <2>2, <2>3 DEF BaseLen, Trees
  <2>5. [i \in Trees |-> Add(LeafSum(i), V(i))] = TrueSend
    BY <2>4 DEF TrueSend
  <2>6. VolePayload(<<"extend", "vec_send_to_a">>) = [i \in Trees |-> Add(LeafSum(i), V(i))]
    <3>1. PICK name : name = <<"extend", "vec_send_to_a">>
      OBVIOUS
    <3>2. name # <<"base", "vec_outer_c0">> /\ name # <<"base", "vec_outer_c1">> /\ name # <<"base", "vec_gamma">>
      BY <3>1, VoleNames
    <3>3. VolePayload(name) = [i \in Trees |-> Add(LeafSum(i), V(i))]
      BY <3>1, <3>2 DEF VolePayload
    <3>4. QED
      BY <3>1, <3>3
  <2>7. QED
    BY <1>2, <2>5, <2>6 DEF VoleSaid
<1>3. QED
  BY <1>1, <1>2

\* Every send carries what the inputs determine.
LEMMA PayloadSaid ==
  ASSUME SessionsInv, NEW p \in Party, AtCall(p, "send"), NextName(p) \in DataNames
  PROVE  Payload(NextName(p)) = Said(NextName(p))
<1>1. "S" \in Party /\ "R" \in Party
  BY DEF Party
<1>2. PICK name : name = NextName(p)
  OBVIOUS
<1>3. CASE param.protocol = "vole"
  BY <1>3, VolePayloads DEF Payload, Said
<1>4. CASE param.protocol = "psi"
  <2>1. name \in {"vec_fk1_y", "vec_fk2_x", "vec_fk1k2_x"}
    BY <1>2, <1>4 DEF DataNames
  <2>2. Payload(name) = PsiPayload(name) /\ Said(name) = PsiSaid(name)
    BY <1>4 DEF Payload, Said
  <2>3. CASE name = "vec_fk1_y"
    BY <1>2, <2>2, <2>3 DEF PsiPayload, PsiSaid, SenderPoints
  <2>4. CASE name = "vec_fk2_x"
    BY <1>2, <2>2, <2>4 DEF PsiPayload, PsiSaid, ReceiverPoints
  <2>5. CASE name = "vec_fk1k2_x"
    <3>1. "vec_fk2_x" \in DOMAIN inbox["S"]
      BY <1>2, <1>4, <2>5, PsiSenderHolds
    <3>2. "vec_fk2_x" \in DataNames
      BY <1>4 DEF DataNames
    <3>3. Said("vec_fk2_x") = ReceiverPoints
      BY <1>4 DEF Said, PsiSaid
    <3>4. Held("S", "vec_fk2_x") = ReceiverPoints
      BY <1>1, <3>1, <3>2, <3>3, InboxSaid DEF Held
    <3>5. QED
      BY <1>2, <2>2, <2>5, <3>4 DEF PsiPayload, PsiSaid, ReturnedPoints
  <2>6. QED
    BY <1>2, <2>1, <2>2, <2>3, <2>4, <2>5
<1>5. CASE param.protocol = "vole_oprf"
  BY <1>5 DEF Payload, Said
<1>6. CASE param.protocol = "ote_oprf"
  BY <1>6 DEF Payload, Said
<1>7. CASE param.protocol = "private_id"
  <2>1. Payload(name) = IdPayload(name) /\ Said(name) = IdSaid(name)
    BY <1>7 DEF Payload, Said
  <2>2. CASE name \in OprfNames("first") \cup OprfNames("second")
    <3>1. name[1] \in {"first", "second"}
      BY <2>2, Tuples DEF OprfNames
    <3>2. QED
      BY <1>2, <2>1, <3>1 DEF IdPayload, IdSaid
  <2>3. /\ <<"psu", "vec_outer_c">>[1] = "psu" /\ <<"ids", "union_id">>[1] = "ids"
        /\ <<"psu", "vec_outer_c">> # <<"ids", "union_id">>
    OBVIOUS
  <2>4. CASE name = <<"psu", "vec_outer_c">>
    <3>1. OprfNames("first") \subseteq DOMAIN inbox["S"]
      BY <1>2, <1>7, <2>4, IdSenderHolds
    <3>2. OprfKey("S", "first") = TrueKey("first")
      BY <1>1, <1>7, <3>1, OprfKeyTrue
    <3>3. SenderId = IdsOf(param.x)
      BY <3>2, IdsTrue
    <3>4. IdPayload(name) = SenderId /\ IdSaid(name) = IdsOf(param.x)
      BY <2>3, <2>4 DEF IdPayload, IdSaid
    <3>5. QED
      BY <1>2, <2>1, <3>3, <3>4
  <2>5. CASE name = <<"ids", "union_id">>
    <3>1. UnionId = TrueUnionId
      BY <1>2, <1>7, <2>5, IdReceiverHolds, IdUnionTrue
    <3>2. name[1] \notin {"first", "second"} /\ name # <<"psu", "vec_outer_c">>
      BY <2>3, <2>5
    <3>3. IdPayload(name) = UnionId /\ IdSaid(name) = TrueUnionId
      BY <2>5, <3>2 DEF IdPayload, IdSaid
    <3>4. QED
      BY <1>2, <2>1, <3>1, <3>3
  <2>6. QED
    BY <1>2, <1>7, <2>2, <2>4, <2>5 DEF DataNames
<1>8. QED
  BY <1>3, <1>4, <1>5, <1>6, <1>7, ParamFacts DEF SessionsInv

\* Whatever is sent is what the inputs determine.
LEMMA NextIsHonest ==
  ASSUME SessionsInv, [Next]_vars
  PROVE  HonestStep(DataNames, Transcript)
<1>1. ASSUME NEW p \in Party, Step(p) \/ Returns(p) \/ Throws(p) \/ Breaks(p)
      PROVE  HonestStep(DataNames, Transcript)
  <2>1. CASE AtCall(p, "send") /\ Send(p, Payload(NextName(p)))
    <3>1. NextName(p) \in DataNames => Payload(NextName(p)) = Transcript[p][NextName(p)]
      BY <2>1, PayloadSaid DEF Transcript
    <3>2. QED
      BY <2>1, <3>1 DEF HonestStep
  <2>2. QED
    BY <1>1, <2>1 DEF Step, Returns, Throws, Breaks, HonestStep
<1>2. CASE UNCHANGED vars
  BY <1>2 DEF vars, HonestStep
<1>3. QED
  BY <1>1, <1>2 DEF Next, Progress, Finished

\* SessionsInv holds at the start, ...
LEMMA InitSessionsInv == Init => SessionsInv
<1> SUFFICES ASSUME Init PROVE SessionsInv
  OBVIOUS
<1>1. ParamOK
  BY DEF Init, ParamOK
<1>2. PICK C : Program("S") \in Seq(C) /\ Program("R") \in Seq(C)
  BY <1>1, ProgramCalls
<1>3. SessionOK /\ InStep
  BY <1>1, EveryMirror, MirrorStart DEF Init
<1>4. /\ InboxOK
      /\ SoFar("S", Program("S")) /\ SoFar("R", Program("R"))
      /\ Delivers(DataNames, Transcript)
  BY <1>2, StartSoFar DEF Init
<1>5. \A p \in Party : NoMoreThan(p, Program(p))
  <2>1. DOMAIN << >> = {} /\ \A p \in Party : inbox[p] = << >>
    BY DEF Init, Start
  <2>2. QED
    BY <2>1 DEF NoMoreThan
<1>6. QED
  BY <1>1, <1>3, <1>4, <1>5 DEF SessionsInv, Party

\* ... and every step keeps it.
LEMMA SessionsInvStep == SessionsInv /\ [Next]_vars => SessionsInv'
<1> SUFFICES ASSUME SessionsInv, [Next]_vars PROVE SessionsInv'
  OBVIOUS
<1>1. SessionStep /\ param' = param
  BY NextIsSessionStep
<1>2. SessionOK' /\ InStep' /\ InboxOK'
  BY <1>1, SessionShape, StepInStep, InboxShape DEF SessionsInv
<1>3. ParamOK'
  BY <1>1 DEF ParamOK, SessionsInv, VoleParams, PsiParams, VoleOprfParams, OteOprfParams, IdParams
<1>4. ASSUME NEW p \in Party
      PROVE  (SoFar(p, Program(p)) /\ NoMoreThan(p, Program(p)))'
  <2>1. PICK C : Program("S") \in Seq(C) /\ Program("R") \in Seq(C)
    BY ProgramCalls DEF SessionsInv
  <2>2. PICK program : program = Program(p)
    OBVIOUS
  <2>3. program \in Seq(C) /\ SoFar(p, program) /\ NoMoreThan(p, program)
    BY <2>1, <2>2 DEF SessionsInv, Party
  <2>4. SoFar(p, program)' /\ NoMoreThan(p, program)'
    BY <1>1, <2>3, SoFarStep, NoMoreStep DEF SessionsInv
  <2>5. Program(p)' = Program(p)
    BY <1>1 DEF Program, IsSmall, ItemNum, OprfSender, OprfReceiver, IdSender, IdReceiver
  <2>6. QED
    BY <2>2, <2>4, <2>5 DEF SoFar, NoMoreThan, Calls
<1>5. Delivers(DataNames, Transcript)'
  <2>1. PICK names, said : names = DataNames /\ said = Transcript
    OBVIOUS
  <2>2. HonestStep(names, said) /\ Delivers(names, said)
    BY <2>1, NextIsHonest DEF SessionsInv
  <2>3. Delivers(names, said)'
    BY <2>2, DeliversStep DEF SessionsInv
  <2>4. DataNames' = DataNames
    BY <1>1 DEF DataNames, IsSmall, ItemNum
  <2>5. Transcript' = Transcript
    <3>1. ASSUME NEW name
          PROVE  Said(name)' = Said(name)
      <4>1. CASE param.protocol = "vole"
        <5>1. Said(name) = VoleSaid(name) /\ Said(name)' = VoleSaid(name)'
          BY <1>1, <4>1 DEF Said
        <5>2. QED
          BY <1>1, <5>1, VoleSaidKept
      <4>2. CASE param.protocol = "psi"
        <5>1. Said(name) = PsiSaid(name) /\ Said(name)' = PsiSaid(name)'
          BY <1>1, <4>2 DEF Said
        <5>2. PsiSaid(name)' = PsiSaid(name)
          BY <1>1 DEF PsiSaid, SenderPoints, ReceiverPoints, ReturnedPoints,
               Comparable, Truncate, RaiseAll, HashAll, VecX, VecY
        <5>3. QED
          BY <5>1, <5>2
      <4>3. OprfPayload(name)' = OprfPayload(name)
        BY <1>1 DEF OprfPayload
      <4>4. CASE param.protocol = "vole_oprf"
        BY <1>1, <4>3, <4>4 DEF Said
      <4>5. CASE param.protocol = "ote_oprf"
        <5>1. Said(name) = OtePayload(name) /\ Said(name)' = OtePayload(name)'
          BY <1>1, <4>5 DEF Said
        <5>2. OtePayload(name)' = OtePayload(name)
          BY <1>1 DEF OtePayload, MatrixB, MatrixD
        <5>3. QED
          BY <5>1, <5>2
      <4>6. CASE param.protocol = "private_id"
        <5>1. Said(name) = IdSaid(name) /\ Said(name)' = IdSaid(name)'
          BY <1>1, <4>6 DEF Said
        <5>2. /\ IdsOf(param.x)' = IdsOf(param.x) /\ IdsOf(param.y)' = IdsOf(param.y)
              /\ NewRows' = NewRows
          BY <1>1 DEF IdsOf, NewRows
        <5>3. TrueUnionId' = TrueUnionId
          BY <1>1, <5>2 DEF TrueUnionId, TrueUnion
        <5>4. IdSaid(name)' = IdSaid(name)
          BY <1>1, <4>3, <5>2, <5>3 DEF IdSaid
        <5>5. QED
          BY <5>1, <5>4
      <4>7. QED
        BY <4>1, <4>2, <4>4, <4>5, <4>6, ParamFacts DEF SessionsInv
    <3>2. QED
      BY <2>4, <3>1 DEF Transcript
  <2>6. QED
    BY <2>1, <2>3, <2>4, <2>5
<1>6. QED
  BY <1>1, <1>2, <1>3, <1>4, <1>5 DEF SessionsInv

\* What a party returns from its inbox is what the inputs determine.
LEMMA OutputTrue ==
  ASSUME SessionsInv, NEW p \in Party, todo[p] = <<>>
  PROVE  Output(p) = TrueOutput(p)
<1>1. p = "S" \/ p = "R"
  BY DEF Party
<1>2. CASE param.protocol = "vole"
  BY <1>2 DEF Output, TrueOutput
<1>3. CASE param.protocol = "psi"
  <2>1. CASE p = "S"
    BY <1>3, <2>1 DEF Output, TrueOutput
  <2>2. CASE p = "R"
    <3>1. VecIntersection = TrueIntersection
      BY <1>3, <2>2, PsiDoneHolds, IntersectionTrue
    <3>2. QED
      BY <1>3, <2>2, <3>1 DEF Output, TrueOutput
  <2>3. QED
    BY <1>1, <2>1, <2>2
<1>4. CASE param.protocol = "vole_oprf"
  <2>1. CASE p = "S"
    <3>1. OprfKey("S", "oprf") = TrueKey("oprf")
      BY <1>4, <2>1, OprfDoneHolds, OprfKeyTrue
    <3>2. QED
      BY <1>4, <2>1, <3>1 DEF Output, TrueOutput
  <2>2. CASE p = "R"
    BY <1>4, <2>2 DEF Output, TrueOutput
  <2>3. QED
    BY <1>1, <2>1, <2>2
<1>5. CASE param.protocol = "ote_oprf"
  <2>1. CASE p = "S"
    <3>1. OteKey = TrueOteKey
      BY <1>5, <2>1, OteDoneHolds, OteKeyTrue
    <3>2. QED
      BY <1>5, <2>1, <3>1 DEF Output, TrueOutput
  <2>2. CASE p = "R"
    BY <1>5, <2>2 DEF Output, TrueOutput
  <2>3. QED
    BY <1>1, <2>1, <2>2
<1>6. CASE param.protocol = "private_id"
  <2>1. CASE p = "S"
    <3>1. OprfNames("first") \cup {<<"ids", "union_id">>} \subseteq DOMAIN inbox["S"]
      BY <1>6, <2>1, IdDoneHolds
    <3>2. SenderId = IdsOf(param.x)
      BY <1>6, <2>1, <3>1, OprfKeyTrue, IdsTrue
    <3>3. Held("S", <<"ids", "union_id">>) = TrueUnionId
      <4>1. <<"ids", "union_id">> # <<"psu", "vec_outer_c">>
        OBVIOUS
      <4>2. PICK name : name = <<"ids", "union_id">>
        OBVIOUS
      <4>3. inbox["S"][name] = TrueUnionId
        BY <1>6, <2>1, <3>1, <4>1, <4>2, IdMessages
      <4>4. QED
        BY <4>2, <4>3 DEF Held
    <3>4. QED
      BY <1>6, <2>1, <3>2, <3>3 DEF Output, TrueOutput, SenderOutput
  <2>2. CASE p = "R"
    <3>1. ReceiverId = IdsOf(param.y) /\ UnionId = TrueUnionId
      BY <1>6, <2>2, IdDoneHolds, IdUnionTrue
    <3>2. QED
      BY <1>6, <2>2, <3>1 DEF Output, TrueOutput, ReceiverOutput
  <2>3. QED
    BY <1>1, <2>1, <2>2
<1>7. QED
  BY <1>2, <1>3, <1>4, <1>5, <1>6, ParamFacts DEF SessionsInv

\* Results depend on the inputs alone.
LEMMA OutputsKept ==
  ASSUME param' = param
  PROVE  \A p \in Party : TrueOutput(p)' = TrueOutput(p)
BY DEF TrueOutput, TrueIntersection, MatchingRows, SenderSet, SenderPoints, ReceiverPoints,
       ReturnedPoints, Comparable, Truncate, RaiseAll, HashAll, VecX, VecY, OprfValues, TrueOteKey,
       MatrixB, MatrixD, OteValues, IdsOf, TrueUnionId, TrueUnion, NewRows

\* Every result is what the inputs determine: a step keeps that, ...
LEMMA ResultsStep == SessionsInv /\ ResultsTrue /\ [Next]_vars => ResultsTrue'
<1> SUFFICES ASSUME SessionsInv, ResultsTrue, [Next]_vars PROVE ResultsTrue'
  OBVIOUS
<1>1. param' = param
  BY NextIsSessionStep
<1>2. \A p \in Party : TrueOutput(p)' = TrueOutput(p)
  BY <1>1, OutputsKept
<1>3. status = [p \in Party |-> status[p]]
  BY DEF SessionsInv, SessionOK
<1> DEFINE Is(p) == IF status[p] = "returned" THEN <<TrueOutput(p)>> ELSE << >>
<1>4. result = [p \in Party |-> Is(p)]
  BY DEF ResultsTrue
<1>5. ASSUME result' = [p \in Party |-> IF status'[p] = "returned" THEN <<TrueOutput(p)>> ELSE << >>]
      PROVE  ResultsTrue'
  BY <1>2, <1>5 DEF ResultsTrue
<1>6. ASSUME \A p \in Party : status'[p] = "returned" <=> status[p] = "returned", result' = result
      PROVE  ResultsTrue'
  BY <1>4, <1>5, <1>6
<1>7. CASE \E p \in Party : Step(p)
  <2>1. PICK p \in Party : Step(p)
    BY <1>7
  <2>2. status' = status
    <3>1. CASE Recv(p)
      BY <3>1, ReaderIsBehind DEF Recv, SessionsInv
    <3>2. QED
      BY <2>1, <3>1 DEF Step, Send
  <2>3. QED
    BY <1>6, <2>1, <2>2 DEF Step
<1>8. CASE \E p \in Party : Throws(p) \/ Breaks(p)
  <2>1. PICK p \in Party : Throws(p) \/ Breaks(p)
    BY <1>8
  <2>2. \A q \in Party : status'[q] = "returned" <=> status[q] = "returned"
    BY <1>3, <2>1 DEF Throws, Breaks, PeerClosed, NetworkBreaks
  <2>3. QED
    BY <1>6, <2>1, <2>2 DEF Throws, Breaks
<1>9. CASE \E p \in Party : Returns(p)
  <2>1. PICK p \in Party : Returns(p)
    BY <1>9
  <2>2. \A q \in Party : status'[q] = IF q = p THEN "returned" ELSE status[q]
    BY <1>3, <2>1 DEF Returns, Return
  <2>3. Output(p) = TrueOutput(p)
    BY <2>1, OutputTrue DEF Returns, Return
  <2>4. result' = [result EXCEPT ![p] = <<TrueOutput(p)>>]
    BY <2>1, <2>3 DEF Returns
  <2>5. QED
    BY <1>4, <1>5, <2>2, <2>4
<1>10. CASE UNCHANGED vars
  BY <1>6, <1>10 DEF vars, session
<1>11. QED
  BY <1>7, <1>8, <1>9, <1>10 DEF Next, Progress, Finished

\* ... it holds at the start, ...
LEMMA InitResults == Init => ResultsTrue
BY DEF Init, Start, ResultsTrue, Party

\* ... and hence always: the inductive invariant of the sessions.
THEOREM SessionsInvariant == Spec => [](SessionsInv /\ ResultsTrue)
BY InitSessionsInv, SessionsInvStep, InitResults, ResultsStep, PTL DEF Spec
-----------------------------------------------------------------------------
\* A point as the PSI compares it.
Prefix(e) == IF param.mode = "Truncate" THEN param.prefix[e] ELSE e

\* The points that the parties exchange: an item under the keys applied to it.
LEMMA PsiPoints ==
  ASSUME param.mode \in {"Truncate", "PlainSet"}
  PROVE  /\ SenderPoints = [i \in DOMAIN VecY |-> [item |-> VecY[i], keys |-> {"k1"}]]
         /\ ReceiverPoints = [i \in DOMAIN VecX |-> [item |-> VecX[i], keys |-> {"k2"}]]
         /\ ReturnedPoints = [i \in DOMAIN VecX |-> [item |-> Prefix(VecX[i]), keys |-> {"k1", "k2"}]]
         /\ SenderSet = {[item |-> Prefix(VecY[i]), keys |-> {"k1", "k2"}] : i \in DOMAIN VecY}
<1>1. ASSUME NEW e, NEW under, NEW k
      PROVE  Raise([item |-> e, keys |-> under], k) = [item |-> e, keys |-> under \cup {k}]
  BY DEF Raise
<1>2. \A e, k : Raise(Hash(e), k) = [item |-> e, keys |-> {k}]
  <2>1. TAKE e, k
  <2>2. {} \cup {k} = {k}
    OBVIOUS
  <2>3. QED
    BY <1>1, <2>2 DEF Hash
<1>3. SenderPoints = [i \in DOMAIN VecY |-> [item |-> VecY[i], keys |-> {"k1"}]]
  BY <1>2 DEF SenderPoints, RaiseAll, HashAll
<1>4. ReceiverPoints = [i \in DOMAIN VecX |-> [item |-> VecX[i], keys |-> {"k2"}]]
  BY <1>2 DEF ReceiverPoints, RaiseAll, HashAll
<1>5. {"k2"} \cup {"k1"} = {"k1", "k2"} /\ {"k1"} \cup {"k2"} = {"k1", "k2"}
  OBVIOUS
<1>6. RaiseAll(ReceiverPoints, "k1") = [i \in DOMAIN VecX |-> [item |-> VecX[i], keys |-> {"k1", "k2"}]]
  <2>1. \A i \in DOMAIN VecX : Raise(ReceiverPoints[i], "k1") = [item |-> VecX[i], keys |-> {"k1", "k2"}]
    BY <1>1, <1>4, <1>5
  <2>2. DOMAIN ReceiverPoints = DOMAIN VecX
    BY <1>4
  <2>3. QED
    BY <2>1, <2>2 DEF RaiseAll
<1>7. RaiseAll(SenderPoints, "k2") = [i \in DOMAIN VecY |-> [item |-> VecY[i], keys |-> {"k1", "k2"}]]
  <2>1. \A i \in DOMAIN VecY : Raise(SenderPoints[i], "k2") = [item |-> VecY[i], keys |-> {"k1", "k2"}]
    BY <1>1, <1>3, <1>5
  <2>2. DOMAIN SenderPoints = DOMAIN VecY
    BY <1>3
  <2>3. QED
    BY <2>1, <2>2 DEF RaiseAll
<1>8. ASSUME NEW v, NEW points, points = [i \in DOMAIN v |-> [item |-> v[i], keys |-> {"k1", "k2"}]]
      PROVE  Comparable(points) = [i \in DOMAIN v |-> [item |-> Prefix(v[i]), keys |-> {"k1", "k2"}]]
  <2>1. CASE param.mode = "Truncate"
    <3>1. \A e, under : Truncate([item |-> e, keys |-> under]) = [item |-> Prefix(e), keys |-> under]
      BY <2>1 DEF Truncate, Prefix
    <3>2. QED
      BY <1>8, <2>1, <3>1 DEF Comparable
  <2>2. CASE param.mode # "Truncate"
    BY <1>8, <2>2 DEF Comparable, Prefix
  <2>3. QED
    BY <2>1, <2>2
<1>9. ReturnedPoints = [i \in DOMAIN VecX |-> [item |-> Prefix(VecX[i]), keys |-> {"k1", "k2"}]]
  BY <1>6, <1>8 DEF ReturnedPoints
<1>10. SenderSet = {[item |-> Prefix(VecY[i]), keys |-> {"k1", "k2"}] : i \in DOMAIN VecY}
  <2>1. Comparable(RaiseAll(SenderPoints, "k2")) =
          [i \in DOMAIN VecY |-> [item |-> Prefix(VecY[i]), keys |-> {"k1", "k2"}]]
    BY <1>7, <1>8
  <2>2. QED
    BY <2>1 DEF SenderSet, ToSet
<1>11. QED
  BY <1>3, <1>4, <1>9, <1>10

\* A point is sent only under the key of the party that sends it, whatever the
\* items and in both modes (cwprf_psi.cpp): neither the peer nor the network
\* sees the bare point of an item.
THEOREM PsiOwnKey == Spec => []OwnKeyOnWire
<1>1. SessionsInv => OwnKeyOnWire
  <2> SUFFICES ASSUME SessionsInv, param.protocol = "psi",
                      NEW p \in Party, NEW m \in ToSet(wire[p]), NEW point \in ToSet(m.data)
               PROVE  (IF p = "S" THEN "k1" ELSE "k2") \in point.keys
    BY DEF OwnKeyOnWire
  <2>1. PICK Messages : wire \in [Party -> Seq(Messages)]
    BY DEF SessionsInv, SessionOK
  <2>2. PICK k \in 1..Len(wire[p]) : m = wire[p][k]
    BY <2>1 DEF ToSet
  <2>3. PICK C : Program("S") \in Seq(C) /\ Program("R") \in Seq(C)
    BY ProgramCalls DEF SessionsInv
  <2>4. PICK program \in Seq(C) : program = Program(Peer(p)) /\ SoFar(Peer(p), program)
    BY <2>3, PeerFacts DEF SessionsInv, Party
  <2>5. \E c \in Calls(program) : c.op = "recv" /\ c.name = m.name
    BY <2>2, <2>4, OnWire DEF SessionsInv
  <2>6. m.name \in DataNames => m.data = Said(m.name)
    BY <2>2 DEF SessionsInv, Delivers, Transcript
  <2>7. DataNames = {"vec_fk1_y", "vec_fk2_x", "vec_fk1k2_x"}
    BY DEF DataNames
  <2>8. param.mode \in {"Truncate", "PlainSet"}
    BY ParamFacts DEF SessionsInv
  <2>9. CASE p = "S"
    <3>1. program = PsiReceiver
      BY <2>4, <2>9 DEF Program, Peer
    <3>2. Calls(program) = {Rcv("vec_fk1_y"), Snd("vec_fk2_x"), Rcv("vec_fk1k2_x")}
      <4>1. PICK a, b, c : a = Rcv("vec_fk1_y") /\ b = Snd("vec_fk2_x") /\ c = Rcv("vec_fk1k2_x")
        OBVIOUS
      <4>2. Calls(<< a, b, c >>) = {a, b, c}
        BY CallsThree
      <4>3. QED
        BY <3>1, <4>1, <4>2 DEF PsiReceiver
    <3>3. m.name = "vec_fk1_y" \/ m.name = "vec_fk1k2_x"
      BY <2>5, <3>2 DEF Snd, Rcv
    <3>4. CASE m.name = "vec_fk1_y"
      <4>1. m.data = SenderPoints
        BY <2>6, <2>7, <3>4 DEF Said, PsiSaid
      <4>2. QED
        BY <2>8, <2>9, <4>1, PsiPoints DEF ToSet
    <3>5. CASE m.name = "vec_fk1k2_x"
      <4>1. m.data = ReturnedPoints
        BY <2>6, <2>7, <3>5 DEF Said, PsiSaid
      <4>2. QED
        BY <2>8, <2>9, <4>1, PsiPoints DEF ToSet
    <3>6. QED
      BY <3>3, <3>4, <3>5
  <2>10. CASE p = "R"
    <3>1. program = PsiSender
      BY <2>4, <2>10 DEF Program, Peer
    <3>2. Calls(program) = {Snd("vec_fk1_y"), Rcv("vec_fk2_x"), Snd("vec_fk1k2_x")}
      <4>1. PICK a, b, c : a = Snd("vec_fk1_y") /\ b = Rcv("vec_fk2_x") /\ c = Snd("vec_fk1k2_x")
        OBVIOUS
      <4>2. Calls(<< a, b, c >>) = {a, b, c}
        BY CallsThree
      <4>3. QED
        BY <3>1, <4>1, <4>2 DEF PsiSender
    <3>3. m.name = "vec_fk2_x"
      BY <2>5, <3>2 DEF Snd, Rcv
    <3>4. m.data = ReceiverPoints
      BY <2>6, <2>7, <3>3 DEF Said, PsiSaid
    <3>5. QED
      BY <2>8, <2>10, <3>4, PsiPoints DEF ToSet
  <2>11. QED
    BY <2>9, <2>10 DEF Party
<1>2. QED
  BY <1>1, SessionsInvariant, PTL

\* The PSI's result is the receiver's own items, in its order, that match, for
\* all inputs and whatever the truncated points have in common.
THEOREM PsiAttribution == Spec => []Attribution
<1>1. SessionsInv /\ ResultsTrue => Attribution
  <2> DEFINE mine == {i \in DOMAIN VecX :
                        \/ VecX[i] \in ToSet(VecY)
                        \/ /\ param.mode = "Truncate"
                           /\ \E e \in ToSet(VecY) : param.prefix[e] = param.prefix[VecX[i]]}
             Listed(s, f) == /\ f \in [DOMAIN s -> mine]
                             /\ \A k \in DOMAIN s : s[k] = VecX[f[k]]
                             /\ \A j, k \in DOMAIN s : j < k => f[j] < f[k]
                             /\ \A i \in mine : \E k \in DOMAIN s : f[k] = i
  <2> SUFFICES ASSUME SessionsInv, ResultsTrue, param.protocol = "psi", status["R"] = "returned"
               PROVE  \E f : Listed(result["R"][1], f)
    BY DEF Attribution
  <2>1. result["R"][1] = TrueIntersection
    <3>1. result["R"] = <<TrueOutput("R")>>
      BY DEF ResultsTrue, Party
    <3>2. TrueOutput("R") = TrueIntersection
      BY DEF TrueOutput
    <3>3. QED
      BY <3>1, <3>2
  <2>2. param.mode \in {"Truncate", "PlainSet"} /\ Distinct(VecX) /\ Distinct(VecY)
    BY ParamFacts DEF SessionsInv, VecX, VecY
  <2>3. \A i \in DOMAIN VecX : i \in MatchingRows <=> i \in mine
    <3>1. TAKE i \in DOMAIN VecX
    <3>2. i \in MatchingRows <=> \E j \in DOMAIN VecY : Prefix(VecX[i]) = Prefix(VecY[j])
      <4>1. i \in MatchingRows <=> ReturnedPoints[i] \in SenderSet
        BY <3>1 DEF MatchingRows
      <4> DEFINE P(e) == [item |-> e, keys |-> {"k1", "k2"}]
      <4>2. ReturnedPoints[i] = P(Prefix(VecX[i]))
        BY <2>2, <3>1, PsiPoints
      <4>3. SenderSet = {P(Prefix(VecY[j])) : j \in DOMAIN VecY}
        BY <2>2, PsiPoints
      <4>4. \A e, d : P(e) = P(d) => e = d
        OBVIOUS
      <4> HIDE DEF P
      <4>5. QED
        BY <4>1, <4>2, <4>3, <4>4
    <3>3. ToSet(VecY) = {VecY[j] : j \in DOMAIN VecY}
      BY DEF ToSet
    <3>4. (\E j \in DOMAIN VecY : Prefix(VecX[i]) = Prefix(VecY[j])) <=>
             \/ VecX[i] \in ToSet(VecY)
             \/ /\ param.mode = "Truncate"
                /\ \E e \in ToSet(VecY) : param.prefix[e] = param.prefix[VecX[i]]
      BY <3>3 DEF Prefix
    <3>5. QED
      BY <3>1, <3>2, <3>4
  <2>4. MatchingRows = mine
    BY <2>3 DEF MatchingRows
  <2>5. PICK n \in Nat : DOMAIN VecX = 1..n
    BY <2>2 DEF Distinct
  <2>6. mine \in SUBSET (1..n)
    BY <2>5
  <2> HIDE DEF mine
  <2>7. PICK l \in Nat :
          /\ Ascending(mine) \in [1..l -> mine]
          /\ \A i, j \in 1..l : i < j => Ascending(mine)[i] < Ascending(mine)[j]
          /\ \A x \in mine : \E i \in 1..l : Ascending(mine)[i] = x
    BY <2>6, AscendingProperties
  <2>8. PICK a : a = Ascending(mine)
    OBVIOUS
  <2>9. TrueIntersection = [k \in 1..l |-> VecX[a[k]]]
    BY <2>4, <2>7, <2>8 DEF TrueIntersection
  <2>10. Listed(TrueIntersection, a)
    BY <2>7, <2>8, <2>9
  <2>11. QED
    BY <2>1, <2>10
<1>2. QED
  BY <1>1, SessionsInvariant, PTL
-----------------------------------------------------------------------------
\* What the parties of a session returned.
LEMMA ResultIs ==
  ASSUME ResultsTrue, NEW p \in Party, status[p] = "returned"
  PROVE  result[p][1] = TrueOutput(p)
<1>1. result[p] = <<TrueOutput(p)>>
  BY DEF ResultsTrue
<1>2. QED
  BY <1>1

\* evaluate() looks an item up where the receiver mapped it to: the bucket of a
\* column and its place in it are computed alike.
LEMMA SameLocation ==
  ASSUME NEW c \in Columns, NEW item
  PROVE  EvaluatedLocation(item, c) = Location(item, c)
<1>1. PICK split : split = (c - 1) \div SplitBucketSize
  OBVIOUS
<1>2. split \in Int /\ SplitBucketSize \in Nat /\ c \in Int
  BY <1>1, OteAssumption DEF Columns
<1>3. BucketOf(c) = split + 1 /\ (split + 1) + 1 = split + 2 /\ (split + 1) - 1 = split
  BY <1>1, <1>2 DEF BucketOf
<1>4. LeftIndex(BucketOf(c)) = split * SplitBucketSize
  BY <1>3 DEF LeftIndex
<1>5. Location(item, c) = Place(item, [salt \in 1..split + 2 |-> salt - 1], c - split * SplitBucketSize)
  BY <1>3, <1>4 DEF Location
<1>6. QED
  BY <1>1, <1>5 DEF EvaluatedLocation

\* Where an item of the receiver falls, the sender's matrix holds the
\* receiver's bits, whatever the sender chose.
LEMMA OteMatrix ==
  ASSUME param.protocol = "ote_oprf", ParamOK, NEW c \in Columns, NEW i \in DOMAIN param.x
  PROVE  TrueOteKey[c][Location(param.x[i], c)] = ColumnPrg(ColumnKey(0, c))[Location(param.x[i], c)]
<1>1. param.x[i] \in Items /\ param.selection \in [Columns -> {0, 1}]
  <2>1. param.x \in Seq(Items) /\ param.selection \in [Columns -> {0, 1}]
    BY ParamFacts DEF Distinct
  <2>2. QED
    BY <2>1
<1>2. PICK p \in Positions : p = Location(param.x[i], c)
  BY <1>1, PlaceAssumption
<1>3. MatrixD(c)[p] = {}
  BY <1>2 DEF MatrixD
<1>4. PICK p0, p1 : p0 = ColumnPrg(ColumnKey(0, c))[p] /\ p1 = ColumnPrg(ColumnKey(1, c))[p]
  OBVIOUS
<1>5. MatrixB(c)[p] = SymDiff(p1, p0)
  BY <1>3, <1>4, SymDiffFacts DEF MatrixB
<1>6. TrueOteKey[c][p] = SymDiff(ColumnPrg(ColumnKey(param.selection[c], c))[p],
                                 IF param.selection[c] = 1 THEN MatrixB(c)[p] ELSE {})
  BY DEF TrueOteKey
<1>7. CASE param.selection[c] = 1
  BY <1>2, <1>4, <1>5, <1>6, <1>7, SymDiffFacts
<1>8. CASE param.selection[c] = 0
  BY <1>2, <1>4, <1>6, <1>8, SymDiffFacts
<1>9. QED
  BY <1>1, <1>7, <1>8

\* Whatever the items, the sizes and the sender's choices, the key that the
\* sender put together evaluates to what the receiver got, and the VOLE OPRF
\* tells different items apart (vole_oprf.cpp and ote_oprf.cpp).
THEOREM OprfsAgree == Spec => []OprfAgrees
<1>1. SessionsInv /\ ResultsTrue => OprfAgrees
  <2> SUFFICES ASSUME SessionsInv, ResultsTrue PROVE OprfAgrees
    OBVIOUS
  <2>1. ASSUME BothReturned("vole_oprf")
        PROVE  /\ result["R"][1] = Evaluate(result["S"][1], param.x)
               /\ \A i, j \in DOMAIN param.x : i # j => result["R"][1][i] # result["R"][1][j]
    <3>1. result["R"][1] = OprfValues("oprf", param.x) /\ result["S"][1] = TrueKey("oprf")
      BY <2>1, ResultIs DEF BothReturned, TrueOutput, Party
    <3>2. Evaluate(TrueKey("oprf"), param.x) = OprfValues("oprf", param.x)
      BY DEF Evaluate, TrueKey, OprfValues
    <3>3. ASSUME NEW i \in DOMAIN param.x, NEW j \in DOMAIN param.x,
                 OprfValues("oprf", param.x)[i] = OprfValues("oprf", param.x)[j]
          PROVE  i = j
      <4>1. Distinct(param.x)
        BY <2>1, ParamFacts DEF BothReturned, SessionsInv
      <4>2. PICK t \in VecC("oprf") : TRUE
        BY DEF VecC
      <4>3. \A e : Decode(OkvsSeed("oprf"), e, VecC("oprf")) =
                     {[seed |-> OkvsSeed("oprf"), item |-> e, term |-> u] : u \in VecC("oprf")}
        BY DEF Decode
      <4>4. Decode(OkvsSeed("oprf"), param.x[i], VecC("oprf")) = Decode(OkvsSeed("oprf"), param.x[j], VecC("oprf"))
        BY <3>3 DEF OprfValues
      <4>5. param.x[i] = param.x[j]
        <5> DEFINE r == [seed |-> OkvsSeed("oprf"), item |-> param.x[i], term |-> t]
        <5>1. r \in Decode(OkvsSeed("oprf"), param.x[i], VecC("oprf"))
          BY <4>2, <4>3
        <5>2. r \in Decode(OkvsSeed("oprf"), param.x[j], VecC("oprf"))
          BY <4>4, <5>1
        <5>3. PICK u \in VecC("oprf") : r = [seed |-> OkvsSeed("oprf"), item |-> param.x[j], term |-> u]
          BY <4>3, <5>2
        <5>4. r.item = param.x[j]
          BY <5>3
        <5>5. QED
          BY <5>4
      <4>6. QED
        BY <4>1, <4>5 DEF Distinct, IsInjective
    <3>4. QED
      BY <3>1, <3>2, <3>3
  <2>2. ASSUME BothReturned("ote_oprf")
        PROVE  result["R"][1] = OteEvaluate(result["S"][1], param.x)
    <3>1. param.protocol = "ote_oprf" /\ ParamOK
      BY <2>2 DEF BothReturned, SessionsInv
    <3>2. result["R"][1] = OteValues /\ result["S"][1] = TrueOteKey
      BY <2>2, <3>1, ResultIs DEF BothReturned, TrueOutput, Party
    <3>3. \A i \in DOMAIN param.x, c \in Columns :
            TrueOteKey[c][Location(param.x[i], c)] = ColumnPrg(ColumnKey(0, c))[Location(param.x[i], c)]
      BY <3>1, OteMatrix
    <3>4. OteValues = OteEvaluate(TrueOteKey, param.x)
      BY <3>3, SameLocation DEF OteValues, OteEvaluate
    <3>5. QED
      BY <3>2, <3>4
  <2>3. QED
    BY <2>1, <2>2 DEF OprfAgrees
<1>2. QED
  BY <1>1, SessionsInvariant, PTL
-----------------------------------------------------------------------------
\* Different items have different IDs.
LEMMA IdOfInjective ==
  ASSUME NEW e, NEW d, IdOf(e) = IdOf(d)
  PROVE  e = d
<1> DEFINE t == [seed |-> OkvsSeed("first"), item |-> e, term |-> Term("c", "first")]
<1>1. "first" # "second" /\ OkvsSeed("first") # OkvsSeed("second")
  BY DEF OkvsSeed
<1>2. t \in Decode(OkvsSeed("first"), e, VecC("first"))
  BY DEF Decode, VecC
<1>3. \A b, v : \A u \in Decode(OkvsSeed("second"), b, v) : u.seed = OkvsSeed("second")
  BY DEF Decode
<1>4. t.seed = OkvsSeed("first") /\ t.item = e
  OBVIOUS
<1>5. t \in IdOf(e)
  BY <1>1, <1>2, <1>3, <1>4 DEF IdOf, SymDiff
<1>6. t \in Decode(OkvsSeed("first"), d, VecC("first"))
  BY <1>1, <1>3, <1>4, <1>5 DEF IdOf, SymDiff
<1>7. t.item = d
  BY <1>6 DEF Decode
<1>8. QED
  BY <1>4, <1>7

\* The list of a party's IDs.
LEMMA IdList ==
  ASSUME NEW s, Distinct(s)
  PROVE  /\ \E A : \A B : A \subseteq B => IdsOf(s) \in Seq(B)
         /\ DOMAIN IdsOf(s) = DOMAIN s /\ \A i \in DOMAIN s : IdsOf(s)[i] = IdOf(s[i])
         /\ ToSet(IdsOf(s)) = {IdOf(e) : e \in ToSet(s)}
         /\ IsInjective(IdsOf(s))
<1>1. PICK n \in Nat : n = Len(s) /\ DOMAIN s = 1..n
  <2>1. Len(s) \in Nat /\ DOMAIN s = 1..Len(s)
    BY DEF Distinct
  <2>2. QED
    BY <2>1
<1>2. IdsOf(s) = [i \in 1..n |-> IdOf(s[i])]
  BY <1>1 DEF IdsOf
<1>3. \E A : \A B : A \subseteq B => IdsOf(s) \in Seq(B)
  <2> DEFINE A == {IdOf(s[i]) : i \in 1..n}
  <2>1. ASSUME NEW B, A \subseteq B
        PROVE  IdsOf(s) \in Seq(B)
    <3>1. IdsOf(s) \in [1..n -> B]
      BY <1>2, <2>1
    <3>2. QED
      BY <3>1
  <2> HIDE DEF A
  <2>2. QED
    BY <2>1
<1>4. ToSet(IdsOf(s)) = {IdOf(e) : e \in ToSet(s)}
  BY <1>1, <1>2 DEF ToSet
<1>5. IsInjective(IdsOf(s))
  BY <1>1, <1>2, IdOfInjective DEF IsInjective, Distinct
<1>6. QED
  BY <1>1, <1>2, <1>3, <1>4, <1>5

\* The union holds the IDs of both parties, each once, but for the strays'.
LEMMA UnionHolds ==
  ASSUME Distinct(param.x), Distinct(param.y), param.stray \subseteq ToSet(param.x) \ ToSet(param.y)
  PROVE  /\ \E A : TrueUnion \in Seq(A)
         /\ IsInjective(TrueUnion)
         /\ ToSet(TrueUnion) = {IdOf(e) : e \in (ToSet(param.x) \cup ToSet(param.y)) \ param.stray}
<1>1. PICK n \in Nat : DOMAIN param.x = 1..n
  BY DEF Distinct
<1>2. NewRows \in SUBSET (1..n)
  BY <1>1 DEF NewRows
<1>3. PICK m \in Nat :
        /\ Ascending(NewRows) \in [1..m -> NewRows]
        /\ \A i, j \in 1..m : i < j => Ascending(NewRows)[i] < Ascending(NewRows)[j]
        /\ \A x \in NewRows : \E i \in 1..m : Ascending(NewRows)[i] = x
  BY <1>2, AscendingProperties
<1>4. PICK a \in [1..m -> NewRows] :
        /\ a = Ascending(NewRows)
        /\ \A i, j \in 1..m : i < j => a[i] < a[j]
        /\ \A x \in NewRows : \E i \in 1..m : a[i] = x
  BY <1>3
<1> DEFINE new == [k \in 1..m |-> IdOf(param.x[a[k]])]
           own == IdsOf(param.y)
<1>5. TrueUnion = own \o new
  BY <1>4 DEF TrueUnion
<1>6. \A k \in 1..m : a[k] \in 1..n /\ a[k] \in NewRows
  BY <1>2, <1>4
<1>7. IsInjective(new)
  <2> SUFFICES ASSUME NEW i \in 1..m, NEW j \in 1..m, new[i] = new[j]
               PROVE  i = j
    BY DEF IsInjective
  <2>1. param.x[a[i]] = param.x[a[j]]
    BY IdOfInjective
  <2>2. a[i] = a[j]
    BY <1>1, <1>6, <2>1 DEF Distinct, IsInjective
  <2>3. a[i] \in Int /\ ~(i < j) /\ ~(j < i)
    <3>1. a[i] \in Int /\ a[j] \in Int
      BY <1>6
    <3>2. QED
      BY <1>4, <2>2, <3>1
  <2>4. QED
    BY <2>3
<1>8. ToSet(own) = {IdOf(e) : e \in ToSet(param.y)}
  BY IdList
<1>9. \A i \in 1..n : i \in NewRows <=> param.x[i] \notin ToSet(param.y) /\ param.x[i] \notin param.stray
  <2>1. TAKE i \in 1..n
  <2>2. IdOf(param.x[i]) \in ToSet(own) <=> param.x[i] \in ToSet(param.y)
    BY <1>8, IdOfInjective
  <2>3. QED
    BY <1>1, <2>2 DEF NewRows
<1>10. ToSet(new) = {IdOf(e) : e \in (ToSet(param.x) \ ToSet(param.y)) \ param.stray}
  <2> DEFINE fresh == (ToSet(param.x) \ ToSet(param.y)) \ param.stray
  <2>1. \A k \in 1..m : param.x[a[k]] \in fresh
    BY <1>1, <1>6, <1>9 DEF ToSet
  <2>2. \A e \in fresh : \E k \in 1..m : param.x[a[k]] = e
    <3>1. TAKE e \in fresh
    <3>2. PICK i \in 1..n : param.x[i] = e
      BY <1>1 DEF ToSet
    <3>3. i \in NewRows
      BY <1>9, <3>2
    <3>4. QED
      BY <1>4, <3>2, <3>3
  <2>3. ToSet(new) = {IdOf(param.x[a[k]]) : k \in 1..m}
    BY DEF ToSet
  <2> HIDE DEF fresh, new
  <2>4. {IdOf(param.x[a[k]]) : k \in 1..m} = {IdOf(e) : e \in fresh}
    BY <2>1, <2>2
  <2>5. QED
    BY <2>3, <2>4 DEF fresh
<1>11. PICK A : own \in Seq(A) /\ new \in Seq(A)
  <2>1. PICK A : \A B : A \subseteq B => own \in Seq(B)
    BY IdList
  <2> DEFINE D == A \cup {IdOf(param.x[a[k]]) : k \in 1..m}
  <2>2. new \in [1..m -> D]
    OBVIOUS
  <2>3. A \subseteq D
    OBVIOUS
  <2> HIDE DEF D, new, own
  <2>4. own \in Seq(D) /\ new \in Seq(D)
    BY <2>1, <2>2, <2>3
  <2>5. QED
    BY <2>4
<1>12. IsInjective(own)
  BY IdList
<1>13. ToSet(own) \cap ToSet(new) = {}
  BY <1>8, <1>10, IdOfInjective
<1> HIDE DEF own, new
<1>14. own \o new \in Seq(A)
  BY <1>11, ConcatProperties
<1>15. IsInjective(own \o new) /\ ToSet(own \o new) = ToSet(own) \cup ToSet(new)
  BY <1>7, <1>11, <1>12, <1>13, InjectiveConcat, ToSetConcat
<1>16. {IdOf(e) : e \in ToSet(param.y)} \cup {IdOf(e) : e \in (ToSet(param.x) \ ToSet(param.y)) \ param.stray}
         = {IdOf(e) : e \in (ToSet(param.x) \cup ToSet(param.y)) \ param.stray}
  OBVIOUS
<1>17. QED
  BY <1>5, <1>8, <1>10, <1>14, <1>15, <1>16

\* Whatever the inputs, the roles' order and the items a Bloom filter drops, the
\* two parties of Private-ID give equal items equal IDs and different items
\* different ones, and return the same union (mqrpmt_private_id.cpp 105-172).
THEOREM IdsAlwaysAgree == Spec => []IdsAgree
<1>1. SessionsInv /\ ResultsTrue => IdsAgree
  <2> SUFFICES ASSUME SessionsInv, ResultsTrue, BothReturned("private_id")
               PROVE  LET s == result["S"][1]
                          r == result["R"][1]
                          dropped == {s.id[i] : i \in {k \in DOMAIN s.id : param.x[k] \in param.stray}}
                      IN  /\ \A i \in DOMAIN param.x, j \in DOMAIN param.y :
                               s.id[i] = r.id[j] <=> param.x[i] = param.y[j]
                          /\ IsInjective(s.id) /\ IsInjective(r.id)
                          /\ s.union_id = r.union_id /\ IsInjective(s.union_id)
                          /\ ToSet(s.union_id) = (ToSet(s.id) \cup ToSet(r.id)) \ dropped
    BY DEF IdsAgree
  <2>1. param.protocol = "private_id" /\ ParamOK
    BY DEF BothReturned, SessionsInv
  <2>2. Distinct(param.x) /\ Distinct(param.y) /\ param.stray \subseteq ToSet(param.x) \ ToSet(param.y)
    BY <2>1, ParamFacts
  <2>3. result["S"][1] = [id |-> IdsOf(param.x), union_id |-> TrueUnionId]
    BY <2>1, ResultIs DEF BothReturned, TrueOutput, Party
  <2>4. result["R"][1] = [id |-> IdsOf(param.y), union_id |-> TrueUnionId]
    BY <2>1, ResultIs DEF BothReturned, TrueOutput, Party
  <2>5. PICK xs, ys, u, s, r :
          /\ xs = IdsOf(param.x) /\ ys = IdsOf(param.y) /\ u = TrueUnionId
          /\ s = result["S"][1] /\ r = result["R"][1]
    OBVIOUS
  <2>6. s.id = xs /\ s.union_id = u /\ r.id = ys /\ r.union_id = u
    BY <2>3, <2>4, <2>5
  <2>7. /\ DOMAIN xs = DOMAIN param.x /\ \A i \in DOMAIN param.x : xs[i] = IdOf(param.x[i])
        /\ ToSet(xs) = {IdOf(e) : e \in ToSet(param.x)} /\ IsInjective(xs)
    BY <2>2, <2>5, IdList
  <2>8. /\ DOMAIN ys = DOMAIN param.y /\ \A i \in DOMAIN param.y : ys[i] = IdOf(param.y[i])
        /\ ToSet(ys) = {IdOf(e) : e \in ToSet(param.y)} /\ IsInjective(ys)
    BY <2>2, <2>5, IdList
  <2>9. IsInjective(u) /\ ToSet(u) = {IdOf(e) : e \in (ToSet(param.x) \cup ToSet(param.y)) \ param.stray}
    <3>1. PICK A : TrueUnion \in Seq(A)
      BY <2>2, UnionHolds
    <3>2. ToSet(Reverse(TrueUnion)) = ToSet(TrueUnion) /\ IsInjective(Reverse(TrueUnion))
      BY <2>2, <3>1, UnionHolds, Reversed
    <3>3. QED
      BY <2>2, <2>5, <3>2, UnionHolds DEF TrueUnionId
  <2>10. {xs[i] : i \in {k \in DOMAIN xs : param.x[k] \in param.stray}} = {IdOf(e) : e \in param.stray}
    <3>1. \A e \in param.stray : \E k \in DOMAIN param.x : param.x[k] = e
      BY <2>2 DEF ToSet
    <3>2. QED
      BY <2>7, <3>1
  <2>11. ToSet(u) = (ToSet(xs) \cup ToSet(ys)) \ {IdOf(e) : e \in param.stray}
    BY <2>7, <2>8, <2>9, IdOfInjective
  <2>12. \A i \in DOMAIN param.x, j \in DOMAIN param.y : xs[i] = ys[j] <=> param.x[i] = param.y[j]
    BY <2>7, <2>8, IdOfInjective
  <2>13. QED
    BY <2>5, <2>6, <2>7, <2>8, <2>9, <2>10, <2>11, <2>12
<1>2. QED
  BY <1>1, SessionsInvariant, PTL
-----------------------------------------------------------------------------
\* A message of VOLE that a party holds says what the inputs determine.
LEMMA VoleHeld ==
  ASSUME SessionsInv, param.protocol = "vole", NEW p \in Party,
         NEW name \in DataNames, name \in DOMAIN inbox[p]
  PROVE  inbox[p][name] = VoleSaid(name)
BY InboxSaid DEF Said

\* What it says of the extension.
LEMMA ExtendHeld ==
  ASSUME SessionsInv, param.protocol = "vole", ~IsSmall
  PROVE  /\ {<<"extend", "vec_outer_c0">>, <<"extend", "vec_outer_c1">>} \subseteq DOMAIN inbox["S"] => ExtendSaid
         /\ <<"extend", "vec_send_to_a">> \in DOMAIN inbox["S"] =>
              inbox["S"][<<"extend", "vec_send_to_a">>] = TrueSend
         /\ <<"extend", "ec_key">> \in DOMAIN inbox["S"] => inbox["S"][<<"extend", "ec_key">>] = param.ecKey
<1>1. PICK send, c0, c1, key :
        /\ send = <<"extend", "vec_send_to_a">> /\ c0 = <<"extend", "vec_outer_c0">>
        /\ c1 = <<"extend", "vec_outer_c1">> /\ key = <<"extend", "ec_key">>
  OBVIOUS
<1>2. /\ {send, c0, c1, key} \cap BaseNames = {}
      /\ c0 # send /\ c1 # send /\ key # send /\ c1 # c0 /\ key # c0 /\ key # c1
  <2>1. /\ send[1] = "extend" /\ c0[1] = "extend" /\ c1[1] = "extend" /\ key[1] = "extend"
        /\ send[2] = "vec_send_to_a" /\ c0[2] = "vec_outer_c0" /\ c1[2] = "vec_outer_c1" /\ key[2] = "ec_key"
    BY <1>1, VoleNames
  <2>2. \A name \in BaseNames : name[1] = "base"
    BY VoleNames DEF BaseNames
  <2>3. QED
    BY <2>1, <2>2
<1>3. {send, c0, c1, key} \subseteq DataNames
  BY <1>1 DEF DataNames, ExtendNames
<1>4. VoleSaid(send) = TrueSend
  BY <1>1 DEF VoleSaid
<1>5. /\ VoleSaid(c0) = [row \in 1..ExtendLen |-> Encrypt(row, 0, VecM(0)[row])]
      /\ VoleSaid(c1) = [row \in 1..ExtendLen |-> Encrypt(row, 1, VecM(1)[row])]
      /\ VoleSaid(key) = param.ecKey
  BY <1>1, <1>2 DEF VoleSaid, VolePayload, BaseNames
<1>6. \A name \in {send, c0, c1, key} : name \in DOMAIN inbox["S"] => inbox["S"][name] = VoleSaid(name)
  BY <1>3, VoleHeld DEF Party
<1>7. QED
  BY <1>1, <1>4, <1>5, <1>6 DEF ExtendSaid

\* What the parties hold when VOLE returns.
LEMMA VoleDoneHolds ==
  ASSUME SessionsInv, param.protocol = "vole", \A p \in Party : status[p] = "returned"
  PROVE  BaseNames \subseteq DOMAIN inbox["R"] /\ (~IsSmall => ExtendNames \subseteq DOMAIN inbox["S"])
<1>1. PICK A, B, C, D :
    /\ Consists(BaseVoleA, A) /\ Consists(BaseVoleB, B) /\ Consists(ExtendVoleA, C) /\ Consists(ExtendVoleB, D)
    /\ \A name \in BaseNames : Rcv(name) \in B
    /\ \A name \in ExtendNames : Rcv(name) \in C
  BY VoleCalls
<1>2. "S" \in Party /\ "R" \in Party
  BY DEF Party
<1>3. PICK sa, sb, ta, tb : sa = BaseVoleA /\ sb = BaseVoleB /\ ta = ExtendVoleA /\ tb = ExtendVoleB
  OBVIOUS
<1>4. CASE IsSmall
  <2>1. Consists(Program("R"), B)
    BY <1>1, <1>4 DEF Program, PartyB
  <2>2. QED
    BY <1>1, <1>2, <1>4, <2>1, DoneHolds
<1>5. CASE ~IsSmall
  <2>1. Program("S") = sa \o ta /\ Program("R") = sb \o tb
    BY <1>3, <1>5 DEF Program, PartyA, PartyB
  <2>2. Consists(sa \o ta, A \cup C) /\ Consists(sb \o tb, B \cup D)
    BY <1>1, <1>3, ConsistsConcat
  <2>3. Consists(Program("S"), A \cup C) /\ Consists(Program("R"), B \cup D)
    BY <2>1, <2>2
  <2>4. (\A name \in ExtendNames : Rcv(name) \in A \cup C) /\ \A name \in BaseNames : Rcv(name) \in B \cup D
    BY <1>1
  <2>5. QED
    BY <1>2, <2>3, <2>4, DoneHolds
<1>6. QED
  BY <1>4, <1>5

\* Whatever the number of items, the blocks it is cut into, the depths of the
\* trees, the punctured positions, delta and the code: when both calls have
\* returned, b = c + a * delta holds in every position (vole.cpp).
THEOREM VoleCorrelates == Spec => []VoleRelation
<1>1. SessionsInv => VoleRelation
  <2> SUFFICES ASSUME SessionsInv, BothReturned("vole")
               PROVE  /\ Len(OutputA.a) = ItemNum /\ Len(OutputA.c) = ItemNum /\ Len(OutputB) = ItemNum
                      /\ \A k \in 1..ItemNum : OutputB[k] = Add(OutputA.c[k], TimesDelta(OutputA.a[k]))
    BY DEF VoleRelation
  <2>1. param.protocol = "vole" /\ \A p \in Party : status[p] = "returned"
    BY DEF BothReturned
  <2>2. VoleOK /\ IsSmall \in BOOLEAN
    BY <2>1, VoleInputs DEF SessionsInv
  <2>3. PICK n \in Nat : n = ItemNum
    BY <2>2, VoleAssumption DEF VoleOK
  <2>4. BaseNames \subseteq DOMAIN inbox["R"] /\ (~IsSmall => ExtendNames \subseteq DOMAIN inbox["S"])
    BY <2>1, VoleDoneHolds
  <2>5. PICK a, b, c : /\ OutputA = [a |-> a, c |-> c] /\ OutputB = b
                       /\ Related(a, b, c, n)
    <3>1. CASE IsSmall
      <4>1. PICK a, b, c : /\ a = [j \in 1..n |-> U(j)] /\ b = [j \in 1..n |-> V(j)]
                           /\ c = [j \in 1..n |-> W(j)]
        OBVIOUS
      <4>2. OutputA = [a |-> a, c |-> c] /\ OutputB = b
        BY <2>3, <3>1, <4>1 DEF OutputA, OutputB
      <4>3. \A j \in 1..n : V(j) = Add(W(j), TimesDelta(U(j)))
        BY <2>1, <2>3, <2>4, <3>1, BaseHeld DEF BaseLen
      <4>4. Related(a, b, c, n)
        BY <4>1, <4>3 DEF Related, List
      <4>5. QED
        BY <4>2, <4>4
    <3>2. CASE ~IsSmall
      <4>1. ExtendSaid /\ inbox["S"][<<"extend", "vec_send_to_a">>] = TrueSend
        BY <2>1, <2>4, <3>2, ExtendHeld DEF ExtendNames
      <4>2. inbox["S"][<<"extend", "ec_key">>] = param.ecKey
        BY <2>1, <2>4, <3>2, ExtendHeld DEF ExtendNames
      <4>3. PICK x, y, z, key : x = BaseFieldA /\ y = LeavesB /\ z = LeavesA /\ key = param.ecKey
        OBVIOUS
      <4>4. Related(x, y, z, 2 * n)
        BY <2>2, <2>3, <3>2, <4>1, <4>3, LeavesRelated
      <4>5. key \in EcKeys /\ n \in ItemNums
        BY <2>2, <2>3, <4>3 DEF VoleOK
      <4>6. Related(DualEncode(key, x), DualEncode(key, y), DualEncode(key, z), n)
        BY <4>4, <4>5, EncodeRelated
      <4>7. /\ OutputA = [a |-> DualEncode(key, x), c |-> DualEncode(key, z)]
            /\ OutputB = DualEncode(key, y)
        BY <3>2, <4>2, <4>3 DEF OutputA, OutputB
      <4>8. QED
        BY <4>6, <4>7
    <3>3. QED
      BY <2>2, <3>1, <3>2
  <2>6. Len(a) = n /\ Len(b) = n /\ Len(c) = n
    BY <2>5, ListFacts DEF Related
  <2>7. \A k \in 1..n : b[k] = Add(c[k], TimesDelta(a[k]))
    BY <2>5 DEF Related
  <2>8. OutputA.a = a /\ OutputA.c = c
    BY <2>5
  <2>9. QED
    BY <2>3, <2>5, <2>6, <2>7, <2>8
<1>2. QED
  BY <1>1, SessionsInvariant, PTL

\* Whatever the depths and positions, party A is told nothing of a node on the
\* path to its punctured leaf: the message it chooses at each depth is a sum of
\* other nodes of that depth (vole.cpp).
THEOREM PathStaysHidden == Spec => []PathHidden
<1>1. SessionsInv => PathHidden
  <2> SUFFICES ASSUME SessionsInv, param.protocol = "vole",
                      {<<"extend", "vec_outer_c0">>, <<"extend", "vec_outer_c1">>} \subseteq DOMAIN inbox["S"]
               PROVE  \A i \in Trees : \A d \in 1..Depth(i) :
                        /\ Received[Offset(i) + d] \cap PathNode(i, d) = {}
                        /\ Received[Offset(i) + d] \subseteq UNION ToSet(Tree[i][d])
    BY DEF PathHidden
  <2>1. VoleOK /\ IsSmall \in BOOLEAN
    BY VoleInputs DEF SessionsInv
  <2>2. ASSUME IsSmall
        PROVE  FALSE
    <3>1. PICK A : Consists(BaseVoleA, A) /\ \A c \in A : c.name[1] = "base"
      BY VoleCalls
    <3>2. Program("S") = BaseVoleA /\ "S" \in Party
      BY <2>2 DEF Program, PartyA, Party
    <3>3. NoMoreThan("S", Program("S"))
      BY <3>2 DEF SessionsInv
    <3>4. PICK name : name = <<"extend", "vec_outer_c0">> /\ name[1] = "extend"
      BY VoleNames
    <3>5. \E c \in Calls(BaseVoleA) : c.name = name
      BY <3>2, <3>3, <3>4 DEF NoMoreThan
    <3>6. QED
      BY <3>1, <3>4, <3>5 DEF Consists
  <2>3. ExtendSaid
    BY <2>2, ExtendHeld
  <2>4. \A i \in Trees : \A d \in 1..Depth(i) : Received[Offset(i) + d] = M[i][BitsOf(i)[d]][d]
    BY <2>1, <2>2, <2>3, ReceivedRows
  <2>5. ASSUME NEW i \in Trees, NEW d \in 1..Depth(i)
        PROVE  /\ Received[Offset(i) + d] \cap PathNode(i, d) = {}
               /\ Received[Offset(i) + d] \subseteq UNION ToSet(Tree[i][d])
    <3>1. PICK m : m = Received[Offset(i) + d] /\ m = M[i][BitsOf(i)[d]][d]
      BY <2>4
    <3>2. m \cap PathNode(i, d) = {} /\ m \subseteq UNION ToSet(Tree[i][d])
      BY <2>1, <2>2, <3>1, ChosenHidesPath
    <3>3. QED
      BY <3>1, <3>2
  <2>6. QED
    BY <2>5
<1>2. QED
  BY <1>1, SessionsInvariant, PTL
=============================================================================
