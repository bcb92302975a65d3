-------------------------- MODULE ClientWindowProofs --------------------------
(***************************************************************************)
(* What the client gets of the server's answers, and what its table of     *)
(* users is worth.  First AnswerStream, for any answers and any chunks: an *)
(* answer can only be handled from a chunk that holds its header or part   *)
(* of it; once its body is being read, nothing of it parses again.  Then   *)
(* ClientWindow, for any users: the list, the events on their way and the  *)
(* row, against the seat.                                                  *)
(***************************************************************************)
EXTENDS ClientWindow, SequenceTheorems, TLAPS

-----------------------------------------------------------------------------
(* The stream: the inductive invariant. *)

\* What was shown lies behind, and what is left of its bytes does not parse.
Behind == \A i \in DOMAIN shown :
    /\ shown[i].msg <= msg
    /\ shown[i].msg = msg => from > Header(msg)

\* No chunk ended in a header: _buffer begins with an answer, or in its body.
HeaderWhole == "header" \notin cut =>
    /\ off = 0 \/ off > Header(msg)
    /\ from = 0 \/ from > Header(msg)

NoQuit == \A m \in 1..wrote : Op[m] # Quit

Delivered(m) ==
    \/ Silent(m) \/ m \in rode
    \/ \E i \in DOMAIN shown : shown[i] = [msg |-> m, op |-> Op[m], miss |-> 0]

\* No chunk did harm: all of the answer is there up to off, in its body, or just
\* before its '\0', and then it was shown.
Harmless == cut = {} /\ NoQuit =>
    /\ reading = "on" /\ ~deaf
    /\ \/ from = 0 /\ (off = 0 \/ (Header(msg) < off /\ off < Packet(msg)))
       \/ from = off /\ off = Data(msg) /\ Delivered(msg)
    /\ \A m \in 1..msg - 1 : Delivered(m)

SInv == /\ StreamTypeOK /\ Behind /\ ShownInOrder /\ ShortByTwo
        /\ HeaderWhole /\ MisreadInHeader /\ Harmless

-----------------------------------------------------------------------------
(* Answers and their bytes. *)

\* How long the parts of an answer are.
LEMMA Sizes ==
    ASSUME NEW m \in Answers
    PROVE  /\ Op[m] \in 0..21
           /\ Digits(m) \in {1, 2} /\ (Op[m] >= 10 => Digits(m) = 2)
           /\ Header(m) \in Nat /\ Header(m) = Digits(m) + 10
           /\ Packet(m) \in Nat /\ Data(m) \in Nat /\ Packet(m) < 100000000
           /\ Header(m) < Packet(m) /\ Data(m) = Packet(m) + 2
<1>1. Op[m] \in 0..21
  BY OpAssumption DEF Answers
<1>2. Body[m] \in Nat /\ Body[m] > 2 /\ Body[m] < 10000000
  <2>1. Body \in Seq(Nat) /\ Len(Body) = Len(Op) /\ Op \in Seq(0..21)
    BY BodyAssumption, OpAssumption
  <2>2. m \in DOMAIN Body
    BY <2>1 DEF Answers
  <2> QED BY <2>1, <2>2, BodyAssumption
<1>3. Digits(m) \in {1, 2} /\ (Op[m] >= 10 => Digits(m) = 2)
  BY <1>1 DEF Digits
<1>4. Header(m) = Digits(m) + 10 /\ Packet(m) = Digits(m) + 8 + Body[m]
      /\ Data(m) = Digits(m) + 10 + Body[m]
  BY DEF Header, Packet, Data
<1> QED BY <1>1, <1>2, <1>3, <1>4

\* All of the digits make the number.
LEMMA WholeOp ==
    ASSUME NEW m \in Answers
    PROVE  Part(Op[m], Digits(m), 0, Digits(m)) = Op[m]
<1>1. Op[m] \in 0..21 /\ Digits(m) = IF Op[m] < 10 THEN 1 ELSE 2
  BY Sizes DEF Digits
<1>2. Ten[0] = 1 /\ Ten[1] = 10 /\ Ten[2] = 100
  BY DEF Ten
<1>3. CASE Op[m] < 10
  <2>1. Part(Op[m], 1, 0, 1) = (Op[m] \div 1) % 10
    BY <1>2 DEF Part
  <2> QED BY <1>1, <1>3, <2>1
<1>4. CASE ~(Op[m] < 10)
  <2>1. Part(Op[m], 2, 0, 2) = (Op[m] \div 1) % 100
    BY <1>2 DEF Part
  <2> QED BY <1>1, <1>4, <2>1
<1> QED BY <1>3, <1>4

LEMMA WholeSize ==
    ASSUME NEW m \in Answers, NEW e \in Nat, e > Header(m)
    PROVE  Part(Packet(m), 8, 0, Cap(e - Digits(m) - 1, 8)) = Packet(m)
<1>1. Ten[0] = 1 /\ Ten[8] = 100000000
  BY DEF Ten
<1>2. Cap(e - Digits(m) - 1, 8) = 8
  BY Sizes DEF Cap
<1>3. Part(Packet(m), 8, 0, 8) = (Packet(m) \div 1) % 100000000
  BY <1>1 DEF Part
<1>4. Packet(m) \in Nat /\ Packet(m) < 100000000
  BY Sizes
<1>5. (Packet(m) \div 1) % 100000000 = Packet(m)
  BY <1>4
<1> QED BY <1>2, <1>3, <1>5

\* With the header behind them, the data parse if they began in the operation, and
\* are complete when they are as long as the size says.
LEMMA Parsed ==
    ASSUME NEW m \in Answers, NEW f \in Nat, NEW e \in Nat, e > Header(m)
    PROVE  /\ Parses(m, f, e) <=> f < Digits(m)
           /\ f < Digits(m) => Command(m, f, e)[2] = Packet(m)
           /\ f = 0 => Command(m, f, e)[1] = Op[m]
           /\ Complete(m, f, e) <=> f < Digits(m) /\ Packet(m) <= e - f
<1>1. Digits(m) \in {1, 2} /\ Header(m) = Digits(m) + 10
  BY Sizes
<1>2. Parses(m, f, e) <=> f < Digits(m)
  BY <1>1 DEF Parses
<1>3. ASSUME f < Digits(m) PROVE Command(m, f, e) = OpAndSize(m, f, e)
  BY <1>1, <1>3 DEF Command
<1>4. ASSUME f < Digits(m) PROVE Command(m, f, e)[2] = Packet(m)
  BY <1>3, <1>4, WholeSize DEF OpAndSize
<1>5. ASSUME f = 0 PROVE Command(m, f, e)[1] = Op[m]
  BY <1>1, <1>3, <1>5, WholeOp DEF OpAndSize
<1> QED BY <1>2, <1>4, <1>5 DEF Complete

-----------------------------------------------------------------------------
(* Chunks. *)

\* Where the bytes of answer msg end that a chunk brings.
EndOf(m2, o2) == IF m2 = msg THEN o2 ELSE Data(msg)

LEMMA PlaceIs ==
    ASSUME StreamTypeOK, NEW p \in Places
    PROVE  /\ p[1] \in msg..wrote + 1 /\ p[2] \in Nat
           /\ p[1] > wrote => p[2] = 0
           /\ p[1] <= wrote => p[2] <= Data(p[1])
           /\ p[2] # 0 => cuts < MaxCuts
           /\ msg \in 1..wrote
<1>1. msg \in 1..wrote + 1 /\ wrote \in 0..Len(Op) /\ Len(Op) \in Nat
  BY OpAssumption DEF StreamTypeOK
<1>2. CASE p \in {<<m, 0>> : m \in msg + 1..wrote + 1}
  <2>1. PICK m \in msg + 1..wrote + 1 : p = <<m, 0>>
    BY <1>2
  <2>2. m <= wrote => Data(m) \in Nat
    <3>1. m <= wrote => m \in Answers
      BY <1>1, <2>1, OpAssumption DEF Answers
    <3> QED BY <3>1, Sizes
  <2> QED BY <1>1, <2>1, <2>2
<1>3. CASE cuts < MaxCuts /\ p \in UNION {{m} \X (1..Data(m)) : m \in msg..wrote}
  <2>1. PICK m \in msg..wrote : p \in {m} \X (1..Data(m))
    BY <1>3
  <2>2. Data(m) \in Nat
    <3>1. m \in Answers
      BY <1>1, <2>1, OpAssumption DEF Answers
    <3> QED BY <3>1, Sizes
  <2> QED BY <1>1, <1>3, <2>1, <2>2
<1> QED BY <1>2, <1>3 DEF Places

\* The bytes a chunk adds to _buffer are some of answer msg, behind those it has.
LEMMA EndIs ==
    ASSUME StreamTypeOK, NEW p \in Places, Chunk(p[1], p[2])
    PROVE  /\ msg \in Answers /\ msg \in 1..wrote
           /\ from \in Nat /\ off \in Nat /\ from <= off /\ off <= Data(msg) /\ Data(msg) \in Nat
           /\ EndOf(p[1], p[2]) \in Nat /\ from <= EndOf(p[1], p[2]) /\ EndOf(p[1], p[2]) <= Data(msg)
           /\ p[1] = msg => p[2] > off
<1>1. /\ p[1] \in msg..wrote + 1 /\ p[2] \in Nat /\ msg \in 1..wrote
      /\ p[1] <= wrote => p[2] <= Data(p[1])
  BY PlaceIs
<1>2. wrote \in 0..Len(Op) /\ Len(Op) \in Nat /\ DOMAIN Op = 1..Len(Op)
  BY OpAssumption DEF StreamTypeOK
<1>3. msg \in Answers
  BY <1>1, <1>2 DEF Answers
<1>4. Data(msg) \in Nat
  BY <1>3, Sizes
<1>5. off \in Nat /\ off <= Data(msg) /\ from \in 0..off
  BY <1>1, <1>2 DEF StreamTypeOK
<1>6. p[1] = msg => p[2] > off /\ p[2] <= Data(msg)
  BY <1>1, <1>2 DEF Chunk
<1>7. EndOf(p[1], p[2]) \in Nat /\ off <= EndOf(p[1], p[2]) /\ EndOf(p[1], p[2]) <= Data(msg)
  BY <1>1, <1>4, <1>5, <1>6 DEF EndOf
<1> QED BY <1>1, <1>3, <1>4, <1>5, <1>6, <1>7

\* What a chunk does: it is handled, as a Quit, as a crash, as an answer or as
\* nothing, or it is kept.
LEMMA ChunkIs ==
    ASSUME NEW m2, NEW o2, Chunk(m2, o2)
    PROVE  LET e == EndOf(m2, o2)
               op == Command(msg, from, e)[1]
           IN  /\ reading = "on" /\ msg' = m2 /\ off' = o2 /\ wrote' = wrote
               /\ cuts' = (IF o2 = 0 THEN cuts ELSE cuts + 1)
               /\ rode' = rode \cup Riding(m2, o2) /\ cut' = cut \cup Harm(m2, o2)
               /\ \/ /\ ~deaf /\ Complete(msg, from, e) /\ from' = o2 /\ deaf' = deaf
                     /\ \/ op = Quit /\ reading' = "stopped" /\ shown' = shown
                        \/ op \in Emits /\ e <= Header(msg) /\ reading' = "crashed" /\ shown' = shown
                        \/ /\ op \in Emits /\ e > Header(msg) /\ reading' = reading
                           /\ shown' = Append(shown, [msg |-> msg, op |-> op, miss |-> Data(msg) - e])
                        \/ op # Quit /\ op \notin Emits /\ reading' = reading /\ shown' = shown
                  \/ /\ deaf \/ ~Complete(msg, from, e)
                     /\ from' = (IF m2 = msg THEN from ELSE o2)
                     /\ deaf' = (deaf \/ (m2 > msg /\ from < e))
                     /\ reading' = reading /\ shown' = shown
  BY DEF Chunk, EndOf, HandleMessage, Clear, Keep

\* One that has all of an answer is handled, ...
LEMMA HandledIs ==
    ASSUME NEW m2, NEW o2, Chunk(m2, o2), NEW e, e = EndOf(m2, o2), NEW op,
           ~deaf, Complete(msg, from, e), op = Command(msg, from, e)[1]
    PROVE  /\ from' = o2 /\ deaf' = deaf
           /\ \/ op = Quit /\ reading' = "stopped" /\ shown' = shown
              \/ op \in Emits /\ e <= Header(msg) /\ reading' = "crashed" /\ shown' = shown
              \/ /\ op \in Emits /\ e > Header(msg) /\ reading' = reading
                 /\ shown' = Append(shown, [msg |-> msg, op |-> op, miss |-> Data(msg) - e])
              \/ op # Quit /\ op \notin Emits /\ reading' = reading /\ shown' = shown
  BY DEF Chunk, EndOf, HandleMessage, Clear

\* ... and another is kept.
LEMMA KeptIs ==
    ASSUME NEW m2, NEW o2, Chunk(m2, o2), NEW e, e = EndOf(m2, o2), ~Complete(msg, from, e)
    PROVE  /\ from' = (IF m2 = msg THEN from ELSE o2)
           /\ deaf' = (deaf \/ (m2 > msg /\ from < e))
           /\ reading' = reading /\ shown' = shown
  BY DEF Chunk, EndOf, Keep

LEMMA Appended ==
    ASSUME NEW S, NEW s \in Seq(S), NEW x \in S
    PROVE  /\ Append(s, x) \in Seq(S)
           /\ DOMAIN Append(s, x) = 1..Len(s) + 1 /\ DOMAIN s = 1..Len(s) /\ Len(s) \in Nat
           /\ \A i \in 1..Len(s) : Append(s, x)[i] = s[i]
           /\ Append(s, x)[Len(s) + 1] = x
  BY AppendProperties

-----------------------------------------------------------------------------
(* A chunk keeps the invariant. *)

\* What comes of shown: nothing, or one more.
LEMMA ShownThen ==
    ASSUME StreamTypeOK, NEW p \in Places, Chunk(p[1], p[2])
    PROVE  LET e == EndOf(p[1], p[2])
           IN  \/ shown' = shown
               \/ /\ ~deaf /\ Complete(msg, from, e) /\ e > Header(msg) /\ from' = p[2]
                  /\ \E x \in [msg: Answers, op: Emits, miss: Nat] :
                        /\ x.msg = msg /\ x.op = Command(msg, from, e)[1] /\ x.miss = Data(msg) - e
                        /\ shown' \in Seq([msg: Answers, op: Emits, miss: Nat])
                        /\ DOMAIN shown' = 1..Len(shown) + 1 /\ DOMAIN shown = 1..Len(shown) /\ Len(shown) \in Nat
                        /\ \A i \in 1..Len(shown) : shown'[i] = shown[i]
                        /\ shown'[Len(shown) + 1] = x
<1>1. PICK e \in Nat : e = EndOf(p[1], p[2])
  BY EndIs
<1>2. SUFFICES ASSUME shown' # shown
      PROVE  /\ ~deaf /\ Complete(msg, from, e) /\ e > Header(msg) /\ from' = p[2]
             /\ \E x \in [msg: Answers, op: Emits, miss: Nat] :
                   /\ x.msg = msg /\ x.op = Command(msg, from, e)[1] /\ x.miss = Data(msg) - e
                   /\ shown' \in Seq([msg: Answers, op: Emits, miss: Nat])
                   /\ DOMAIN shown' = 1..Len(shown) + 1 /\ DOMAIN shown = 1..Len(shown) /\ Len(shown) \in Nat
                   /\ \A i \in 1..Len(shown) : shown'[i] = shown[i]
                   /\ shown'[Len(shown) + 1] = x
  BY <1>1
<1>3. PICK op \in Emits : op = Command(msg, from, e)[1] /\ e > Header(msg)
                          /\ ~deaf /\ Complete(msg, from, e) /\ from' = p[2]
                          /\ shown' = Append(shown, [msg |-> msg, op |-> op, miss |-> Data(msg) - e])
  BY <1>1, <1>2, ChunkIs
<1>4. msg \in Answers /\ Data(msg) - e \in Nat
  BY <1>1, EndIs
<1>5. PICK x \in [msg: Answers, op: Emits, miss: Nat] :
          x = [msg |-> msg, op |-> op, miss |-> Data(msg) - e]
  BY <1>4
<1>6. x.msg = msg /\ x.op = op /\ x.miss = Data(msg) - e
  BY <1>5
<1>7. shown \in Seq([msg: Answers, op: Emits, miss: Nat]) /\ shown' = Append(shown, x)
  BY <1>3, <1>5 DEF StreamTypeOK
<1>8. /\ shown' \in Seq([msg: Answers, op: Emits, miss: Nat])
      /\ DOMAIN shown' = 1..Len(shown) + 1 /\ DOMAIN shown = 1..Len(shown) /\ Len(shown) \in Nat
      /\ \A i \in 1..Len(shown) : shown'[i] = shown[i]
      /\ shown'[Len(shown) + 1] = x
  BY <1>7, Appended
<1> QED BY <1>3, <1>6, <1>8

LEMMA TypeChunk ==
    ASSUME StreamTypeOK, NEW p \in Places, Chunk(p[1], p[2])
    PROVE  StreamTypeOK'
<1>1. /\ p[1] \in msg..wrote + 1 /\ p[2] \in Nat /\ msg \in 1..wrote
      /\ p[1] > wrote => p[2] = 0
      /\ p[1] <= wrote => p[2] <= Data(p[1])
      /\ p[2] # 0 => cuts < MaxCuts
  BY PlaceIs
<1>2. /\ msg' = p[1] /\ off' = p[2] /\ wrote' = wrote
      /\ cuts' = (IF p[2] = 0 THEN cuts ELSE cuts + 1)
      /\ rode' = rode \cup Riding(p[1], p[2]) /\ cut' = cut \cup Harm(p[1], p[2])
      /\ from' = p[2] \/ (p[1] = msg /\ from' = from)
      /\ reading' \in {"on", "stopped", "crashed"}
  BY ChunkIs
<1>3. deaf' \in BOOLEAN
  BY ChunkIs DEF StreamTypeOK
<1>4. wrote \in 0..Len(Op) /\ Len(Op) \in Nat /\ DOMAIN Op = 1..Len(Op)
  BY OpAssumption DEF StreamTypeOK
<1>5. /\ wrote' \in 0..Len(Op) /\ msg' \in 1..wrote' + 1 /\ off' \in Nat
      /\ (msg' > wrote' => off' = 0) /\ (msg' <= wrote' => off' <= Data(msg)')
  BY <1>1, <1>2, <1>4 DEF Data, Header, Digits
<1>6. from' \in 0..off'
  BY <1>1, <1>2, EndIs
<1>7. Riding(p[1], p[2]) \subseteq Answers
  <2>1. \A m \in msg + 1..p[1] : m < p[1] \/ p[2] > 0 => m \in 1..wrote
    BY <1>1, <1>4
  <2> QED BY <1>4, <2>1 DEF Riding, Answers
<1>8. Harm(p[1], p[2]) \subseteq {"header", "tail", "dropped"}
  BY DEF Harm
<1>9. cuts' \in 0..MaxCuts
  BY <1>1, <1>2, MaxCutsAssumption DEF StreamTypeOK
<1>10. shown' \in Seq([msg: Answers, op: Emits, miss: Nat])
  BY ShownThen DEF StreamTypeOK
<1>11. rode' \subseteq Answers /\ cut' \subseteq {"header", "tail", "dropped"}
  BY <1>2, <1>7, <1>8 DEF StreamTypeOK
<1> QED BY <1>2, <1>3, <1>5, <1>6, <1>9, <1>10, <1>11 DEF StreamTypeOK

\* What is shown has the number of an answer.
LEMMA ShownNumbers ==
    ASSUME StreamTypeOK
    PROVE  /\ \A i \in DOMAIN shown : shown[i].msg \in Answers /\ shown[i].msg \in Nat
           /\ msg \in Nat
<1>1. \A m \in Answers : m \in Nat
  BY OpAssumption DEF Answers
<1>2. shown \in Seq([msg: Answers, op: Emits, miss: Nat]) /\ msg \in 1..wrote + 1 /\ wrote \in 0..Len(Op)
  BY DEF StreamTypeOK
<1>3. \A i \in DOMAIN shown : shown[i] \in [msg: Answers, op: Emits, miss: Nat]
  <2>1. PICK S : S = [msg: Answers, op: Emits, miss: Nat]
    OBVIOUS
  <2>2. shown \in Seq(S)
    BY <1>2, <2>1
  <2>3. \A i \in DOMAIN shown : shown[i] \in S
    BY <2>2
  <2> QED BY <2>1, <2>3
<1>4. msg \in Nat
  BY <1>2, OpAssumption
<1> QED BY <1>1, <1>3, <1>4

\* Nothing was shown of an answer that is being handled.
LEMMA NotShownYet ==
    ASSUME StreamTypeOK, Behind, NEW e \in Nat, msg \in Answers, from \in Nat,
           Complete(msg, from, e), e > Header(msg)
    PROVE  \A i \in DOMAIN shown : shown[i].msg < msg
<1>1. from < Digits(msg) /\ Digits(msg) \in {1, 2} /\ Header(msg) = Digits(msg) + 10
  BY Parsed, Sizes
<1>2. \A i \in DOMAIN shown : shown[i].msg # msg
  BY <1>1 DEF Behind
<1>3. \A i \in DOMAIN shown : shown[i].msg \in Nat /\ shown[i].msg <= msg /\ msg \in Nat
  BY ShownNumbers DEF Behind
<1> QED BY <1>2, <1>3

LEMMA OrderChunk ==
    ASSUME StreamTypeOK, Behind, ShownInOrder, ShortByTwo, NEW p \in Places, Chunk(p[1], p[2])
    PROVE  Behind' /\ ShownInOrder' /\ ShortByTwo'
<1>1. PICK e \in Nat : e = EndOf(p[1], p[2])
  BY EndIs
<1>2. /\ msg \in Answers /\ from \in Nat /\ off \in Nat /\ from <= e /\ Data(msg) \in Nat /\ e <= Data(msg)
      /\ p[1] \in Nat /\ p[2] \in Nat /\ msg <= p[1] /\ msg \in Nat
      /\ msg' = p[1] /\ (p[1] = msg => e = p[2])
  <2>1. /\ msg \in Answers /\ from \in Nat /\ off \in Nat /\ from <= e /\ Data(msg) \in Nat /\ e <= Data(msg)
    BY <1>1, EndIs
  <2>2. p[1] \in msg..wrote + 1 /\ p[2] \in Nat /\ msg \in Nat
    BY PlaceIs, ShownNumbers
  <2>3. wrote \in Nat
    BY OpAssumption DEF StreamTypeOK
  <2>4. msg' = p[1] /\ (p[1] = msg => e = p[2])
    BY <1>1, ChunkIs DEF EndOf
  <2> QED BY <2>1, <2>2, <2>3, <2>4
<1>3. \A i \in DOMAIN shown : shown[i].msg \in Nat
  BY ShownNumbers
<1>4. CASE shown' = shown
  <2>1. ASSUME NEW i \in DOMAIN shown, shown[i].msg = p[1] PROVE from' > Header(p[1])
    <3>1. p[1] = msg /\ from > Header(msg)
      BY <1>2, <1>3, <2>1 DEF Behind
    <3>2. Header(msg) = Digits(msg) + 10 /\ Digits(msg) \in {1, 2}
      BY <1>2, Sizes
    <3>3. from' = from \/ from' = p[2]
      BY ChunkIs
    <3> QED BY <1>2, <3>1, <3>2, <3>3
  <2>2. \A i \in DOMAIN shown : shown[i].msg <= p[1]
    BY <1>2, <1>3 DEF Behind
  <2> QED BY <1>2, <1>4, <2>1, <2>2 DEF Behind, ShownInOrder, ShortByTwo, Header, Digits
<1>5. CASE shown' # shown
  <2>1. Complete(msg, from, e) /\ e > Header(msg) /\ from' = p[2]
    BY <1>1, <1>5, ShownThen
  <2>2. PICK x \in [msg: Answers, op: Emits, miss: Nat] :
          /\ x.msg = msg /\ x.miss = Data(msg) - e
          /\ DOMAIN shown' = 1..Len(shown) + 1 /\ DOMAIN shown = 1..Len(shown) /\ Len(shown) \in Nat
          /\ \A i \in 1..Len(shown) : shown'[i] = shown[i]
          /\ shown'[Len(shown) + 1] = x
    BY <1>1, <1>5, ShownThen
  <2>3. \A i \in DOMAIN shown : shown[i].msg < msg
    BY <1>2, <2>1, NotShownYet
  <2>4. \A i \in DOMAIN shown' :
          \/ i \in DOMAIN shown /\ shown'[i] = shown[i] /\ i <= Len(shown)
          \/ i = Len(shown) + 1 /\ shown'[i] = x
    BY <2>2
  <2>5. x.miss <= 2
    <3>1. Packet(msg) <= e - from /\ Data(msg) = Packet(msg) + 2 /\ Packet(msg) \in Nat
      BY <1>2, <2>1, Parsed, Sizes
    <3> QED BY <1>2, <2>2, <3>1
  <2>6. ShortByTwo'
    BY <2>4, <2>5 DEF ShortByTwo
  <2>7. ShownInOrder'
    <3>1. SUFFICES ASSUME NEW i \in DOMAIN shown', NEW j \in DOMAIN shown', i < j
                   PROVE  shown'[i].msg < shown'[j].msg
      BY DEF ShownInOrder
    <3>2. i \in DOMAIN shown /\ shown'[i] = shown[i]
      BY <2>2, <2>4, <3>1
    <3>3. CASE j \in DOMAIN shown
      BY <2>2, <3>1, <3>2, <3>3 DEF ShownInOrder
    <3>4. CASE shown'[j] = x
      BY <2>2, <2>3, <3>2, <3>4
    <3> QED BY <2>4, <3>3, <3>4
  <2>8. Behind'
    <3>1. SUFFICES ASSUME NEW i \in DOMAIN shown'
                   PROVE  shown'[i].msg <= p[1] /\ (shown'[i].msg = p[1] => from' > Header(p[1]))
      BY <1>2 DEF Behind, Header, Digits
    <3>2. CASE i \in DOMAIN shown /\ shown'[i] = shown[i]
      BY <1>2, <1>3, <2>3, <3>2
    <3>3. CASE shown'[i] = x
      <4>1. shown'[i].msg = msg
        BY <2>2, <3>3
      <4> QED BY <1>2, <2>1, <4>1
    <3> QED BY <2>4, <3>2, <3>3
  <2> QED BY <2>6, <2>7, <2>8
<1> QED BY <1>4, <1>5

\* While no chunk ends in a header, an answer is handled as what it is.
LEMMA HeaderChunk ==
    ASSUME StreamTypeOK, HeaderWhole, MisreadInHeader, NEW p \in Places, Chunk(p[1], p[2])
    PROVE  HeaderWhole' /\ MisreadInHeader'
<1>1. PICK e \in Nat : e = EndOf(p[1], p[2])
  BY EndIs
<1>2. /\ msg \in Answers /\ msg \in 1..wrote /\ from \in Nat /\ off \in Nat
      /\ Data(msg) \in Nat /\ (p[1] = msg => p[2] > off)
  BY EndIs
<1>3. /\ msg' = p[1] /\ off' = p[2] /\ wrote' = wrote /\ cut' = cut \cup Harm(p[1], p[2]) /\ p[2] \in Nat
      /\ reading = "on"
  BY ChunkIs, PlaceIs
<1> SUFFICES ASSUME "header" \notin cut'
             PROVE  /\ off' = 0 \/ off' > Header(p[1])
                    /\ from' = 0 \/ from' > Header(p[1])
                    /\ reading' # "crashed"
                    /\ reading' = "stopped" => \E m \in 1..wrote : Op[m] = Quit
                    /\ \A i \in DOMAIN shown' : shown'[i].op = Op[shown'[i].msg]
  BY <1>3 DEF HeaderWhole, MisreadInHeader, Header, Digits
<1>4. "header" \notin cut /\ (p[2] = 0 \/ p[2] > Header(p[1]) \/ ~(p[2] <= Header(p[1])))
  BY <1>3 DEF Harm
<1>5. p[2] = 0 \/ p[2] > Header(p[1])
  <2>1. Header(p[1]) \in Nat
    BY DEF Header, Digits
  <2> QED BY <1>3, <1>4, <2>1
<1>6. e > Header(msg)
  <2>1. Header(msg) < Packet(msg) /\ Data(msg) = Packet(msg) + 2 /\ Header(msg) \in Nat /\ Packet(msg) \in Nat
    BY <1>2, Sizes
  <2> QED BY <1>1, <1>2, <1>5, <2>1 DEF EndOf
<1>7. from = 0 \/ from > Header(msg)
  BY <1>4 DEF HeaderWhole
<1>8. Complete(msg, from, e) => Command(msg, from, e)[1] = Op[msg]
  <2>1. Complete(msg, from, e) => from < Digits(msg)
    BY <1>2, <1>6, Parsed
  <2>2. Header(msg) = Digits(msg) + 10 /\ Digits(msg) \in {1, 2}
    BY <1>2, Sizes
  <2>3. Complete(msg, from, e) => from = 0
    BY <1>2, <1>7, <2>1, <2>2
  <2> QED BY <1>2, <1>6, <2>3, Parsed
<1>9. from' = 0 \/ from' > Header(p[1])
  <2>1. from' = p[2] \/ (p[1] = msg /\ from' = from)
    BY ChunkIs
  <2> QED BY <1>5, <1>7, <2>1
<1>10. ~(e <= Header(msg))
  BY <1>2, <1>6, Sizes
<1>11. \/ reading' = "on"
       \/ Complete(msg, from, e) /\ Command(msg, from, e)[1] = Quit /\ reading' = "stopped"
  BY <1>1, <1>3, <1>10, ChunkIs
<1>12. reading' # "crashed" /\ (reading' = "stopped" => \E m \in 1..wrote : Op[m] = Quit)
  BY <1>2, <1>8, <1>11
<1>13. \A i \in DOMAIN shown' : shown'[i].op = Op[shown'[i].msg]
  <2>1. \A i \in DOMAIN shown : shown[i].op = Op[shown[i].msg]
    BY <1>4 DEF MisreadInHeader
  <2>2. CASE shown' = shown
    BY <2>1, <2>2
  <2>3. CASE shown' # shown
    <3>1. PICK x \in [msg: Answers, op: Emits, miss: Nat] :
            /\ x.msg = msg /\ x.op = Command(msg, from, e)[1]
            /\ DOMAIN shown' = 1..Len(shown) + 1 /\ DOMAIN shown = 1..Len(shown) /\ Len(shown) \in Nat
            /\ \A i \in 1..Len(shown) : shown'[i] = shown[i]
            /\ shown'[Len(shown) + 1] = x
      BY <1>1, <2>3, ShownThen
    <3>2. Complete(msg, from, e)
      BY <1>1, <2>3, ShownThen
    <3>3. x.op = Op[x.msg]
      BY <1>8, <3>1, <3>2
    <3>4. \A i \in DOMAIN shown' : (i \in DOMAIN shown /\ shown'[i] = shown[i]) \/ shown'[i] = x
      BY <3>1
    <3> QED BY <2>1, <3>3, <3>4
  <2> QED BY <2>2, <2>3
<1> QED BY <1>3, <1>5, <1>9, <1>12, <1>13

\* What was told stays told.
LEMMA StaysDelivered ==
    ASSUME StreamTypeOK, NEW p \in Places, Chunk(p[1], p[2]), NEW m, Delivered(m)
    PROVE  Delivered(m)'
<1>1. rode \subseteq rode'
  BY ChunkIs
<1>2. \A i \in DOMAIN shown : i \in DOMAIN shown' /\ shown'[i] = shown[i]
  <2>1. CASE shown' = shown
    BY <2>1
  <2>2. CASE shown' # shown
    <3>1. /\ DOMAIN shown' = 1..Len(shown) + 1 /\ DOMAIN shown = 1..Len(shown) /\ Len(shown) \in Nat
          /\ \A i \in 1..Len(shown) : shown'[i] = shown[i]
      BY <2>2, ShownThen
    <3> QED BY <3>1
  <2> QED BY <2>1, <2>2
<1> QED BY <1>1, <1>2 DEF Delivered, Silent

\* An answer that begins _buffer and is all there is told.
LEMMA DeliveredWhole ==
    ASSUME StreamTypeOK, NEW p \in Places, Chunk(p[1], p[2]), ~deaf, from = 0,
           EndOf(p[1], p[2]) = Data(msg), NEW m, m = msg, Op[m] # Quit
    PROVE  Delivered(m)' /\ from' = p[2] /\ deaf' = deaf /\ reading' = "on"
<1>1. PICK e \in Nat : e = EndOf(p[1], p[2])
  BY EndIs
<1>2. msg \in Answers /\ e = Data(msg)
  BY <1>1, EndIs
<1>3. e > Header(msg) /\ ~(e <= Header(msg)) /\ Packet(msg) <= e - from /\ from \in Nat /\ from < Digits(msg)
  BY <1>2, Sizes
<1>4. Complete(msg, from, e) /\ Command(msg, from, e)[1] = Op[msg]
  BY <1>2, <1>3, Parsed
<1>5. PICK op : op = Op[msg]
  OBVIOUS
<1>6. /\ from' = p[2] /\ deaf' = deaf
      /\ \/ /\ op \in Emits /\ reading' = reading
            /\ shown' = Append(shown, [msg |-> msg, op |-> op, miss |-> Data(msg) - e])
         \/ op # Quit /\ op \notin Emits /\ reading' = reading
  BY <1>1, <1>3, <1>4, <1>5, HandledIs
<1>7. reading' = "on"
  BY <1>6, ChunkIs
<1>8. CASE op \notin Emits /\ op # Quit
  <2>1. Delivered(m)'
    BY <1>5, <1>8 DEF Delivered, Silent
  <2> QED BY <1>6, <1>7, <2>1
<1>9. CASE /\ op \in Emits
           /\ shown' = Append(shown, [msg |-> msg, op |-> op, miss |-> Data(msg) - e])
  <2>1. Data(msg) - e \in Nat /\ Data(msg) - e = 0
    BY <1>2, Sizes
  <2>2. PICK x \in [msg: Answers, op: Emits, miss: Nat] : x = [msg |-> m, op |-> op, miss |-> 0]
    BY <1>2, <1>9, <2>1
  <2>3. shown' = Append(shown, x) /\ shown \in Seq([msg: Answers, op: Emits, miss: Nat])
    BY <1>9, <2>1, <2>2 DEF StreamTypeOK
  <2>4. DOMAIN shown' = 1..Len(shown) + 1 /\ Len(shown) \in Nat /\ shown'[Len(shown) + 1] = x
    BY <2>3, Appended
  <2>5. Len(shown) + 1 \in DOMAIN shown'
    BY <2>4
  <2>6. x = [msg |-> m, op |-> Op[m], miss |-> 0]
    BY <1>5, <2>2
  <2>7. Delivered(m)'
    BY <2>4, <2>5, <2>6 DEF Delivered
  <2> QED BY <1>6, <1>7, <2>7
<1> QED BY <1>6, <1>8, <1>9

LEMMA HarmlessChunk ==
    ASSUME StreamTypeOK, Harmless, NEW p \in Places, Chunk(p[1], p[2])
    PROVE  Harmless'
<1>1. PICK e \in Nat : e = EndOf(p[1], p[2])
  BY EndIs
<1>2. /\ msg \in Answers /\ msg \in 1..wrote /\ from \in Nat /\ off \in Nat /\ Data(msg) \in Nat
      /\ (p[1] = msg => p[2] > off) /\ e <= Data(msg)
  BY <1>1, EndIs
<1>3. /\ msg' = p[1] /\ off' = p[2] /\ wrote' = wrote /\ cut' = cut \cup Harm(p[1], p[2])
      /\ rode' = rode \cup Riding(p[1], p[2]) /\ reading = "on"
  BY ChunkIs
<1>4. /\ p[1] \in msg..wrote + 1 /\ p[2] \in Nat /\ wrote \in Nat /\ msg \in Nat /\ p[1] \in Nat
      /\ p[1] <= wrote => p[2] <= Data(p[1])
  BY PlaceIs, OpAssumption, ShownNumbers DEF StreamTypeOK
<1>5. Header(msg) = Digits(msg) + 10 /\ Digits(msg) \in {1, 2} /\ Header(msg) < Packet(msg)
      /\ Data(msg) = Packet(msg) + 2 /\ Packet(msg) \in Nat /\ Header(msg) \in Nat
  BY <1>2, Sizes
<1> SUFFICES ASSUME cut' = {}, \A m \in 1..wrote : Op[m] # Quit
             PROVE  /\ reading' = "on" /\ ~deaf'
                    /\ \/ from' = 0 /\ (p[2] = 0 \/ (Header(p[1]) < p[2] /\ p[2] < Packet(p[1])))
                       \/ from' = p[2] /\ p[2] = Data(p[1]) /\ Delivered(p[1])'
                    /\ \A m \in 1..p[1] - 1 : Delivered(m)'
  BY <1>3 DEF Harmless, NoQuit, Header, Packet, Data, Digits, Delivered, Silent
<1>6. cut = {} /\ Harm(p[1], p[2]) = {} /\ NoQuit /\ Op[msg] # Quit
  BY <1>2, <1>3 DEF NoQuit
<1>7. /\ ~deaf
      /\ \/ from = 0 /\ (off = 0 \/ (Header(msg) < off /\ off < Packet(msg)))
         \/ from = off /\ off = Data(msg) /\ Delivered(msg)
      /\ \A m \in 1..msg - 1 : Delivered(m)'
  BY <1>6, StaysDelivered DEF Harmless
<1>8. p[2] > 0 => /\ ~(p[2] <= Header(p[1])) /\ ~(p[2] >= Packet(p[1]) /\ p[2] < Data(p[1]))
                  /\ p[1] \notin Riding(p[1], p[2])
  BY <1>6 DEF Harm
<1>9. p[2] > 0 => p[1] = msg
  <2>1. p[2] > 0 /\ p[1] # msg => p[1] \in msg + 1..p[1]
    BY <1>4
  <2> QED BY <1>8, <2>1 DEF Riding
<1>10. CASE p[1] = msg
  <2>1. e = p[2] /\ p[2] > 0 /\ p[2] > Header(msg) /\ ~(p[2] >= Packet(msg) /\ p[2] < Data(msg)) /\ e <= Data(msg)
    BY <1>1, <1>2, <1>4, <1>5, <1>8, <1>10 DEF EndOf
  <2>2. from = 0
    BY <1>2, <1>7, <1>10, <2>1
  <2>3. CASE p[2] < Packet(msg)
    <3>1. ~Complete(msg, from, e)
      BY <1>2, <1>5, <2>1, <2>2, <2>3, Parsed
    <3>2. from' = from /\ deaf' = (deaf \/ (p[1] > msg /\ from < e)) /\ reading' = reading
      BY <1>1, <1>10, <3>1, KeptIs
    <3>3. ~deaf'
      <4>1. ~(p[1] > msg)
        BY <1>4, <1>10
      <4>2. ~deaf
        BY <1>7
      <4> QED BY <3>2, <4>1, <4>2, Zenon
    <3> QED BY <1>3, <1>7, <1>10, <2>1, <2>2, <2>3, <3>2, <3>3
  <2>4. CASE ~(p[2] < Packet(msg))
    <3>1. p[2] = Data(msg)
      BY <1>2, <1>4, <1>5, <2>1, <2>4
    <3>2. Delivered(p[1])' /\ from' = p[2] /\ deaf' = deaf /\ reading' = "on"
      BY <1>1, <1>6, <1>7, <1>10, <2>1, <2>2, <3>1, DeliveredWhole
    <3> QED BY <1>7, <1>10, <3>1, <3>2
  <2> QED BY <2>3, <2>4
<1>11. CASE p[1] # msg
  <2>1. PICK n : n = msg
    OBVIOUS
  <2>2. p[2] = 0 /\ e = Data(msg) /\ p[1] > msg
    BY <1>1, <1>4, <1>9, <1>11 DEF EndOf
  <2>3. \A m \in msg + 1..p[1] - 1 : Delivered(m)'
    <3>1. \A m \in msg + 1..p[1] - 1 : m \in msg + 1..p[1] /\ m < p[1]
      BY <1>4
    <3> QED BY <1>3, <3>1 DEF Riding, Delivered
  <2>4. Delivered(n)' /\ from' = 0 /\ ~deaf' /\ reading' = "on"
    <3>1. CASE from = 0
      BY <1>1, <1>6, <1>7, <2>1, <2>2, <3>1, DeliveredWhole
    <3>2. CASE from = Data(msg) /\ Delivered(msg)
      <4>1. ~Complete(msg, from, e)
        BY <1>2, <1>5, <2>2, <3>2, Parsed
      <4>2. from' = p[2] /\ deaf' = (deaf \/ (p[1] > msg /\ from < e)) /\ reading' = reading
        BY <1>1, <1>11, <4>1, KeptIs
      <4>3. ~(from < e)
        BY <1>2, <2>2, <3>2
      <4>4. Delivered(n)'
        BY <2>1, <3>2, StaysDelivered
      <4> QED BY <1>3, <1>7, <2>2, <4>2, <4>3, <4>4
    <3> QED BY <1>7, <3>1, <3>2
  <2>5. \A m \in 1..p[1] - 1 : m \in 1..msg - 1 \/ m = msg \/ m \in msg + 1..p[1] - 1
    BY <1>4
  <2> QED BY <1>7, <2>1, <2>2, <2>3, <2>4, <2>5
<1> QED BY <1>10, <1>11

-----------------------------------------------------------------------------
(* The theorems. *)

LEMMA SInvInit == Init => SInv
<1> SUFFICES ASSUME Init PROVE SInv
  OBVIOUS
<1>1. shown = <<>> /\ DOMAIN shown = {} /\ shown \in Seq([msg: Answers, op: Emits, miss: Nat])
  BY DEF Init
<1>2. StreamTypeOK
  <2>1. wrote \in 0..Len(Op) /\ msg \in 1..wrote + 1 /\ cuts \in 0..MaxCuts
    BY OpAssumption, MaxCutsAssumption DEF Init
  <2>2. ~(msg <= wrote) /\ off = 0 /\ from \in 0..off
    BY DEF Init
  <2>3. /\ deaf \in BOOLEAN /\ reading \in {"on", "stopped", "crashed"}
        /\ rode \subseteq Answers /\ cut \subseteq {"header", "tail", "dropped"}
    BY DEF Init
  <2>4. off \in Nat /\ (msg > wrote => off = 0) /\ (msg <= wrote => off <= Data(msg))
    BY <2>2
  <2> QED BY <1>1, <2>1, <2>2, <2>3, <2>4 DEF StreamTypeOK
<1>3. Behind /\ ShownInOrder /\ ShortByTwo /\ HeaderWhole /\ MisreadInHeader
  BY <1>1 DEF Init, Behind, ShownInOrder, ShortByTwo, HeaderWhole, MisreadInHeader
<1>4. Harmless
  <2>1. 1..msg - 1 = {}
    BY DEF Init
  <2> QED BY <2>1 DEF Init, Harmless
<1> QED BY <1>2, <1>3, <1>4 DEF SInv

LEMMA SInvWrite ==
    ASSUME SInv, Write
    PROVE  SInv'
<1>1. wrote < Len(Op) /\ wrote' = wrote + 1
      /\ UNCHANGED <<msg, off, from, deaf, reading, shown, rode, cuts, cut>>
  BY DEF Write
<1>2. wrote \in 0..Len(Op) /\ Len(Op) \in Nat /\ DOMAIN Op = 1..Len(Op) /\ msg \in 1..wrote + 1
  BY OpAssumption DEF SInv, StreamTypeOK
<1>3. StreamTypeOK'
  <2>1. wrote' \in 0..Len(Op) /\ msg \in 1..wrote' + 1 /\ (msg > wrote' => off = 0)
    BY <1>1, <1>2 DEF SInv, StreamTypeOK
  <2>2. msg <= wrote' => off <= Data(msg)
    <3>1. msg <= wrote' => msg \in Answers
      BY <1>1, <1>2 DEF Answers
    <3>2. msg <= wrote' => Data(msg) \in Nat
      BY <3>1, Sizes
    <3>3. msg <= wrote \/ msg > wrote
      BY <1>2
    <3>4. CASE msg <= wrote
      BY <3>4 DEF SInv, StreamTypeOK
    <3>5. CASE msg > wrote
      <4>1. off = 0
        BY <3>5 DEF SInv, StreamTypeOK
      <4> QED BY <3>2, <4>1
    <3> QED BY <3>3, <3>4, <3>5
  <2> QED BY <1>1, <2>1, <2>2 DEF SInv, StreamTypeOK, Data, Header, Digits
<1>4. Behind' /\ ShownInOrder' /\ ShortByTwo' /\ HeaderWhole'
  BY <1>1 DEF SInv, Behind, ShownInOrder, ShortByTwo, HeaderWhole, Header, Digits
<1>5. \A m \in 1..wrote : m \in 1..wrote'
  BY <1>1, <1>2
<1>6. MisreadInHeader' /\ Harmless'
  BY <1>1, <1>5 DEF SInv, MisreadInHeader, Harmless, NoQuit, Delivered, Silent, Header, Packet, Data, Digits
<1> QED BY <1>3, <1>4, <1>6 DEF SInv

LEMMA SInvNext == SInv /\ [Next]_stream => SInv'
<1> SUFFICES ASSUME SInv, [Next]_stream PROVE SInv'
  OBVIOUS
<1>1. CASE Write
  BY <1>1, SInvWrite
<1>2. ASSUME NEW p \in Places, Chunk(p[1], p[2]) PROVE SInv'
  BY <1>2, TypeChunk, OrderChunk, HeaderChunk, HarmlessChunk DEF SInv
<1>3. CASE UNCHANGED stream
  BY <1>3 DEF stream, SInv, StreamTypeOK, Behind, ShownInOrder, ShortByTwo, HeaderWhole, MisreadInHeader,
              Harmless, NoQuit, Delivered, Silent, Header, Packet, Data, Digits
<1> QED BY <1>1, <1>2, <1>3 DEF Next

\* The inductive invariant holds in every state.
THEOREM SInvAlways == Spec => []SInv
  BY SInvInit, SInvNext, PTL DEF Spec

\* The variables keep their types: what _buffer holds lies before the next byte.
THEOREM TypeAlways == Spec => []StreamTypeOK
<1>1. SInv => StreamTypeOK
  BY DEF SInv
<1> QED BY <1>1, SInvAlways, PTL

\* However an answer is cut, what is left of one that was shown never parses.
THEOREM OrderAlways == Spec => []ShownInOrder
<1>1. SInv => ShownInOrder
  BY DEF SInv
<1> QED BY <1>1, SInvAlways, PTL

\* What is shown has its header whole, and so is complete but for the two bytes
\* that _packetSize leaves out.
THEOREM ShortAlways == Spec => []ShortByTwo
<1>1. SInv => ShortByTwo
  BY DEF SInv
<1> QED BY <1>1, SInvAlways, PTL

\* The client misreads an answer, or ends, only after a chunk that ended in a header.
THEOREM MisreadAlways == Spec => []MisreadInHeader
<1>1. SInv => MisreadInHeader
  BY DEF SInv
<1> QED BY <1>1, SInvAlways, PTL

\* While chunks end where they do no harm, every answer reaches the window.
THEOREM HeardAlways == Spec => []Heard
<1>1. SInv => Heard
  BY DEF SInv, Harmless, NoQuit, Delivered, Heard
<1> QED BY <1>1, SInvAlways, PTL

-----------------------------------------------------------------------------
(* The table of users: the inductive invariant. *)

Quitting(u) == \E w \in Workers : task[w] = [kind |-> "quit", user |-> u]

\* The last event about u that the window has not consumed.
LastIs(u, e) == \E i \in DOMAIN channel :
    /\ channel[i] = [user |-> u, event |-> e]
    /\ \A j \in DOMAIN channel : j > i => channel[j].user # u

Lists == UNION {[us -> BOOLEAN] : us \in SUBSET Users}

FeedTypeOK ==
    /\ seat \in [Users -> BOOLEAN]
    /\ task \in [Workers -> {Idle} \cup [kind: {"login", "quit"}, user: Users]]
    /\ channel \in Seq([user: Users, event: {"login", "quit"}])
    /\ DOMAIN list \subseteq Users
    /\ answer = [m \in Answers |-> answer[m]]
    /\ \A m \in Answers : DOMAIN answer[m] \subseteq Users
    /\ DOMAIN row \subseteq Users
    /\ late \in [Answers -> SUBSET Users]
    /\ doubt \subseteq Users

\* Nobody else is at the seat of a user about whom there is no doubt.
AloneAt(u) == u \notin doubt =>
    \A w, x \in Workers :
        task[w] # Idle /\ task[x] # Idle /\ task[w].user = u /\ task[x].user = u => w = x

\* What the events on their way end with is what the seat is, or is to be.
EventsOK(u) == u \notin doubt =>
    /\ Quitting(u) => ~seat[u]
    /\ Told(u) /\ LoggingIn(u) => LastIs(u, "login")
    /\ Told(u) /\ ~Busy(u) => LastIs(u, IF seat[u] THEN "login" ELSE "quit")

\* So is the row, when no events are on their way.
RowOK(u) == u \in DOMAIN row /\ u \notin doubt /\ ~Told(u) =>
    /\ LoggingIn(u) => row[u] = TRUE
    /\ ~Busy(u) => row[u] = seat[u]

\* The list in answer m, or in the one that is being made.
Held(m) == IF m <= wrote THEN answer[m] ELSE list

\* A list on its way tells the seat of those about whom nothing is under way.
ListOK(m, u) == m \in OnTheWay(u) /\ u \notin late[m] =>
    /\ LoggingIn(u) => Told(u)
    /\ Quiet(u) => Held(m)[u] = seat[u]

UserOK(u) == AloneAt(u) /\ EventsOK(u) /\ RowOK(u) /\ \A m \in Answers : ListOK(m, u)

TableInv == FeedTypeOK /\ \A u \in Users : UserOK(u)

-----------------------------------------------------------------------------
(* What each step changes for one user. *)

LEMMA TaskIs ==
    ASSUME FeedTypeOK, NEW w \in Workers
    PROVE  \/ task[w] = Idle
           \/ \E u \in Users : task[w] = [kind |-> "login", user |-> u]
           \/ \E u \in Users : task[w] = [kind |-> "quit", user |-> u]
<1>1. \/ task[w] = Idle
      \/ task[w] \in [kind: {"login", "quit"}, user: Users]
  BY DEF FeedTypeOK
<1>2. ASSUME task[w] \in [kind: {"login", "quit"}, user: Users]
      PROVE  \E u \in Users : \/ task[w] = [kind |-> "login", user |-> u]
                             \/ task[w] = [kind |-> "quit", user |-> u]
  <2>1. \/ task[w] = [kind |-> "login", user |-> task[w].user]
        \/ task[w] = [kind |-> "quit", user |-> task[w].user]
    BY <1>2
  <2>2. task[w].user \in Users
    BY <1>2
  <2> QED BY <2>1, <2>2
<1> QED BY <1>1, <1>2

LEMMA BusyIs ==
    ASSUME FeedTypeOK, NEW u \in Users
    PROVE  Busy(u) <=> LoggingIn(u) \/ Quitting(u)
<1>1. ASSUME Busy(u) PROVE LoggingIn(u) \/ Quitting(u)
  <2>1. PICK w \in Workers : task[w] # Idle /\ task[w].user = u
    BY <1>1 DEF Busy
  <2>2. PICK v \in Users : \/ task[w] = [kind |-> "login", user |-> v]
                            \/ task[w] = [kind |-> "quit", user |-> v]
    BY <2>1, TaskIs
  <2>3. v = u
    BY <2>1, <2>2
  <2> QED BY <2>2, <2>3 DEF LoggingIn, Quitting
<1>2. ASSUME LoggingIn(u) \/ Quitting(u) PROVE Busy(u)
  <2>1. PICK w \in Workers : \/ task[w] = [kind |-> "login", user |-> u]
                             \/ task[w] = [kind |-> "quit", user |-> u]
    BY <1>2 DEF LoggingIn, Quitting
  <2>2. task[w] # Idle /\ task[w].user = u
    BY <2>1, SMT DEF Idle
  <2> QED BY <2>2 DEF Busy
<1> QED BY <1>1, <1>2

\* Nothing changes for v but, perhaps, that there is more doubt.
Same(v) ==
    /\ Told(v)' <=> Told(v)
    /\ \A e : LastIs(v, e) => LastIs(v, e)'
    /\ \A w \in Workers :
          \/ task'[w] = task[w]
          \/ /\ task'[w] = Idle \/ task'[w].user # v
             /\ task[w] = Idle \/ task[w].user # v
    /\ seat'[v] = seat[v]
    /\ v \in doubt => v \in doubt'

SameRow(v) == v \in DOMAIN row' => v \in DOMAIN row /\ row'[v] = row[v]

SameList(m, v) ==
    /\ m \in OnTheWay(v)' => m \in OnTheWay(v)
    /\ m \in OnTheWay(v) => v \in late[m] \/ Held(m)'[v] = Held(m)[v]
    /\ v \in late[m] => v \in late'[m]

LEMMA SameTasks ==
    ASSUME FeedTypeOK, FeedTypeOK', NEW v \in Users, Same(v)
    PROVE  /\ LoggingIn(v)' <=> LoggingIn(v)
           /\ Quitting(v)' <=> Quitting(v)
           /\ Busy(v)' <=> Busy(v)
           /\ AloneAt(v) => AloneAt(v)'
<1>1. LoggingIn(v)' <=> LoggingIn(v)
  BY SMT DEF Same, LoggingIn, Idle
<1>2. Quitting(v)' <=> Quitting(v)
  BY SMT DEF Same, Quitting, Idle
<1>3. Busy(v)' <=> Busy(v)
  BY SMT DEF Same, Busy
<1>4. AloneAt(v) => AloneAt(v)'
  BY SMT DEF Same, AloneAt
<1> QED BY <1>1, <1>2, <1>3, <1>4

LEMMA SameKeeps ==
    ASSUME FeedTypeOK, FeedTypeOK', NEW v \in Users, Same(v), UserOK(v),
           SameRow(v), \A m \in Answers : SameList(m, v)
    PROVE  UserOK(v)'
<1>1. /\ LoggingIn(v)' <=> LoggingIn(v)
      /\ Quitting(v)' <=> Quitting(v)
      /\ Busy(v)' <=> Busy(v)
      /\ AloneAt(v)'
  BY SameTasks DEF UserOK
<1>2. EventsOK(v)'
  BY <1>1 DEF UserOK, EventsOK, Same
<1>3. RowOK(v)'
  BY <1>1 DEF UserOK, RowOK, Same, SameRow
<1>4. ASSUME NEW m \in Answers PROVE ListOK(m, v)'
  BY <1>1 DEF UserOK, ListOK, SameList, Same, Quiet
<1> QED BY <1>1, <1>2, <1>3, <1>4 DEF UserOK

LEMMA Published ==
    ASSUME FeedTypeOK, NEW u \in Users, NEW e \in {"login", "quit"}, Publish(u, e)
    PROVE  /\ Told(u)' /\ LastIs(u, e)'
           /\ \A v \in Users \ {u} : /\ Told(v)' <=> Told(v)
                                     /\ \A f : LastIs(v, f) => LastIs(v, f)'
           /\ channel' \in Seq([user: Users, event: {"login", "quit"}])
<1> DEFINE new == [user |-> u, event |-> e]
<1>1. /\ channel' = Append(channel, new)
      /\ channel \in Seq([user: Users, event: {"login", "quit"}])
      /\ new \in [user: Users, event: {"login", "quit"}]
  BY DEF Publish, FeedTypeOK
<1>2. /\ Len(channel') = Len(channel) + 1
      /\ \A i \in 1..Len(channel) : channel'[i] = channel[i]
      /\ channel'[Len(channel) + 1] = new
      /\ channel' \in Seq([user: Users, event: {"login", "quit"}])
      /\ Len(channel) \in Nat
  BY <1>1, AppendProperties, LenProperties
<1>3. DOMAIN channel = 1..Len(channel) /\ DOMAIN channel' = 1..Len(channel) + 1
  BY <1>1, <1>2, LenProperties
<1>4. LastIs(u, e)'
  BY <1>2, <1>3, SMT DEF LastIs
<1>5. Told(u)'
  BY <1>2, <1>3, SMT DEF Told
<1>6. ASSUME NEW v \in Users \ {u} PROVE Told(v)' <=> Told(v)
  BY <1>2, <1>3, SMT DEF Told
<1>7. ASSUME NEW v \in Users \ {u}, NEW f, LastIs(v, f) PROVE LastIs(v, f)'
  BY <1>2, <1>3, <1>7, SMT DEF LastIs
<1> QED BY <1>2, <1>4, <1>5, <1>6, <1>7

LEMMA Consumed ==
    ASSUME FeedTypeOK, channel # <<>>, channel' = Tail(channel)
    PROVE  /\ Head(channel).user \in Users
           /\ \A v \in Users : Told(v)' => Told(v)
           /\ \A v \in Users : \A f : Told(v)' /\ LastIs(v, f) => LastIs(v, f)'
           /\ \A v \in Users : \A f : ~Told(v)' /\ LastIs(v, f) =>
                 Head(channel) = [user |-> v, event |-> f]
           /\ \A v \in Users \ {Head(channel).user} :
                 /\ Told(v)' <=> Told(v)
                 /\ \A f : LastIs(v, f) => LastIs(v, f)'
           /\ channel' \in Seq([user: Users, event: {"login", "quit"}])
           /\ Told(Head(channel).user)
<1> DEFINE Msg == [user: Users, event: {"login", "quit"}]
<1>1. channel \in Seq(Msg)
  BY DEF FeedTypeOK
<1>2. /\ channel' \in Seq(Msg) /\ Head(channel) = channel[1] /\ Head(channel) \in Msg
      /\ Len(channel') = Len(channel) - 1
      /\ \A i \in 1..Len(channel) - 1 : channel'[i] = channel[i + 1]
  <2> HIDE DEF Msg
  <2>1. /\ Head(channel) \in Msg /\ Tail(channel) \in Seq(Msg)
        /\ Len(Tail(channel)) = Len(channel) - 1
        /\ \A i \in 1..Len(Tail(channel)) : Tail(channel)[i] = channel[i + 1]
    BY <1>1, HeadTailProperties
  <2> QED BY <2>1
<1>3. /\ Len(channel) \in Nat \ {0} /\ DOMAIN channel = 1..Len(channel)
      /\ DOMAIN channel' = 1..Len(channel) - 1
  BY <1>1, <1>2, LenProperties, EmptySeq, SMT
<1>4. ASSUME NEW v \in Users, Told(v)' PROVE Told(v)
  BY <1>2, <1>3, <1>4, SMT DEF Told
<1>5. ASSUME NEW v \in Users, NEW f, Told(v)', LastIs(v, f) PROVE LastIs(v, f)'
  <2>1. PICK i \in DOMAIN channel : /\ channel[i] = [user |-> v, event |-> f]
                                    /\ \A j \in DOMAIN channel : j > i => channel[j].user # v
    BY <1>5 DEF LastIs
  <2>2. PICK k \in DOMAIN channel' : channel'[k].user = v
    BY <1>5 DEF Told
  <2>3. k + 1 \in DOMAIN channel /\ channel[k + 1].user = v
    BY <2>2, <1>2, <1>3, SMT
  <2>4. i >= k + 1 /\ i - 1 \in DOMAIN channel'
    BY <2>1, <2>2, <2>3, <1>3, SMT
  <2>5. channel'[i - 1] = channel[i]
    BY <2>4, <1>2, <1>3, SMT
  <2>6. \A j \in DOMAIN channel' : j > i - 1 => channel'[j].user # v
    BY <2>1, <2>4, <1>2, <1>3, SMT
  <2> QED BY <2>1, <2>4, <2>5, <2>6 DEF LastIs
<1>6. ASSUME NEW v \in Users, NEW f, ~Told(v)', LastIs(v, f)
      PROVE  Head(channel) = [user |-> v, event |-> f]
  <2>1. PICK i \in DOMAIN channel : channel[i] = [user |-> v, event |-> f]
    BY <1>6 DEF LastIs
  <2>2. i = 1
    <3>1. SUFFICES ASSUME i # 1 PROVE FALSE
      OBVIOUS
    <3>2. i - 1 \in DOMAIN channel' /\ channel'[i - 1] = channel[i]
      BY <3>1, <1>2, <1>3, SMT
    <3>3. channel[i].user = v
      BY <2>1
    <3> QED BY <3>2, <3>3, <1>6 DEF Told
  <2> QED BY <2>1, <2>2, <1>2
<1>7. ASSUME NEW v \in Users \ {Head(channel).user}, Told(v) PROVE Told(v)'
  <2>1. PICK i \in DOMAIN channel : channel[i].user = v
    BY <1>7 DEF Told
  <2>2. i # 1
    BY <2>1, <1>2
  <2>3. i - 1 \in DOMAIN channel' /\ channel'[i - 1] = channel[i]
    BY <2>2, <1>2, <1>3, SMT
  <2> QED BY <2>1, <2>3 DEF Told
<1>8. ASSUME NEW v \in Users, NEW f, LastIs(v, f) PROVE Told(v)
  <2>1. PICK i \in DOMAIN channel : channel[i] = [user |-> v, event |-> f]
    BY <1>8 DEF LastIs
  <2>2. channel[i].user = v
    BY <2>1
  <2> QED BY <2>2 DEF Told
<1>9. \A v \in Users \ {Head(channel).user} :
         (Told(v)' <=> Told(v)) /\ \A f : LastIs(v, f) => LastIs(v, f)'
  BY <1>4, <1>5, <1>7, <1>8
<1>10. Told(Head(channel).user)
  BY <1>2, <1>3, SMT DEF Told
<1> QED BY <1>2, <1>4, <1>5, <1>6, <1>9, <1>10

LEMMA LateIs ==
    ASSUME FeedTypeOK, NEW us \in SUBSET Users, Late(us)
    PROVE  /\ late' \in [Answers -> SUBSET Users]
           /\ \A m \in Answers : late[m] \subseteq late'[m]
           /\ \A m \in Answers, u \in us : m \in OnTheWay(u) => u \in late'[m]
<1>1. CASE us = {}
  BY <1>1 DEF Late, FeedTypeOK
<1>2. CASE us # {}
  BY <1>2 DEF Late, FeedTypeOK
<1> QED BY <1>1, <1>2

LEMMA DoubtIs ==
    ASSUME FeedTypeOK, NEW us \in SUBSET Users, Doubt(us)
    PROVE  /\ late' \in [Answers -> SUBSET Users]
           /\ \A m \in Answers : late[m] \subseteq late'[m]
           /\ \A m \in Answers, u \in us : m \in OnTheWay(u) => u \in late'[m]
           /\ doubt \subseteq doubt' /\ us \subseteq doubt' /\ doubt' \subseteq Users
  BY LateIs DEF Doubt, FeedTypeOK

-----------------------------------------------------------------------------
(* The steps. *)

LEMMA InitTable == WInit => TableInv
<1> SUFFICES ASSUME WInit PROVE TableInv
  OBVIOUS
<1>1. /\ \A w \in Workers : task[w] = Idle
      /\ DOMAIN channel = {} /\ DOMAIN list = {} /\ DOMAIN row = {}
      /\ \A m \in Answers : answer[m] = <<>> /\ late[m] = {}
      /\ wrote = 0
  BY DEF WInit, Init
<1>2. FeedTypeOK
  BY <1>1 DEF WInit, FeedTypeOK
<1>3. ASSUME NEW u \in Users PROVE UserOK(u)
  <2>1. ~LoggingIn(u) /\ ~Quitting(u) /\ ~Told(u)
    BY <1>1, SMT DEF LoggingIn, Quitting, Told, Idle
  <2>2. ASSUME NEW m \in Answers PROVE m \notin OnTheWay(u)
    BY <1>1, OpAssumption DEF OnTheWay, Answers
  <2> QED BY <1>1, <2>1, <2>2 DEF UserOK, AloneAt, EventsOK, RowOK, ListOK
<1> QED BY <1>2, <1>3 DEF TableInv

\* The stream and the list that is being made stay: so do the lists on their way.
LEMMA SameLists ==
    ASSUME FeedTypeOK, NEW v \in Users, UNCHANGED <<stream, list, answer>>
    PROVE  /\ OnTheWay(v)' = OnTheWay(v)
           /\ \A m : Held(m)' = Held(m)
  BY DEF stream, OnTheWay, Held

LEMMA OverlapIs ==
    ASSUME NEW u \in Users
    PROVE  /\ Overlap(u) \in SUBSET Users
           /\ Busy(u) => u \in Overlap(u)
  BY DEF Overlap

LEMMA LoginEventTable ==
    ASSUME TableInv, NEW w \in Workers, NEW u \in Users, LoginEvent(w, u)
    PROVE  TableInv'
<1>1. /\ task[w] = Idle /\ Publish(u, "login") /\ Doubt(Overlap(u))
      /\ task' = [task EXCEPT ![w] = [kind |-> "login", user |-> u]]
      /\ UNCHANGED <<stream, seat, list, answer, row>>
  BY DEF LoginEvent
<1>2. FeedTypeOK /\ \A v \in Users : UserOK(v)
  BY DEF TableInv
<1>3. /\ late' \in [Answers -> SUBSET Users]
      /\ \A m \in Answers : late[m] \subseteq late'[m]
      /\ \A m \in Answers, v \in Overlap(u) : m \in OnTheWay(v) => v \in late'[m]
      /\ doubt \subseteq doubt' /\ Overlap(u) \subseteq doubt' /\ doubt' \subseteq Users
  BY <1>1, <1>2, DoubtIs, OverlapIs
<1>4. /\ Told(u)' /\ LastIs(u, "login")'
      /\ \A v \in Users \ {u} : /\ Told(v)' <=> Told(v)
                                /\ \A f : LastIs(v, f) => LastIs(v, f)'
      /\ channel' \in Seq([user: Users, event: {"login", "quit"}])
  BY <1>1, <1>2, Published
<1>5. /\ task'[w] = [kind |-> "login", user |-> u]
      /\ \A x \in Workers \ {w} : task'[x] = task[x]
      /\ task' \in [Workers -> {Idle} \cup [kind: {"login", "quit"}, user: Users]]
  BY <1>1, <1>2 DEF FeedTypeOK
<1>6. FeedTypeOK'
  BY <1>1, <1>2, <1>3, <1>4, <1>5 DEF FeedTypeOK
<1>7. ASSUME NEW v \in Users \ {u} PROVE UserOK(v)'
  <2>1. task[w] = Idle /\ task'[w].user # v
    BY <1>1, <1>5
  <2>2. Same(v)
    BY <1>1, <1>3, <1>4, <1>5, <2>1 DEF Same
  <2>3. SameRow(v) /\ \A m \in Answers : SameList(m, v)
    BY <1>1, <1>2, <1>3, SameLists DEF SameRow, SameList
  <2> QED BY <1>2, <1>6, <2>2, <2>3, SameKeeps
<1>8. UserOK(u)'
  <2>1. LoggingIn(u)' /\ Busy(u)'
    <3>1. LoggingIn(u)'
      BY <1>5 DEF LoggingIn
    <3> QED BY <3>1, <1>6, BusyIs DEF LoggingIn, Busy, Quitting, FeedTypeOK, Idle
  <2>2. u \notin doubt' => ~Busy(u)
    BY <1>3, OverlapIs
  <2>3. u \notin doubt' => AloneAt(u)' /\ ~Quitting(u)'
    BY <2>2, <1>5, SMT DEF Busy, AloneAt, Quitting, Idle
  <2>4. AloneAt(u)'
    BY <2>3 DEF AloneAt
  <2>5. EventsOK(u)'
    BY <2>1, <2>3, <1>4 DEF EventsOK
  <2>6. RowOK(u)'
    BY <1>4 DEF RowOK
  <2>7. ASSUME NEW m \in Answers PROVE ListOK(m, u)'
    BY <1>4, <2>1 DEF ListOK, Quiet
  <2> QED BY <2>4, <2>5, <2>6, <2>7 DEF UserOK
<1> QED BY <1>6, <1>7, <1>8 DEF TableInv

LEMMA CreateSessionTable ==
    ASSUME TableInv, NEW w \in Workers, CreateSession(w)
    PROVE  TableInv'
<1>2. FeedTypeOK /\ \A v \in Users : UserOK(v)
  BY DEF TableInv
<1>3. PICK u \in Users : task[w] = [kind |-> "login", user |-> u]
  <2>1. task[w].kind = "login"
    BY DEF CreateSession
  <2>2. task[w] # Idle
    BY <2>1 DEF Idle
  <2>3. ASSUME NEW v \in Users, task[w] = [kind |-> "quit", user |-> v] PROVE FALSE
    BY <2>1, <2>3
  <2> QED BY <2>2, <2>3, <1>2, TaskIs
<1>1. /\ task[w].kind = "login"
      /\ \/ seat' = [seat EXCEPT ![u] = TRUE] /\ Doubt({})
         \/ seat' = seat /\ Doubt(IF seat[u] THEN {} ELSE {u})
      /\ task' = [task EXCEPT ![w] = Idle]
      /\ UNCHANGED <<stream, channel, list, answer, row>>
  BY <1>3 DEF CreateSession
<1>4. PICK us \in SUBSET Users : /\ Doubt(us)
                                /\ \/ seat' = [seat EXCEPT ![u] = TRUE]
                                   \/ seat' = seat /\ (seat[u] \/ u \in us)
  <2>1. CASE seat' = [seat EXCEPT ![u] = TRUE] /\ Doubt({})
    BY <2>1
  <2>2. CASE seat' = seat /\ Doubt(IF seat[u] THEN {} ELSE {u})
    <3>1. CASE seat[u]
      BY <2>2, <3>1
    <3>2. CASE ~seat[u]
      BY <2>2, <3>2, <1>3
    <3> QED BY <3>1, <3>2
  <2> QED BY <1>1, <2>1, <2>2
<1>5. /\ late' \in [Answers -> SUBSET Users]
      /\ \A m \in Answers : late[m] \subseteq late'[m]
      /\ doubt \subseteq doubt' /\ us \subseteq doubt' /\ doubt' \subseteq Users
  BY <1>4, <1>2, DoubtIs
<1>6. /\ task'[w] = Idle
      /\ \A x \in Workers \ {w} : task'[x] = task[x]
      /\ task' \in [Workers -> {Idle} \cup [kind: {"login", "quit"}, user: Users]]
  BY <1>1, <1>2 DEF FeedTypeOK
<1>7. /\ seat' \in [Users -> BOOLEAN]
      /\ \A v \in Users \ {u} : seat'[v] = seat[v]
      /\ u \notin doubt' => seat'[u]
  BY <1>2, <1>3, <1>4, <1>5 DEF FeedTypeOK
<1>8. FeedTypeOK'
  BY <1>1, <1>2, <1>5, <1>6, <1>7 DEF FeedTypeOK
<1>9. \A v : /\ Told(v)' <=> Told(v)
             /\ \A f : LastIs(v, f)' <=> LastIs(v, f)
  BY <1>1 DEF Told, LastIs
<1>10. ASSUME NEW v \in Users \ {u} PROVE UserOK(v)'
  <2>1. task'[w] = Idle /\ task[w].user # v
    BY <1>3, <1>6
  <2>2. Same(v)
    BY <1>5, <1>6, <1>7, <1>9, <2>1 DEF Same
  <2>3. SameRow(v) /\ \A m \in Answers : SameList(m, v)
    BY <1>1, <1>2, <1>5, SameLists DEF SameRow, SameList
  <2> QED BY <1>2, <1>8, <2>2, <2>3, SameKeeps
<1>11. UserOK(u)'
  <2>1. LoggingIn(u) /\ task[w] # Idle
    BY <1>3, SMT DEF LoggingIn, Idle
  <2>2. AloneAt(u)'
    BY <1>2, <1>3, <1>5, <1>6 DEF UserOK, AloneAt
  <2>3. u \notin doubt' => ~Busy(u)'
    BY <1>2, <1>3, <1>5, <1>6, <2>1 DEF UserOK, AloneAt, Busy
  <2>4. ~Busy(u)' => ~LoggingIn(u)' /\ ~Quitting(u)'
    BY <1>3, <1>8, BusyIs DEF LoggingIn, Busy, Quitting, FeedTypeOK, Idle
  <2>5. EventsOK(u)'
    BY <1>2, <1>3, <1>5, <1>7, <1>9, <2>1, <2>3, <2>4 DEF UserOK, EventsOK
  <2>6. RowOK(u)'
    BY <1>1, <1>2, <1>3, <1>5, <1>7, <1>9, <2>1, <2>3, <2>4 DEF UserOK, RowOK
  <2>7. ASSUME NEW m \in Answers PROVE ListOK(m, u)'
    <3>1. m \in OnTheWay(u)' /\ u \notin late'[m] => Told(u)
      BY <1>1, <1>2, <1>3, <1>5, <2>1, SameLists DEF UserOK, ListOK
    <3> QED BY <3>1, <1>9 DEF ListOK, Quiet
  <2> QED BY <2>2, <2>5, <2>6, <2>7 DEF UserOK
<1> QED BY <1>8, <1>10, <1>11 DEF TableInv

LEMMA DeleteSessionTable ==
    ASSUME TableInv, NEW w \in Workers, NEW u \in Users, DeleteSession(w, u)
    PROVE  TableInv'
<1>1. /\ task[w] = Idle /\ Doubt(Overlap(u))
      /\ seat' = [seat EXCEPT ![u] = FALSE]
      /\ task' = [task EXCEPT ![w] = [kind |-> "quit", user |-> u]]
      /\ UNCHANGED <<stream, channel, list, answer, row>>
  BY DEF DeleteSession
<1>2. FeedTypeOK /\ \A v \in Users : UserOK(v)
  BY DEF TableInv
<1>3. /\ late' \in [Answers -> SUBSET Users]
      /\ \A m \in Answers : late[m] \subseteq late'[m]
      /\ \A m \in Answers, v \in Overlap(u) : m \in OnTheWay(v) => v \in late'[m]
      /\ doubt \subseteq doubt' /\ Overlap(u) \subseteq doubt' /\ doubt' \subseteq Users
  BY <1>1, <1>2, DoubtIs, OverlapIs
<1>4. \A v : /\ Told(v)' <=> Told(v)
             /\ \A f : LastIs(v, f)' <=> LastIs(v, f)
  BY <1>1 DEF Told, LastIs
<1>5. /\ task'[w] = [kind |-> "quit", user |-> u]
      /\ \A x \in Workers \ {w} : task'[x] = task[x]
      /\ task' \in [Workers -> {Idle} \cup [kind: {"login", "quit"}, user: Users]]
      /\ seat' \in [Users -> BOOLEAN] /\ ~seat'[u]
      /\ \A v \in Users \ {u} : seat'[v] = seat[v]
  BY <1>1, <1>2 DEF FeedTypeOK
<1>6. FeedTypeOK'
  BY <1>1, <1>2, <1>3, <1>5 DEF FeedTypeOK
<1>7. ASSUME NEW v \in Users \ {u} PROVE UserOK(v)'
  <2>1. task[w] = Idle /\ task'[w].user # v
    BY <1>1, <1>5
  <2>2. Same(v)
    BY <1>1, <1>3, <1>4, <1>5, <2>1 DEF Same
  <2>3. SameRow(v) /\ \A m \in Answers : SameList(m, v)
    BY <1>1, <1>2, <1>3, SameLists DEF SameRow, SameList
  <2> QED BY <1>2, <1>6, <2>2, <2>3, SameKeeps
<1>8. UserOK(u)'
  <2>1. Busy(u)'
    <3>1. Quitting(u)'
      BY <1>5 DEF Quitting
    <3> QED BY <3>1, <1>6, BusyIs DEF LoggingIn, Busy, Quitting, FeedTypeOK, Idle
  <2>2. u \notin doubt' => ~Busy(u)
    BY <1>3, OverlapIs
  <2>3. u \notin doubt' => AloneAt(u)' /\ ~LoggingIn(u)'
    BY <2>2, <1>5, SMT DEF Busy, AloneAt, LoggingIn, Idle
  <2>4. AloneAt(u)'
    BY <2>3 DEF AloneAt
  <2>5. EventsOK(u)'
    BY <2>1, <2>3, <1>5 DEF EventsOK
  <2>6. RowOK(u)'
    BY <2>1, <2>3 DEF RowOK
  <2>7. ASSUME NEW m \in Answers PROVE ListOK(m, u)'
    <3>1. SUFFICES ASSUME m \in OnTheWay(u)', u \notin late'[m], LoggingIn(u)'
                   PROVE  Told(u)'
      BY <2>1 DEF ListOK, Quiet
    <3>2. LoggingIn(u)
      BY <3>1, <1>5 DEF LoggingIn
    <3>3. u \notin late[m] /\ m \in OnTheWay(u)
      BY <3>1, <1>1, <1>2, <1>3, SameLists
    <3> QED BY <3>2, <3>3, <1>2, <1>4 DEF UserOK, ListOK
  <2> QED BY <2>4, <2>5, <2>6, <2>7 DEF UserOK
<1> QED BY <1>6, <1>7, <1>8 DEF TableInv

LEMMA QuitEventTable ==
    ASSUME TableInv, NEW w \in Workers, QuitEvent(w)
    PROVE  TableInv'
<1>1. FeedTypeOK /\ \A v \in Users : UserOK(v)
  BY DEF TableInv
<1>2. PICK u \in Users : task[w] = [kind |-> "quit", user |-> u]
  <2>1. task[w].kind = "quit"
    BY DEF QuitEvent
  <2>2. task[w] # Idle
    BY <2>1 DEF Idle
  <2>3. ASSUME NEW v \in Users, task[w] = [kind |-> "login", user |-> v] PROVE FALSE
    BY <2>1, <2>3
  <2> QED BY <2>2, <2>3, <1>1, TaskIs
<1>3. /\ Publish(u, "quit") /\ task' = [task EXCEPT ![w] = Idle]
      /\ UNCHANGED <<stream, seat, list, answer, row, late, doubt>>
  BY <1>2 DEF QuitEvent
<1>4. /\ Told(u)' /\ LastIs(u, "quit")'
      /\ \A v \in Users \ {u} : /\ Told(v)' <=> Told(v)
                                /\ \A f : LastIs(v, f) => LastIs(v, f)'
      /\ channel' \in Seq([user: Users, event: {"login", "quit"}])
  BY <1>1, <1>3, Published
<1>5. /\ task'[w] = Idle
      /\ \A x \in Workers \ {w} : task'[x] = task[x]
      /\ task' \in [Workers -> {Idle} \cup [kind: {"login", "quit"}, user: Users]]
  BY <1>1, <1>3 DEF FeedTypeOK
<1>6. FeedTypeOK'
  BY <1>1, <1>3, <1>4, <1>5 DEF FeedTypeOK
<1>7. ASSUME NEW v \in Users \ {u} PROVE UserOK(v)'
  <2>1. task'[w] = Idle /\ task[w].user # v
    BY <1>2, <1>5
  <2>2. Same(v)
    BY <1>3, <1>4, <1>5, <2>1 DEF Same
  <2>3. SameRow(v) /\ \A m \in Answers : SameList(m, v)
    BY <1>1, <1>3, SameLists DEF SameRow, SameList
  <2> QED BY <1>1, <1>6, <2>2, <2>3, SameKeeps
<1>8. UserOK(u)'
  <2>1. Quitting(u) /\ task[w] # Idle
    BY <1>2, SMT DEF Quitting, Idle
  <2>2. AloneAt(u)'
    BY <1>1, <1>2, <1>3, <1>5 DEF UserOK, AloneAt
  <2>3. u \notin doubt' => ~Busy(u)'
    BY <1>1, <1>2, <1>3, <1>5, <2>1 DEF UserOK, AloneAt, Busy
  <2>4. ~Busy(u)' => ~LoggingIn(u)' /\ ~Quitting(u)'
    BY <1>2, <1>6, BusyIs DEF LoggingIn, Busy, Quitting, FeedTypeOK, Idle
  <2>5. u \notin doubt' => ~seat'[u]
    BY <1>1, <1>3, <2>1 DEF UserOK, EventsOK
  <2>6. EventsOK(u)'
    BY <1>4, <2>3, <2>4, <2>5 DEF EventsOK
  <2>7. RowOK(u)' /\ \A m \in Answers : ListOK(m, u)'
    BY <1>4 DEF RowOK, ListOK, Quiet
  <2> QED BY <2>2, <2>6, <2>7 DEF UserOK
<1> QED BY <1>6, <1>7, <1>8 DEF TableInv

LEMMA UntoldTable ==
    ASSUME TableInv, NEW u \in Users, Untold(u)
    PROVE  TableInv'
<1>1. /\ Doubt({u}) /\ seat' = [seat EXCEPT ![u] = ~seat[u]]
      /\ UNCHANGED <<stream, task, channel, list, answer, row>>
  BY DEF Untold
<1>2. FeedTypeOK /\ \A v \in Users : UserOK(v)
  BY DEF TableInv
<1>3. /\ late' \in [Answers -> SUBSET Users]
      /\ \A m \in Answers : late[m] \subseteq late'[m]
      /\ \A m \in Answers : m \in OnTheWay(u) => u \in late'[m]
      /\ doubt \subseteq doubt' /\ u \in doubt' /\ doubt' \subseteq Users
  BY <1>1, <1>2, DoubtIs
<1>4. \A v : /\ Told(v)' <=> Told(v)
             /\ \A f : LastIs(v, f)' <=> LastIs(v, f)
  BY <1>1 DEF Told, LastIs
<1>5. /\ seat' \in [Users -> BOOLEAN]
      /\ \A v \in Users \ {u} : seat'[v] = seat[v]
  BY <1>1, <1>2 DEF FeedTypeOK
<1>6. FeedTypeOK'
  BY <1>1, <1>2, <1>3, <1>5 DEF FeedTypeOK
<1>7. ASSUME NEW v \in Users \ {u} PROVE UserOK(v)'
  <2>1. Same(v)
    BY <1>1, <1>3, <1>4, <1>5 DEF Same
  <2>2. SameRow(v) /\ \A m \in Answers : SameList(m, v)
    BY <1>1, <1>2, <1>3, SameLists DEF SameRow, SameList
  <2> QED BY <1>2, <1>6, <2>1, <2>2, SameKeeps
<1>8. UserOK(u)'
  <2>1. AloneAt(u)' /\ EventsOK(u)' /\ RowOK(u)'
    BY <1>3 DEF AloneAt, EventsOK, RowOK
  <2>2. ASSUME NEW m \in Answers PROVE ListOK(m, u)'
    BY <1>1, <1>2, <1>3, SameLists DEF ListOK
  <2> QED BY <2>1, <2>2 DEF UserOK
<1> QED BY <1>6, <1>7, <1>8 DEF TableInv

\* A list that is being made is one of the answers.
LEMMA NextAnswer ==
    ASSUME StreamTypeOK, wrote < Len(Op)
    PROVE  wrote + 1 \in Answers /\ wrote \in Nat
  BY OpAssumption DEF StreamTypeOK, Answers

LEMMA AskTable ==
    ASSUME StreamTypeOK, TableInv, NEW u \in Users, Ask(u)
    PROVE  TableInv'
<1>1. /\ wrote < Len(Op) /\ u \notin DOMAIN list
      /\ list' = [v \in DOMAIN list \cup {u} |-> IF v = u THEN seat[u] ELSE list[v]]
      /\ late' = [late EXCEPT ![wrote + 1] = IF LoggingIn(u) /\ ~Told(u) THEN @ \cup {u} ELSE @]
      /\ UNCHANGED <<stream, seat, task, channel, answer, row, doubt>>
  BY DEF Ask
<1>2. FeedTypeOK /\ \A v \in Users : UserOK(v)
  BY DEF TableInv
<1>3. wrote + 1 \in Answers /\ wrote \in Nat
  BY <1>1, NextAnswer
<1>4. /\ late' \in [Answers -> SUBSET Users]
      /\ \A m \in Answers : late[m] \subseteq late'[m]
      /\ LoggingIn(u) /\ ~Told(u) => u \in late'[wrote + 1]
  BY <1>1, <1>2, <1>3 DEF FeedTypeOK
<1>5. /\ DOMAIN list' = DOMAIN list \cup {u} /\ list'[u] = seat[u]
      /\ \A v \in DOMAIN list \ {u} : list'[v] = list[v]
  BY <1>1
<1>6. FeedTypeOK'
  BY <1>1, <1>2, <1>4, <1>5 DEF FeedTypeOK
<1>7. ASSUME NEW v \in Users PROVE Same(v) /\ SameRow(v)
  <2>1. /\ Told(v)' <=> Told(v)
        /\ \A f : LastIs(v, f) => LastIs(v, f)'
    BY <1>1 DEF Told, LastIs
  <2> QED BY <1>1, <2>1 DEF Same, SameRow
<1>8. wrote' = wrote /\ msg' = msg
  BY <1>1 DEF stream
<1>9. ASSUME NEW v \in Users, NEW m \in Answers, v # u \/ m # wrote + 1
      PROVE  SameList(m, v)
  <2>1. m \in OnTheWay(v)' <=> m \in OnTheWay(v)
    BY <1>5, <1>8, <1>9 DEF OnTheWay
  <2>2. m \in OnTheWay(v) => Held(m)'[v] = Held(m)[v]
    BY <1>1, <1>3, <1>5, <1>8, <1>9 DEF OnTheWay, Held
  <2> QED BY <2>1, <2>2, <1>4 DEF SameList
<1>10. ASSUME NEW v \in Users \ {u} PROVE UserOK(v)'
  BY <1>2, <1>6, <1>7, <1>9, SameKeeps
<1>11. UserOK(u)'
  <2>1. /\ LoggingIn(u)' <=> LoggingIn(u)
        /\ Quitting(u)' <=> Quitting(u)
        /\ Busy(u)' <=> Busy(u)
        /\ AloneAt(u)'
    BY <1>2, <1>6, <1>7, SameTasks DEF UserOK
  <2>2. EventsOK(u)'
    BY <2>1, <1>2, <1>7 DEF UserOK, EventsOK, Same
  <2>3. RowOK(u)'
    BY <2>1, <1>2, <1>7 DEF UserOK, RowOK, Same, SameRow
  <2>4. ASSUME NEW m \in Answers, m # wrote + 1 PROVE ListOK(m, u)'
    <3>1. SameList(m, u)
      BY <1>9, <2>4
    <3> QED BY <2>1, <3>1, <1>2, <1>7 DEF UserOK, ListOK, SameList, Same, Quiet
  <2>5. ListOK(wrote + 1, u)'
    <3>1. (wrote + 1)' = wrote + 1 /\ ~(wrote + 1 <= wrote)
      BY <1>3, <1>8
    <3>2. Held(wrote + 1)'[u] = seat[u]
      BY <3>1, <1>5, <1>8 DEF Held
    <3>3. Told(u)' <=> Told(u)
      BY <1>7 DEF Same
    <3> QED BY <2>1, <3>1, <3>2, <3>3, <1>1, <1>4 DEF ListOK
  <2>6. (wrote + 1)' = wrote + 1
    BY <1>8
  <2>7. ASSUME NEW m \in Answers PROVE ListOK(m, u)'
    BY <2>4, <2>5, <2>6
  <2> QED BY <2>1, <2>2, <2>3, <2>7 DEF UserOK
<1> QED BY <1>6, <1>10, <1>11 DEF TableInv

LEMMA AnswerTable ==
    ASSUME StreamTypeOK, TableInv, Answer
    PROVE  TableInv'
<1>1. /\ wrote < Len(Op) /\ wrote' = wrote + 1 /\ msg' = msg
      /\ Op[wrote'] = GetUsersList => DOMAIN list = Users
      /\ answer' = [answer EXCEPT ![wrote'] = list] /\ list' = <<>>
      /\ UNCHANGED <<seat, task, channel, row, late, doubt>>
  BY DEF Answer, Write
<1>2. FeedTypeOK /\ \A v \in Users : UserOK(v)
  BY DEF TableInv
<1>3. wrote + 1 \in Answers /\ wrote \in Nat
  BY <1>1, NextAnswer
<1>4. /\ answer' = [m \in Answers |-> IF m = wrote + 1 THEN list ELSE answer[m]]
      /\ DOMAIN list' = {}
  BY <1>1, <1>2, <1>3 DEF FeedTypeOK
<1>5. FeedTypeOK'
  BY <1>1, <1>2, <1>4 DEF FeedTypeOK
<1>6. ASSUME NEW v \in Users PROVE UserOK(v)'
  <2>1. /\ Told(v)' <=> Told(v)
        /\ \A f : LastIs(v, f) => LastIs(v, f)'
    BY <1>1 DEF Told, LastIs
  <2>2. Same(v) /\ SameRow(v)
    BY <1>1, <2>1 DEF Same, SameRow
  <2>3. ASSUME NEW m \in Answers PROVE SameList(m, v)
    <3>1. m \in Int
      BY OpAssumption DEF Answers
    <3>2. m \in OnTheWay(v)' => m \in OnTheWay(v)
      BY <3>1, <1>1, <1>3, <1>4 DEF OnTheWay
    <3>3. m \in OnTheWay(v) => Held(m)'[v] = Held(m)[v]
      BY <3>1, <1>1, <1>3, <1>4 DEF OnTheWay, Held
    <3> QED BY <3>2, <3>3, <1>1 DEF SameList
  <2> QED BY <1>2, <1>5, <2>2, <2>3, SameKeeps
<1> QED BY <1>5, <1>6 DEF TableInv

LEMMA ReadChunkTable ==
    ASSUME StreamTypeOK, TableInv, NEW p \in Places, ReadChunk(p[1], p[2])
    PROVE  TableInv'
<1>1. /\ \/ LoadJsonToTableView(msg) /\ Op[msg] = GetUsersList
         \/ UNCHANGED <<row, doubt>>
      /\ wrote' = wrote /\ msg' = p[1]
      /\ UNCHANGED <<seat, task, channel, list, answer, late>>
  BY DEF ReadChunk, Chunk
<1>2. FeedTypeOK /\ \A v \in Users : UserOK(v)
  BY DEF TableInv
<1>3. msg' \in msg..wrote + 1 /\ msg \in 1..wrote /\ msg \in Answers /\ wrote \in Nat
  BY <1>1, PlaceIs, OpAssumption DEF StreamTypeOK, Answers
<1>4. ASSUME NEW v \in Users
      PROVE  /\ Told(v)' <=> Told(v)
             /\ \A f : LastIs(v, f) => LastIs(v, f)'
             /\ \A m \in Answers : SameList(m, v)
  <2>1. /\ Told(v)' <=> Told(v)
        /\ \A f : LastIs(v, f) => LastIs(v, f)'
    BY <1>1 DEF Told, LastIs
  <2>2. ASSUME NEW m \in Answers PROVE SameList(m, v)
    <3>1. m \in Int
      BY OpAssumption DEF Answers
    <3>2. m \in OnTheWay(v)' => m \in OnTheWay(v)
      BY <3>1, <1>1, <1>3 DEF OnTheWay
    <3>3. Held(m)' = Held(m)
      BY <1>1 DEF Held
    <3> QED BY <3>2, <3>3, <1>1 DEF SameList
  <2> QED BY <2>1, <2>2
<1>5. CASE UNCHANGED <<row, doubt>>
  <2>1. FeedTypeOK'
    BY <1>1, <1>2, <1>5 DEF FeedTypeOK
  <2>2. ASSUME NEW v \in Users PROVE UserOK(v)'
    <3>1. Same(v) /\ SameRow(v)
      BY <1>1, <1>4, <1>5 DEF Same, SameRow
    <3> QED BY <1>2, <1>4, <2>1, <3>1, SameKeeps
  <2> QED BY <2>1, <2>2 DEF TableInv
<1>6. CASE LoadJsonToTableView(msg) /\ Op[msg] = GetUsersList
  <2>1. row' = answer[msg] /\ doubt' = late[msg] \cup {v \in doubt : Told(v) \/ Busy(v)}
    BY <1>6 DEF LoadJsonToTableView
  <2>2. late[msg] \subseteq Users /\ DOMAIN answer[msg] \subseteq Users
    BY <1>2, <1>3 DEF FeedTypeOK
  <2>3. FeedTypeOK'
    BY <1>1, <1>2, <2>1, <2>2 DEF FeedTypeOK
  <2>4. ASSUME NEW v \in Users PROVE UserOK(v)'
    <3>1. /\ LoggingIn(v)' <=> LoggingIn(v)
          /\ Quitting(v)' <=> Quitting(v)
          /\ Busy(v)' <=> Busy(v)
      BY <1>1 DEF LoggingIn, Quitting, Busy
    <3>2. v \notin doubt' => v \notin late[msg] /\ (v \notin doubt \/ Quiet(v))
      BY <2>1 DEF Quiet
    <3>3. AloneAt(v)'
      BY <1>1, <1>2, <3>2 DEF UserOK, AloneAt, Quiet, Busy
    <3>4. Quiet(v) => ~LoggingIn(v) /\ ~Quitting(v)
      BY <1>2, BusyIs DEF Quiet
    <3>5. EventsOK(v)'
      BY <1>1, <1>2, <1>4, <3>1, <3>2, <3>4 DEF UserOK, EventsOK, Quiet
    <3>6. msg \in OnTheWay(v) /\ Held(msg) = answer[msg]
      BY <1>3, <1>6, OpAssumption DEF OnTheWay, Held
    <3>7. v \notin doubt' => /\ LoggingIn(v) => Told(v)
                             /\ Quiet(v) => row'[v] = seat[v]
      BY <1>2, <1>3, <2>1, <3>2, <3>6 DEF UserOK, ListOK
    <3>8. RowOK(v)'
      BY <1>1, <1>4, <3>1, <3>7 DEF RowOK, Quiet
    <3>9. ASSUME NEW m \in Answers PROVE ListOK(m, v)'
      BY <1>1, <1>2, <1>4, <3>1 DEF UserOK, ListOK, SameList, Quiet
    <3> QED BY <3>3, <3>5, <3>8, <3>9 DEF UserOK
  <2> QED BY <2>3, <2>4 DEF TableInv
<1> QED BY <1>1, <1>5, <1>6

LEMMA RedisMessageTable ==
    ASSUME TableInv, RedisMessageReceived
    PROVE  TableInv'
<1>1. /\ channel # <<>> /\ channel' = Tail(channel)
      /\ row' = [v \in DOMAIN row |->
                   IF v = Head(channel).user THEN Head(channel).event = "login" ELSE row[v]]
      /\ Late({Head(channel).user})
      /\ UNCHANGED <<stream, seat, task, list, answer, doubt>>
  BY DEF RedisMessageReceived
<1>2. FeedTypeOK /\ \A v \in Users : UserOK(v)
  BY DEF TableInv
<1>3. PICK u \in Users : u = Head(channel).user
  BY <1>1, <1>2, Consumed
<1>4. /\ Told(u)
      /\ \A v \in Users : Told(v)' => Told(v)
      /\ \A v \in Users : \A f : Told(v)' /\ LastIs(v, f) => LastIs(v, f)'
      /\ \A v \in Users : \A f : ~Told(v)' /\ LastIs(v, f) =>
            Head(channel) = [user |-> v, event |-> f]
      /\ \A v \in Users \ {u} :
            /\ Told(v)' <=> Told(v)
            /\ \A f : LastIs(v, f) => LastIs(v, f)'
      /\ channel' \in Seq([user: Users, event: {"login", "quit"}])
  BY <1>1, <1>2, <1>3, Consumed
<1>5. /\ late' \in [Answers -> SUBSET Users]
      /\ \A m \in Answers : late[m] \subseteq late'[m]
      /\ \A m \in Answers : m \in OnTheWay(u) => u \in late'[m]
  BY <1>1, <1>2, <1>3, LateIs
<1>6. FeedTypeOK'
  BY <1>1, <1>2, <1>4, <1>5 DEF FeedTypeOK
<1>7. ASSUME NEW v \in Users \ {u} PROVE UserOK(v)'
  <2>1. Same(v)
    BY <1>1, <1>4 DEF Same
  <2>2. SameRow(v) /\ \A m \in Answers : SameList(m, v)
    BY <1>1, <1>2, <1>3, <1>5, SameLists DEF SameRow, SameList
  <2> QED BY <1>2, <1>6, <2>1, <2>2, SameKeeps
<1>8. UserOK(u)'
  <2>1. /\ LoggingIn(u)' <=> LoggingIn(u)
        /\ Quitting(u)' <=> Quitting(u)
        /\ Busy(u)' <=> Busy(u)
    BY <1>1 DEF LoggingIn, Quitting, Busy
  <2>2. AloneAt(u)'
    BY <1>1, <1>2 DEF UserOK, AloneAt
  <2>3. EventsOK(u)'
    BY <1>1, <1>2, <1>4, <2>1 DEF UserOK, EventsOK
  <2>4. RowOK(u)'
    <3>1. SUFFICES ASSUME u \in DOMAIN row', u \notin doubt, ~Told(u)'
                   PROVE  /\ LoggingIn(u) => row'[u] = TRUE
                          /\ ~Busy(u) => row'[u] = seat[u]
      BY <1>1, <2>1 DEF RowOK
    <3>2. row'[u] = (Head(channel).event = "login")
      BY <1>1, <1>3, <3>1
    <3>3. ASSUME LoggingIn(u) PROVE row'[u] = TRUE
      <4>1. LastIs(u, "login")
        BY <1>2, <1>4, <3>1, <3>3 DEF UserOK, EventsOK
      <4>2. Head(channel).event = "login"
        BY <1>4, <3>1, <4>1
      <4> QED BY <3>2, <4>2
    <3>4. ASSUME ~Busy(u) PROVE row'[u] = seat[u]
      <4>1. LastIs(u, IF seat[u] THEN "login" ELSE "quit")
        BY <1>2, <1>4, <3>1, <3>4 DEF UserOK, EventsOK
      <4>2. Head(channel).event = IF seat[u] THEN "login" ELSE "quit"
        BY <1>4, <3>1, <4>1
      <4>3. seat[u] \in BOOLEAN
        BY <1>2 DEF FeedTypeOK
      <4> QED BY <3>2, <4>2, <4>3
    <3> QED BY <3>3, <3>4
  <2>5. ASSUME NEW m \in Answers PROVE ListOK(m, u)'
    BY <1>1, <1>2, <1>5, SameLists DEF ListOK
  <2> QED BY <2>2, <2>3, <2>4, <2>5 DEF UserOK
<1> QED BY <1>6, <1>7, <1>8 DEF TableInv

LEMMA StutterTable ==
    ASSUME TableInv, UNCHANGED vars
    PROVE  TableInv'
<1>1. UNCHANGED <<stream, seat, task, channel, list, answer, row, late, doubt>>
  BY DEF vars, feed
<1>2. FeedTypeOK /\ \A v \in Users : UserOK(v)
  BY DEF TableInv
<1>3. FeedTypeOK'
  BY <1>1, <1>2 DEF FeedTypeOK
<1>4. ASSUME NEW v \in Users PROVE UserOK(v)'
  <2>1. /\ Told(v)' <=> Told(v)
        /\ \A f : LastIs(v, f) => LastIs(v, f)'
    BY <1>1 DEF Told, LastIs
  <2>2. Same(v)
    BY <1>1, <2>1 DEF Same
  <2>3. SameRow(v) /\ \A m \in Answers : SameList(m, v)
    BY <1>1, <1>2, SameLists DEF SameRow, SameList
  <2> QED BY <1>2, <1>3, <2>2, <2>3, SameKeeps
<1> QED BY <1>3, <1>4 DEF TableInv

LEMMA NextTable == StreamTypeOK /\ TableInv /\ [WNext]_vars => TableInv'
<1> SUFFICES ASSUME StreamTypeOK, TableInv, [WNext]_vars PROVE TableInv'
  OBVIOUS
<1>1. CASE UNCHANGED vars
  BY <1>1, StutterTable
<1>2. CASE WNext
  <2>1. ASSUME NEW w \in Workers, NEW u \in Users, LoginEvent(w, u) \/ DeleteSession(w, u)
        PROVE  TableInv'
    BY <2>1, LoginEventTable, DeleteSessionTable
  <2>2. ASSUME NEW w \in Workers, CreateSession(w) \/ QuitEvent(w) PROVE TableInv'
    BY <2>2, CreateSessionTable, QuitEventTable
  <2>3. ASSUME NEW u \in Users, Untold(u) \/ Ask(u) PROVE TableInv'
    BY <2>3, UntoldTable, AskTable
  <2>4. ASSUME Answer PROVE TableInv'
    BY <2>4, AnswerTable
  <2>5. ASSUME NEW p \in Places, ReadChunk(p[1], p[2]) PROVE TableInv'
    BY <2>5, ReadChunkTable
  <2>6. ASSUME RedisMessageReceived PROVE TableInv'
    BY <2>6, RedisMessageTable
  <2> QED BY <1>2, <2>1, <2>2, <2>3, <2>4, <2>5, <2>6 DEF WNext
<1> QED BY <1>1, <1>2

-----------------------------------------------------------------------------
(* The window's theorems. *)

\* The window reads its answers as AnswerStream says, whatever the server does for
\* others: all that was proved of the stream holds in the window.
THEOREM WindowReads == WSpec => Spec
<1>1. WInit => Init
  BY DEF WInit
<1>2. [WNext]_vars => [Next]_stream
  <2>1. Answer => Write
    BY DEF Answer
  <2>2. ASSUME NEW p \in Places, ReadChunk(p[1], p[2]) PROVE Chunk(p[1], p[2])
    BY <2>2 DEF ReadChunk
  <2>3. UNCHANGED vars => UNCHANGED stream
    BY DEF vars
  <2>4. ASSUME NEW w \in Workers, NEW u \in Users, LoginEvent(w, u) \/ DeleteSession(w, u)
        PROVE  UNCHANGED stream
    BY <2>4 DEF LoginEvent, DeleteSession
  <2>5. ASSUME NEW w \in Workers, CreateSession(w) \/ QuitEvent(w) PROVE UNCHANGED stream
    BY <2>5 DEF CreateSession, QuitEvent
  <2>6. ASSUME NEW u \in Users, Untold(u) \/ Ask(u) PROVE UNCHANGED stream
    BY <2>6 DEF Untold, Ask
  <2>7. RedisMessageReceived => UNCHANGED stream
    BY DEF RedisMessageReceived
  <2> QED BY <2>1, <2>2, <2>3, <2>4, <2>5, <2>6, <2>7 DEF WNext, Next
<1> QED BY <1>1, <1>2, PTL DEF WSpec, Spec

\* The invariant of the table: the last event about a user, or else the row, tells
\* what the seat is or is to be; and so does a list, or it is known to be late.
THEOREM TableInvAlways == WSpec => []TableInv
<1>1. WInit => TableInv
  BY InitTable
<1>2. StreamTypeOK /\ TableInv /\ [WNext]_vars => TableInv'
  BY NextTable
<1> QED BY <1>1, <1>2, WindowReads, TypeAlways, PTL DEF WSpec

\* Who is online in the table: Login, Quit, GetUsersList and the subscriber, for any
\* users and workers, and any cutting of the answers into chunks.
THEOREM TableAlways == WSpec => []TableIsTrue
<1>1. TableInv => TableIsTrue
  BY DEF TableInv, FeedTypeOK, UserOK, RowOK, Quiet, TableIsTrue
<1> QED BY <1>1, TableInvAlways, PTL
=============================================================================
