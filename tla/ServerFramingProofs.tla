------------------------ MODULE ServerFramingProofs ------------------------
(* ServerFraming for every set of lengths and any number of messages: what   *)
(* the session reads is in order, and what is lost lay directly behind       *)
(* another message. Both follow from where messages end: ends grows, what    *)
(* was read ends at or before head, and head passes the end of the message   *)
(* it reads by no more than that message's own length.                       *)
EXTENDS ServerFraming, TLAPS

\* Messages lie one behind the other in the stream, and none is empty.
Increasing ==
    /\ \A m \in Messages : ends[m] > 0
    /\ \A l, m \in Messages : l < m => ends[l] < ends[m]

\* Whatever was read is consumed.
ReadsBelow == \A i \in 1..Len(reads) :
    reads[i].msg \in Messages /\ ends[reads[i].msg] <= head

IInv == TypeOK /\ Increasing /\ ReadsBelow /\ InOrder /\ LostOnlyBehind

\* A message begins where the one before it ends, and is not empty.
LEMMA Bounds ==
  ASSUME TypeOK, Increasing, NEW m \in Messages
  PROVE  /\ Len(ends) \in Nat /\ m \in Nat \ {0}
         /\ ends[m] \in Nat /\ Start(m) \in Nat
         /\ Start(m) < ends[m] /\ ends[m] <= Written /\ Written \in Nat
         /\ Size(m) \in Nat /\ Size(m) = ends[m] - Start(m)
<1>1. Len(ends) \in Nat /\ m \in Nat \ {0} /\ ends # <<>>
  BY DEF Messages, TypeOK
<1>2. \A l \in Messages : ends[l] \in Nat
  BY DEF Messages, TypeOK
<1>3. Start(m) \in Nat /\ Start(m) < ends[m]
  <2>1. CASE m = 1
    BY <2>1, <1>2 DEF Start, Increasing
  <2>2. CASE m # 1
    <3>1. m - 1 \in Messages /\ m - 1 < m BY <1>1, <2>2 DEF Messages
    <3> QED BY <2>2, <3>1, <1>2 DEF Start, Increasing
  <2> QED BY <2>1, <2>2
<1>4. Written \in Nat /\ ends[m] <= Written
  <2>1. Len(ends) \in Messages /\ Written = ends[Len(ends)]
    BY <1>1 DEF Messages, Written
  <2>2. m = Len(ends) \/ m < Len(ends) BY <1>1 DEF Messages
  <2> QED BY <2>1, <2>2, <1>2 DEF Increasing
<1> QED BY <1>1, <1>2, <1>3, <1>4 DEF Size

LEMMA InitIInv == Init => IInv
<1> SUFFICES ASSUME Init PROVE IInv OBVIOUS
<1>1. Messages = {} /\ Len(reads) = 0 BY DEF Init, Messages
<1> QED BY <1>1 DEF Init, IInv, TypeOK, Increasing, ReadsBelow, InOrder, LostOnlyBehind, Written

\* A new message begins where everything consumed so far has ended.
LEMMA SendKeeps ==
  ASSUME IInv, NEW n \in Sizes, Send(n), client' \in {"up", "quit", "gone"},
         UNCHANGED <<arrived, head, reads, crowded, session>>
  PROVE  IInv'
<1> PICK k : k = Len(ends) + 1 OBVIOUS
<1>1. n \in Nat \ {0} BY SizesAssumption
<1>2. /\ ends' = Append(ends, Written + n) /\ Len(ends) \in Nat /\ ends \in Seq(Nat)
      /\ Len(ends') = k
  BY DEF IInv, TypeOK, Send
<1>3. Written \in Nat
  BY <1>2 DEF Written
<1>4. /\ Messages' = Messages \cup {k} /\ k \notin Messages /\ k \in Nat \ {0}
      /\ \A m \in Messages : ends'[m] = ends[m]
      /\ ends'[k] = Written + n
  BY <1>1, <1>2, <1>3 DEF Messages
<1>5. \A m \in Messages : Start(m)' = Start(m) /\ Size(m)' = Size(m)
  <2> SUFFICES ASSUME NEW m \in Messages PROVE Start(m)' = Start(m) /\ Size(m)' = Size(m)
    OBVIOUS
  <2>1. m # 1 => m - 1 \in Messages BY <1>2 DEF Messages
  <2> QED BY <2>1, <1>4 DEF Start, Size
<1>6. Start(k)' = Written
  <2>1. CASE Len(ends) = 0
    BY <2>1, <1>2 DEF Start, Written
  <2>2. CASE Len(ends) # 0
    <3>1. k # 1 /\ k - 1 = Len(ends) /\ Len(ends) \in Messages /\ ends # <<>>
      BY <2>2, <1>2 DEF Messages
    <3> QED BY <3>1, <1>4 DEF Start, Written
  <2> QED BY <2>1, <2>2
<1>7. Written' = Written + n
  BY <1>1, <1>2, <1>3, <1>4 DEF Written
<1>8. \A m \in Messages : ends[m] \in Nat /\ ends[m] <= Written /\ m < k
  BY <1>2, Bounds DEF Messages, IInv
<1>9. TypeOK'
  BY <1>1, <1>2, <1>3, <1>4, <1>7 DEF IInv, TypeOK
<1>10. Increasing'
  BY <1>1, <1>2, <1>3, <1>4, <1>8 DEF IInv, Increasing, Messages
<1>11. ReadsBelow' /\ InOrder'
  BY <1>4 DEF IInv, ReadsBelow, InOrder
<1>12. LostOnlyBehind'
  <2> SUFFICES ASSUME NEW m \in Messages', Start(m)' < head
               PROVE  \/ ReadWhole(m)
                      \/ \E c \in crowded : ends'[c] <= Start(m)' /\ Start(m)' < ends'[c] + Size(c)'
    BY DEF LostOnlyBehind, ReadWhole
  <2>1. m \in Messages
    <3>1. head \in Nat /\ head <= Written BY <1>3 DEF IInv, TypeOK
    <3>2. m # k BY <3>1, <1>3, <1>6
    <3> QED BY <3>2, <1>4
  <2>2. \/ ReadWhole(m)
        \/ \E c \in crowded : ends[c] <= Start(m) /\ Start(m) < ends[c] + Size(c)
    BY <2>1, <1>5 DEF IInv, LostOnlyBehind
  <2> QED BY <2>1, <2>2, <1>4, <1>5 DEF IInv, TypeOK
<1> QED BY <1>9, <1>10, <1>11, <1>12 DEF IInv

\* The handler passes the end of the message by at most the message's length.
LEMMA ReadKeeps ==
  ASSUME IInv, NEW m \in Messages, ReadMessage(m)
  PROVE  IInv'
<1>n. PICK n : n = ends[m] - head OBVIOUS
<1>new. PICK new : new = [msg |-> m, whole |-> head = Start(m)] OBVIOUS
<1>0. reads \in Seq([msg: Nat \ {0}, whole: BOOLEAN])
  BY DEF IInv, TypeOK
<1>1. arrived \in Nat /\ head \in Nat /\ Len(ends) \in Nat /\ Len(reads) \in Nat
  BY Bounds DEF IInv, TypeOK
<1>2. /\ ends[m] \in Nat /\ Start(m) \in Nat /\ m \in Nat \ {0}
      /\ Size(m) \in Nat /\ Size(m) = ends[m] - Start(m)
  BY Bounds DEF IInv
<1>3. Start(m) <= head /\ head < ends[m] /\ ends[m] <= arrived
  BY DEF ReadMessage, ReadUpTo, Terminates
<1>4. n \in Nat \ {0} /\ n <= Size(m)
  BY <1>n, <1>1, <1>2, <1>3
<1>5. head' \in Nat /\ ends[m] <= head' /\ head' <= arrived /\ head' <= ends[m] + Size(m)
  <2>1. head' = IF ends[m] + n <= arrived THEN ends[m] + n ELSE arrived
    BY <1>n DEF ReadMessage, ReadUpTo
  <2>2. CASE ends[m] + n <= arrived
    <3>1. head' = ends[m] + n BY <2>1, <2>2
    <3> QED BY <3>1, <2>2, <1>1, <1>2, <1>4
  <2>3. CASE ~(ends[m] + n <= arrived)
    <3>1. head' = arrived BY <2>1, <2>3
    <3>2. arrived <= ends[m] + n BY <2>3, <1>1, <1>2, <1>4
    <3> QED BY <3>1, <3>2, <1>1, <1>2, <1>3, <1>4
  <2> QED BY <2>2, <2>3
<1>6. /\ reads' = Append(reads, new) /\ new \in [msg: Nat \ {0}, whole: BOOLEAN]
      /\ UNCHANGED <<ends, client, arrived>> /\ new.msg = m
  BY <1>new, <1>2 DEF ReadMessage, ReadUpTo
<1>7. /\ crowded \subseteq crowded' /\ crowded' \subseteq crowded \cup {m}
      /\ head' > ends[m] => m \in crowded'
  <2>1. crowded' = IF arrived > ends[m] THEN crowded \cup {m} ELSE crowded
    BY DEF ReadMessage, ReadUpTo
  <2>2. head' > ends[m] => arrived > ends[m] BY <1>1, <1>2, <1>5
  <2> QED BY <2>1, <2>2
<1>8. /\ Messages' = Messages /\ Written' = Written
      /\ \A l \in Messages : Start(l)' = Start(l) /\ Size(l)' = Size(l)
  BY <1>6 DEF Messages, Start, Size, Written
<1>9. /\ Len(reads') = Len(reads) + 1 /\ reads'[Len(reads) + 1] = new
      /\ \A i \in 1..Len(reads) : reads'[i] = reads[i]
  BY <1>0, <1>6
<1>10. TypeOK'
  <2>1. session' \in {"reading", "closed", "down"}
    BY DEF ReadMessage, ReadUpTo, Handle
  <2>2. reads' \in Seq([msg: Nat \ {0}, whole: BOOLEAN])
    BY <1>0, <1>6
  <2>3. head' \in 0..arrived' BY <1>1, <1>5, <1>6
  <2> QED BY <2>1, <2>2, <2>3, <1>6, <1>7, <1>8 DEF IInv, TypeOK
<1>11. Increasing'
  BY <1>6, <1>8 DEF IInv, Increasing
<1>12. ReadsBelow'
  <2> SUFFICES ASSUME NEW i \in 1..Len(reads')
               PROVE  reads'[i].msg \in Messages /\ ends[reads'[i].msg] <= head'
    BY <1>6, <1>8 DEF ReadsBelow
  <2>1. CASE i = Len(reads) + 1
    BY <2>1, <1>5, <1>6, <1>9
  <2>2. CASE i \in 1..Len(reads)
    <3>l. PICK l : l = reads[i].msg OBVIOUS
    <3>1. reads'[i].msg = l BY <3>l, <2>2, <1>9
    <3>2. l \in Messages /\ ends[l] <= head BY <3>l, <2>2 DEF IInv, ReadsBelow
    <3>3. ends[l] \in Nat BY <3>2, Bounds DEF IInv
    <3>4. head <= head' BY <1>1, <1>2, <1>3, <1>5
    <3>5. ends[l] <= head' BY <3>2, <3>3, <3>4, <1>1, <1>5
    <3> QED BY <3>1, <3>2, <3>5
  <2> QED BY <2>1, <2>2, <1>1, <1>9
<1>13. \A i \in 1..Len(reads) : reads[i].msg < m
  <2> SUFFICES ASSUME NEW i \in 1..Len(reads) PROVE reads[i].msg < m OBVIOUS
  <2> PICK l : l = reads[i].msg OBVIOUS
  <2>1. l \in Messages /\ ends[l] <= head BY DEF IInv, ReadsBelow
  <2>2. ends[l] \in Nat BY <2>1, Bounds DEF IInv
  <2>3. m < l => ends[m] < ends[l]
    BY <2>1 DEF IInv, Increasing
  <2>4. ends[l] < ends[m] BY <2>1, <2>2, <1>1, <1>2, <1>3
  <2>5. l \in Nat BY <2>1, <1>1 DEF Messages
  <2>6. ~(m < l) BY <2>2, <2>3, <2>4, <1>2
  <2>7. l # m BY <2>2, <2>4
  <2> QED BY <2>5, <2>6, <2>7, <1>2
<1>14. InOrder'
  <2> SUFFICES ASSUME NEW i \in 1..Len(reads'), NEW j \in 1..Len(reads'), i < j
               PROVE  reads'[i].msg < reads'[j].msg
    BY DEF InOrder
  <2>1. i \in 1..Len(reads) /\ reads'[i] = reads[i] BY <1>1, <1>9
  <2>2. CASE j = Len(reads) + 1
    BY <2>1, <2>2, <1>6, <1>9, <1>13
  <2>3. CASE j \in 1..Len(reads)
    BY <2>1, <2>3, <1>9 DEF IInv, InOrder
  <2>4. j = Len(reads) + 1 \/ j \in 1..Len(reads) BY <1>1, <1>9
  <2> QED BY <2>2, <2>3, <2>4
<1>15. LostOnlyBehind'
  <2> SUFFICES ASSUME NEW l \in Messages, Start(l) < head'
               PROVE  \/ ReadWhole(l)'
                      \/ \E c \in crowded' : ends[c] <= Start(l) /\ Start(l) < ends[c] + Size(c)
    BY <1>6, <1>7, <1>8 DEF IInv, TypeOK, LostOnlyBehind
  <2>1. Start(l) \in Nat /\ ends[l] \in Nat /\ l \in Nat \ {0} BY Bounds DEF IInv
  <2>2. CASE Start(l) < head
    <3>1. \/ ReadWhole(l)
          \/ \E c \in crowded : ends[c] <= Start(l) /\ Start(l) < ends[c] + Size(c)
      BY <2>2 DEF IInv, LostOnlyBehind
    <3>2. ReadWhole(l) => ReadWhole(l)'
      BY <1>1, <1>9 DEF ReadWhole
    <3> QED BY <3>1, <3>2, <1>7
  <2>3. CASE head <= Start(l) /\ l = m
    <3>1. reads'[Len(reads) + 1] = [msg |-> l, whole |-> TRUE]
      <4>1. (head = Start(m)) = TRUE BY <2>3, <1>1, <1>2, <1>3
      <4> QED BY <4>1, <2>3, <1>9, <1>new
    <3> QED BY <3>1, <1>1, <1>9 DEF ReadWhole
  <2>4. CASE head <= Start(l) /\ l # m
    <3>1. m < l
      <4>1. ~(l < m)
        <5>1. l < m => ends[l] <= Start(m)
          <6> SUFFICES ASSUME l < m PROVE ends[l] <= Start(m) OBVIOUS
          <6>1. m # 1 /\ m - 1 \in Messages /\ (l = m - 1 \/ l < m - 1)
            BY <2>1, <1>1, <1>2 DEF Messages
          <6>2. ends[m - 1] \in Nat BY <6>1, Bounds DEF IInv
          <6> QED BY <6>1, <6>2, <2>1 DEF Start, IInv, Increasing
        <5>2. Start(l) < ends[l] BY Bounds DEF IInv
        <5> QED BY <5>1, <5>2, <2>1, <2>4, <1>1, <1>2, <1>3
      <4> QED BY <4>1, <2>1, <2>4, <1>2
    <3>2. ends[m] <= Start(l)
      <4>1. l # 1 /\ l - 1 \in Messages /\ (m = l - 1 \/ m < l - 1)
        BY <3>1, <2>1, <1>1, <1>2 DEF Messages
      <4>2. ends[l - 1] \in Nat BY <4>1, Bounds DEF IInv
      <4> QED BY <4>1, <4>2, <1>2 DEF Start, IInv, Increasing
    <3>3. m \in crowded' /\ Start(l) < ends[m] + Size(m)
      BY <3>2, <2>1, <1>2, <1>5, <1>7
    <3> QED BY <3>2, <3>3
  <2> QED BY <2>1, <2>2, <2>3, <2>4, <1>1
<1> QED BY <1>10, <1>11, <1>12, <1>14, <1>15 DEF IInv

LEMMA StepKeeps == IInv /\ [Next]_vars => IInv'
<1> SUFFICES ASSUME IInv, [Next]_vars PROVE IInv' OBVIOUS
<1>1. CASE \E n \in Sizes : SendCommand(n) \/ Leave(n)
  BY <1>1, SendKeeps DEF SendCommand, Leave, IInv, TypeOK
<1>2. CASE \E k \in 1..Written : Receive(k)
  <2>1. PICK k \in 1..Written : Receive(k) BY <1>2
  <2>2. /\ UNCHANGED <<ends, client, head, reads, crowded, session>>
        /\ arrived' = arrived + k /\ arrived + k <= Written
    BY <2>1 DEF Receive
  <2>3. Written \in Nat BY DEF Written, IInv, TypeOK
  <2>4. TypeOK'
    BY <2>2, <2>3 DEF IInv, TypeOK, Messages, Written
  <2> QED BY <2>2, <2>4 DEF IInv, Increasing, ReadsBelow, InOrder, LostOnlyBehind, Messages, Start, Size, ReadWhole
<1>3. CASE ClientDies \/ Disconnect
  BY <1>3 DEF ClientDies, Disconnect, IInv, TypeOK, Increasing, ReadsBelow, InOrder, LostOnlyBehind,
     Messages, Start, Size, Written, ReadWhole
<1>4. CASE \E m \in Messages : ReadMessage(m)
  BY <1>4, ReadKeeps
<1>5. CASE UNCHANGED vars
  BY <1>5 DEF vars, IInv, TypeOK, Increasing, ReadsBelow, InOrder, LostOnlyBehind,
     Messages, Start, Size, Written, ReadWhole
<1> QED BY <1>1, <1>2, <1>3, <1>4, <1>5 DEF Next

LEMMA Invariance == Spec => []IInv
<1> QED BY InitIInv, StepKeeps, PTL DEF Spec

\* What arrived was sent and what is consumed has arrived, for any lengths.
THEOREM FramingTypes == Spec => []TypeOK
<1>1. IInv => TypeOK BY DEF IInv
<1> QED BY <1>1, Invariance, PTL

\* However TCP cuts the stream and whatever ReadMessage loses of it, commands
\* are taken in the order they were sent and none twice.
THEOREM CommandsInOrder == Spec => []InOrder
<1>1. IInv => InOrder BY DEF IInv
<1> QED BY <1>1, Invariance, PTL

\* A command is lost or torn only where it starts less than the length of an
\* earlier one behind it, which was read when both were in _buffer.
THEOREM LossIsLocal == Spec => []LostOnlyBehind
<1>1. IInv => LostOnlyBehind BY DEF IInv
<1> QED BY <1>1, Invariance, PTL
=============================================================================
