----------------------------- MODULE AnswerStream -----------------------------
(***************************************************************************)
(* AsyncReadResponse of the client: the bytes of the server's answers come *)
(* in chunks of any size.  Of a chunk, getline keeps what comes before the *)
(* first '\0', for _buffer; consume drops the rest.  After each chunk      *)
(* _buffer is parsed as if it held an answer, and handled when it is as    *)
(* long as _packetSize says.  That counts neither the two newlines of the  *)
(* header nor the '\0': two bytes less than the answer has; and what is    *)
(* parsed may end, or begin, anywhere in an answer.                        *)
(*                                                                         *)
(* Answer m is its operation in Digits(m) digits, a newline, its size in   *)
(* eight digits, a newline, Body[m] bytes, and '\0'.                       *)
(***************************************************************************)
EXTENDS Integers, Sequences

CONSTANTS
    Op,    \* the operations of the answers, in the order they are sent
    Body,  \* their bodies, in bytes: one line, without digits where stoi looks
    MaxCuts \* bound: chunks that end inside an answer

Answers == DOMAIN Op
Emits == (3..17) \cup {21}      \* the operations whose answer is emitted to the window
Quit == 2

ASSUME OpAssumption == Op \in Seq(0..21)
ASSUME BodyAssumption ==
    /\ Body \in Seq(Nat) /\ Len(Body) = Len(Op)
    /\ \A m \in Answers : Body[m] > 2 /\ Body[m] < 10000000   \* eight digits say the size
ASSUME MaxCutsAssumption == MaxCuts \in Nat

Digits(m) == IF Op[m] < 10 THEN 1 ELSE 2
Header(m) == Digits(m) + 10              \* the two newlines among it

\* Mutant: the size's own eight digits are not counted.
PacketShort(m) == Digits(m) + Body[m]

Packet(m) == Digits(m) + 8 + Body[m]     \* _packetSize
Data(m) == Header(m) + Body[m]           \* all but the '\0'

VARIABLES
    wrote,      \* the answers that are on the stream
    msg, off,   \* the next byte to read: byte off of answer msg
    from,       \* _buffer holds bytes from..off-1 of msg
    deaf,       \* and, before them, what is left of earlier answers
    reading,    \* "on", "stopped": not armed again, "crashed"
    shown,      \* what was emitted: for which answer, as which operation, how short
    rode,       \* history: answers that began behind another's end in one chunk
    cuts,       \* bound
    cut         \* history: the harmful parts of answers in which a chunk ended

stream == <<wrote, msg, off, from, deaf, reading, shown, rode, cuts, cut>>

Init ==
    /\ wrote = 0 /\ msg = 1 /\ off = 0
    /\ from = 0 /\ deaf = FALSE
    /\ reading = "on" /\ shown = <<>>
    /\ rode = {} /\ cuts = 0 /\ cut = {}

-----------------------------------------------------------------------------
(* BaseCommand(_buffer), of bytes f..e-1 of answer m. *)

Ten == [k \in 0..8 |-> IF k = 0 THEN 1 ELSE IF k = 1 THEN 10 ELSE IF k = 2 THEN 100
        ELSE IF k = 3 THEN 1000 ELSE IF k = 4 THEN 10000 ELSE IF k = 5 THEN 100000
        ELSE IF k = 6 THEN 1000000 ELSE IF k = 7 THEN 10000000 ELSE 100000000]

\* The number that digits a..b-1 of n make, n being written in w of them.
Part(n, w, a, b) == (n \div Ten[w - b]) % Ten[b - a]

Cap(n, most) == IF n < most THEN n ELSE most

\* The operation line is cut by the end of the data, and the size is what that
\* line says: getline leaves it as it is.
OpOnly(m, f, e) ==
    LET op == Part(Op[m], Digits(m), f, e) IN <<op, op>>

\* Mutant: the operation is the character before the newline.
OpDigitAndSize(m, f, e) ==
    <<Op[m] % 10, Part(Packet(m), 8, 0, Cap(e - Digits(m) - 1, 8))>>

\* The size is what there is of its line.
OpAndSize(m, f, e) ==
    <<Part(Op[m], Digits(m), f, Digits(m)),
      Part(Packet(m), 8, 0, Cap(e - Digits(m) - 1, 8))>>

\* What there is of the size is taken for an operation, and for the size.
SizeOnly(m, f, e) ==
    LET n == Part(Packet(m), 8, f - Digits(m) - 1, e - Digits(m) - 1) IN <<n, n>>

\* stoi finds a number in both lines.
Parses(m, f, e) ==
    \/ f < e /\ e <= Digits(m)
    \/ f < Digits(m) /\ e > Digits(m) + 1
    \/ f > Digits(m) /\ f < e /\ e <= Digits(m) + 9

\* <<_op, _packetSize>>
Command(m, f, e) ==
    IF e <= Digits(m) THEN OpOnly(m, f, e)
    ELSE IF f < Digits(m) THEN OpAndSize(m, f, e)
    ELSE SizeOnly(m, f, e)

\* command._packetSize <= _buffer.size()
Complete(m, f, e) ==
    Parses(m, f, e) /\ Command(m, f, e)[2] <= e - f

-----------------------------------------------------------------------------
(* Actions. *)

\* The server writes its next answer.
Write ==
    /\ wrote < Len(Op)
    /\ wrote' = wrote + 1
    /\ UNCHANGED <<msg, off, from, deaf, reading, shown, rode, cuts, cut>>

\* HandleMessage(command): emit with _msg_data[0], which an answer cut before its
\* body has not; the other operations do nothing.
HandleMessage(m, e, op) ==
    \/ /\ op = Quit
       /\ reading' = "stopped"
       /\ UNCHANGED shown
    \/ /\ op \in Emits /\ e <= Header(m)
       /\ reading' = "crashed"
       /\ UNCHANGED shown
    \/ /\ op \in Emits /\ e > Header(m)
       /\ shown' = Append(shown, [msg |-> m, op |-> op, miss |-> Data(m) - e])
       /\ UNCHANGED reading
    \/ /\ op # Quit /\ op \notin Emits
       /\ UNCHANGED <<reading, shown>>

\* The answers of which a chunk that ends there drops the beginning.
Riding(m2, o2) == {m \in msg + 1..m2 : m < m2 \/ o2 > 0}

\* A chunk does no harm that ends between answers; in the body of one, but for its
\* last two bytes; or just before the '\0'.
Harm(m2, o2) ==
    (IF o2 > 0 /\ o2 <= Header(m2) THEN {"header"} ELSE {})
    \cup (IF o2 > 0 /\ o2 >= Packet(m2) /\ o2 < Data(m2) THEN {"tail"} ELSE {})
    \cup (IF o2 > 0 /\ m2 \in rode \cup Riding(m2, o2) THEN {"dropped"} ELSE {})

\* Mutant: `_buffer = ""' is forgotten.
Uncleared(o2) == UNCHANGED <<from, deaf>>

\* _buffer = ""
Clear(o2) == from' = o2 /\ UNCHANGED deaf

\* Mutant: the data of the next chunk takes the place of what is not complete.
KeepNothing(m2, o2, e) == from' = o2 /\ UNCHANGED deaf

\* Mutant: what is not complete is counted to the next answer.
KeepInPlace(m2, o2, e) == UNCHANGED <<from, deaf>>

\* What is not complete stays; behind the end of its answer it is never parsed.
Keep(m2, o2, e) ==
    /\ from' = IF m2 = msg THEN from ELSE o2
    /\ deaf' = (deaf \/ (m2 > msg /\ from < e))

\* A chunk that ends before byte o2 of answer m2.
Chunk(m2, o2) ==
    LET e == IF m2 = msg THEN o2 ELSE Data(msg)
    IN  /\ reading = "on"
        /\ m2 > msg \/ (m2 = msg /\ o2 > off)
        /\ cuts' = IF o2 = 0 THEN cuts ELSE cuts + 1
        /\ msg' = m2 /\ off' = o2
        /\ rode' = rode \cup Riding(m2, o2)
        /\ cut' = cut \cup Harm(m2, o2)
        /\ \/ /\ ~deaf /\ Complete(msg, from, e)
              /\ HandleMessage(msg, e, Command(msg, from, e)[1])
              /\ Clear(o2)
           \/ /\ deaf \/ ~Complete(msg, from, e)
              /\ Keep(m2, o2, e)
              /\ UNCHANGED <<reading, shown>>
        /\ UNCHANGED wrote

\* Where a chunk may end: between answers, or inside one.
Places ==
    {<<m, 0>> : m \in msg + 1..wrote + 1}
    \cup (IF cuts < MaxCuts THEN UNION {{m} \X (1..Data(m)) : m \in msg..wrote} ELSE {})

Next == Write \/ \E p \in Places : Chunk(p[1], p[2])

Spec == Init /\ [][Next]_stream

-----------------------------------------------------------------------------
(* Properties. *)

StreamTypeOK ==
    /\ wrote \in 0..Len(Op) /\ msg \in 1..wrote + 1 /\ off \in Nat
    /\ (msg > wrote => off = 0) /\ (msg <= wrote => off <= Data(msg))
    /\ from \in 0..off /\ deaf \in BOOLEAN
    /\ reading \in {"on", "stopped", "crashed"}
    /\ shown \in Seq([msg: Answers, op: Emits, miss: Nat])
    /\ rode \subseteq Answers /\ cuts \in 0..MaxCuts
    /\ cut \subseteq {"header", "tail", "dropped"}

\* The window never sees an answer twice, nor one after a later one.
ShownInOrder ==
    \A i, j \in DOMAIN shown : i < j => shown[i].msg < shown[j].msg

\* What the window gets as its answer lacks two bytes of it at most.
ShortByTwo == \A i \in DOMAIN shown : shown[i].miss <= 2

Silent(m) == Op[m] \notin Emits \cup {Quit}

\* As long as no chunk ends where it does harm, every answer is shown, whole and as
\* what it is, except those that began in a chunk behind another's end; and the
\* client goes on reading.
Heard ==
    cut = {} /\ (\A m \in 1..wrote : Op[m] # Quit) =>
        /\ reading = "on" /\ ~deaf
        /\ \A m \in 1..msg - 1 :
              \/ Silent(m) \/ m \in rode
              \/ \E i \in DOMAIN shown : shown[i] = [msg |-> m, op |-> Op[m], miss |-> 0]

\* Only a chunk that ended in the header of an answer ends the client, has it take
\* an answer for a Quit, or an answer for another's.
MisreadInHeader ==
    "header" \notin cut =>
        /\ reading # "crashed"
        /\ reading = "stopped" => \E m \in 1..wrote : Op[m] = Quit
        /\ \A i \in DOMAIN shown : shown[i].op = Op[shown[i].msg]
=============================================================================
