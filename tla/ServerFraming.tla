---------------------------- MODULE ServerFraming ----------------------------
(* How the server cuts the stream of one connection into commands            *)
(* (Session::ReadMessage). The stream is its positions: message m is what    *)
(* lies between Start(m) and ends[m], its last byte the terminating '\0'.    *)
(* TCP delivers it in any pieces. The client sends when it likes, so that    *)
(* the next message may lie in `_buffer` behind the one that is read, whole  *)
(* or in part: then the second `consume` of the handler takes of it as many  *)
(* bytes as getline has just read.                                           *)
EXTENDS Naturals, Sequences

CONSTANTS
    Sizes,       \* lengths a packet of the client may have, '\0' included
    MaxMessages  \* bound: messages the client sends

ASSUME SizesAssumption == Sizes \subseteq Nat \ {0}
ASSUME MaxMessagesAssumption == MaxMessages \in Nat

VARIABLES
    ends,     \* message -> the position of its last byte
    client,   \* "up", "quit": it left with a Quit, "gone": it left without
    arrived,  \* how many bytes async_read_until has put into _buffer
    head,     \* how many of them were consumed
    reads,    \* history: the messages getline returned, whole or without their beginning
    crowded,  \* history: messages that were read with bytes of later ones behind them
    session   \* "reading", "closed", "down": an exception has ended the process

vars == <<ends, client, arrived, head, reads, crowded, session>>

Messages == 1..Len(ends)
Start(m) == IF m = 1 THEN 0 ELSE ends[m - 1]
Size(m)  == ends[m] - Start(m)
Written  == IF ends = <<>> THEN 0 ELSE ends[Len(ends)]

IsQuit(m) == client = "quit" /\ m = Len(ends)

\* The first terminator in _buffer is that of message m.
Terminates(m) == Start(m) <= head /\ head < ends[m] /\ ends[m] <= arrived

Init ==
    /\ ends = <<>>
    /\ client = "up"
    /\ arrived = 0 /\ head = 0
    /\ reads = <<>>
    /\ crowded = {}
    /\ session = "reading"

-----------------------------------------------------------------------------
(* The client. *)

Send(n) == Len(ends) < MaxMessages /\ ends' = Append(ends, Written + n)

SendCommand(n) ==
    /\ client = "up"
    /\ Send(n)
    /\ UNCHANGED <<client, arrived, head, reads, crowded, session>>

\* ~HelloWindow sends Quit, after which the process ends.
Leave(n) ==
    /\ client = "up"
    /\ Send(n)
    /\ client' = "quit"
    /\ UNCHANGED <<arrived, head, reads, crowded, session>>

ClientDies ==
    /\ client = "up"
    /\ client' = "gone"
    /\ UNCHANGED <<ends, arrived, head, reads, crowded, session>>

-----------------------------------------------------------------------------
(* async_read_until looks into _buffer first and reads the socket only when  *)
(* there is no terminator.                                                   *)

\* Mutant: the socket is read only when nothing is left over.
ReceiveWhenEmpty(k) ==
    /\ session = "reading"
    /\ arrived = head
    /\ arrived + k <= Written
    /\ arrived' = arrived + k
    /\ UNCHANGED <<ends, client, head, reads, crowded, session>>

\* Some bytes arrive while no message in _buffer is complete.
Receive(k) ==
    /\ session = "reading"
    /\ \A m \in Messages : ~Terminates(m)
    /\ arrived + k <= Written
    /\ arrived' = arrived + k
    /\ UNCHANGED <<ends, client, head, reads, crowded, session>>

\* Mutant: the end of the stream counts only between two messages.
DisconnectClean ==
    /\ session = "reading" /\ client # "up"
    /\ arrived = head
    /\ session' = "closed"
    /\ UNCHANGED <<ends, client, arrived, head, reads, crowded>>

\* The socket reports the end of the stream, or an error that loses what was under way.
Disconnect ==
    /\ session = "reading" /\ client # "up"
    /\ \A m \in Messages : ~Terminates(m)
    /\ session' = "closed"
    /\ UNCHANGED <<ends, client, arrived, head, reads, crowded>>

\* What becomes of the session: a Quit closes it; a message without its
\* beginning is no command (stoi throws and nobody catches) or another one.
Handle(m, whole) ==
    IF whole THEN session' = IF IsQuit(m) THEN "closed" ELSE "reading"
             ELSE session' \in {"reading", "closed", "down"}

\* The handler of async_read_until, after which `consumed` bytes are gone.
ReadUpTo(m, consumed) ==
    LET whole == head = Start(m)
    IN  /\ session = "reading"
        /\ Terminates(m)
        /\ head' = consumed
        /\ reads' = Append(reads, [msg |-> m, whole |-> whole])
        /\ crowded' = IF arrived > ends[m] THEN crowded \cup {m} ELSE crowded
        /\ Handle(m, whole)
        /\ UNCHANGED <<ends, client, arrived>>

\* Mutant: getline reads a copy and nothing is consumed.
ReadNoConsume(m) == ReadUpTo(m, head)

\* Mutant: the second consume does not stop at the end of _buffer.
ReadUnclamped(m) == ReadUpTo(m, ends[m] + (ends[m] - head))

\* Mutant: what is behind the message is thrown away with it.
ReadClears(m) == ReadUpTo(m, arrived)

\* getline consumes the n bytes up to the terminator, then
\* `_buffer.consume(bytes_transferred)` n bytes more, as far as there are any.
ReadMessage(m) ==
    LET n == ends[m] - head
    IN  ReadUpTo(m, IF ends[m] + n <= arrived THEN ends[m] + n ELSE arrived)

Next ==
    \/ \E n \in Sizes : SendCommand(n) \/ Leave(n)
    \/ ClientDies
    \/ \E k \in 1..Written : Receive(k)
    \/ Disconnect
    \/ \E m \in Messages : ReadMessage(m)

Spec == Init /\ [][Next]_vars

\* The network delivers what a running client wrote (the bytes of one that left
\* may be lost, in the middle of a message too), reports the end of a connection,
\* and the io_context runs.
Fairness == /\ WF_vars(client = "up" /\ \E k \in 1..Written : Receive(k))
            /\ WF_vars(\E m \in Messages : ReadMessage(m))
            /\ WF_vars(Disconnect)
FairSpec == Spec /\ Fairness

-----------------------------------------------------------------------------
(* Properties. *)

ReadWhole(m) == \E i \in 1..Len(reads) : reads[i] = [msg |-> m, whole |-> TRUE]

TypeOK ==
    /\ ends \in Seq(Nat)
    /\ client \in {"up", "quit", "gone"}
    /\ arrived \in 0..Written /\ head \in 0..arrived
    /\ reads \in Seq([msg: Nat \ {0}, whole: BOOLEAN])
    /\ crowded \subseteq Messages
    /\ session \in {"reading", "closed", "down"}

\* However the stream is cut and whatever was lost, the commands of a connection
\* are taken in the order they were sent, and none is taken twice.
InOrder == \A i, j \in 1..Len(reads) : i < j => reads[i].msg < reads[j].msg

\* The second consume harms only what lies directly behind another message:
\* a message the session has begun to consume was read whole, unless it starts
\* less than the length of m behind a message m that was read with bytes behind it.
\* (A client that awaits each answer before its next command loses nothing.)
LostOnlyBehind == \A m \in Messages :
    Start(m) < head =>
        \/ ReadWhole(m)
        \/ \E c \in crowded : ends[c] <= Start(m) /\ Start(m) < ends[c] + Size(c)

Pending(m) == session = "reading" /\ m \in Messages /\ head < ends[m]

\* No message is left lying in the buffer: what the client wrote is consumed, or
\* the session ends.
Consumed == \A m \in 1..MaxMessages : Pending(m) ~> ~Pending(m)

\* A client that leaves, even one whose Quit was lost or torn, does not leave
\* its session (and its database connection) open.
LeftIsClosed == client # "up" ~> session # "reading"
=============================================================================
