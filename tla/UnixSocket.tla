------------------------------ MODULE UnixSocket ------------------------------
(***************************************************************************)
(* The Unix socket on which transactions are published beside NATS         *)
(* (dtlWithSocket).  The handler of transactions alone uses it: it dials   *)
(* when there is no connection, writes a frame (ten digits of length, then *)
(* the message) with one Write, which waits while the kernel's buffer is   *)
(* full and has no deadline, and closes the connection when that fails.    *)
(* The message goes to NATS in any case.                                   *)
(*                                                                         *)
(* The reader is another program.  It may close a connection or stop at    *)
(* any time, and what it had not read of a connection is then lost; a      *)
(* connection whose other end is gone it can still read to its end.        *)
(* A frame is a sequence of pieces, as the kernel takes them.              *)
(***************************************************************************)
EXTENDS Naturals, Sequences

CONSTANTS
    MaxProcesses,   \* bound on the processes of the publisher, one after another
    MaxMessages,    \* bound on the messages of each
    Pieces,         \* pieces of a frame
    Capacity,       \* pieces the kernel buffers for a connection
    MaxBreaks       \* bound on the times the reader closes or stops

ASSUME UnixSocketAssumption ==
    /\ {MaxProcesses, Pieces, Capacity} \subseteq Nat \ {0}
    /\ {MaxMessages, MaxBreaks} \subseteq Nat

VARIABLES
    process,    \* the process running now
    sent,       \* per process: messages given to Publish
    step,       \* of Publish: "idle", "dial", "marshal", "write", "nats"
    written,    \* pieces of the frame written so far
    socket,     \* the connection in Socket; 0: none
    conns,      \* all connections ever dialled
    relayed,    \* per process: the last message passed on to NATS
    accepting,  \* the reader listens
    delivered,  \* per process: the last message the reader has read
    breaks,     \* times the reader has closed or stopped
    calm        \* history: messages begun since the last trouble of any kind

vars == <<process, sent, step, written, socket, conns, relayed, accepting,
          delivered, breaks, calm>>
reader == <<accepting, delivered, breaks>>
link == <<socket, conns>>

Processes == 1 .. MaxProcesses

\* A new connection, open at both ends: the frame being read, and what is buffered.
Dialled(p) == [process |-> p, ours |-> TRUE, theirs |-> TRUE, frame |-> <<>>, buffer |-> <<>>]

Init ==
    /\ process = 1
    /\ sent = [p \in Processes |-> 0]
    /\ step = "idle"
    /\ written = 0
    /\ accepting \in BOOLEAN
    /\ socket = IF accepting THEN 1 ELSE 0
    /\ conns = IF accepting THEN <<Dialled(1)>> ELSE <<>>
    /\ relayed = [p \in Processes |-> 0]
    /\ delivered = [p \in Processes |-> 0]
    /\ breaks = 0
    /\ calm = 0

--------------------------------------------------------------------------------
(* The publisher                                                           *)

\* Mutant of CloseUnixSocket: the connection is only forgotten.
MutCloseUnixSocket == conns

CloseUnixSocket == IF socket = 0 THEN conns ELSE [conns EXCEPT ![socket].ours = FALSE]

\* The previous connection is closed; dialling fails unless the reader listens.
InitUnixSocket(p) ==
    /\ conns' = CloseUnixSocket \o (IF accepting THEN <<Dialled(p)>> ELSE <<>>)
    /\ socket' = IF accepting THEN Len(conns) + 1 ELSE 0

\* Mutant of MustDial: every message dials.
MutMustDial == TRUE

MustDial == socket = 0

Publish ==
    /\ step = "idle"
    /\ sent[process] < MaxMessages
    /\ sent' = [sent EXCEPT ![process] = @ + 1]
    /\ step' = IF MustDial THEN "dial" ELSE "marshal"
    /\ calm' = IF accepting THEN calm + 1 ELSE 0
    /\ UNCHANGED <<process, written, link, relayed, reader>>

\* Mutant of Undialled: Publish returns as PublishToUnixSocket does.
MutUndialled == "idle"

\* Where Publish goes on without a connection: the message is lost to the reader.
Undialled == "nats"

Dial ==
    /\ step = "dial"
    /\ InitUnixSocket(process)
    /\ step' = IF accepting THEN "marshal" ELSE Undialled
    /\ UNCHANGED <<process, sent, written, relayed, reader, calm>>

\* A message that cannot be serialised is lost to the reader as well.
Marshal ==
    /\ step = "marshal"
    /\ \/ step' = "write" /\ UNCHANGED calm
       \/ step' = "nats" /\ calm' = 0
    /\ UNCHANGED <<process, sent, written, link, relayed, reader>>

\* The kernel takes the next piece of the frame as soon as there is room.
WritePiece ==
    /\ step = "write"
    /\ conns[socket].theirs
    /\ Len(conns[socket].buffer) < Capacity
    /\ conns' = [conns EXCEPT ![socket].buffer = Append(@, <<sent[process], written + 1>>)]
    /\ IF written + 1 < Pieces
       THEN written' = written + 1 /\ UNCHANGED step
       ELSE written' = 0 /\ step' = "nats"
    /\ UNCHANGED <<process, sent, socket, relayed, reader, calm>>

\* A write fails because the reader has closed, before or after some pieces.
CannotWrite == ~conns[socket].theirs

\* Mutant of AfterFailure: the connection is kept.
MutAfterFailure == UNCHANGED link

AfterFailure == conns' = CloseUnixSocket /\ socket' = 0

\* Mutant: a write that takes too long is given up, and the connection kept.
MutWriteFails ==
    /\ step = "write"
    /\ ~conns[socket].theirs \/ Len(conns[socket].buffer) = Capacity
    /\ written' = 0
    /\ step' = "nats"
    /\ UNCHANGED <<process, sent, link, relayed, reader, calm>>

WriteFails ==
    /\ step = "write"
    /\ CannotWrite
    /\ AfterFailure
    /\ written' = 0
    /\ step' = "nats"
    /\ UNCHANGED <<process, sent, relayed, reader, calm>>

PublishTo ==
    /\ step = "nats"
    /\ relayed' = [relayed EXCEPT ![process] = sent[process]]
    /\ step' = "idle"
    /\ UNCHANGED <<process, sent, written, link, reader, calm>>

\* The process ends at any point and the next one configures its service, which dials.
Restart ==
    /\ process < MaxProcesses
    /\ process' = process + 1
    /\ InitUnixSocket(process + 1)
    /\ step' = "idle"
    /\ written' = 0
    /\ calm' = 0
    /\ UNCHANGED <<sent, relayed, reader>>

--------------------------------------------------------------------------------
(* The reader                                                              *)

Read(c) ==
    /\ conns[c].theirs
    /\ conns[c].buffer # <<>>
    /\ LET frame == Append(conns[c].frame, Head(conns[c].buffer))
           whole == Len(frame) = Pieces
       IN  /\ conns' = [conns EXCEPT ![c].buffer = Tail(@),
                                     ![c].frame = IF whole THEN <<>> ELSE frame]
           /\ delivered' = IF whole THEN [delivered EXCEPT ![conns[c].process] = frame[1][1]]
                                    ELSE delivered
    /\ UNCHANGED <<process, sent, step, written, socket, relayed, accepting, breaks, calm>>

\* The reader closes its end of some connections, all of them if it stops.
Close(S) ==
    /\ breaks < MaxBreaks
    /\ breaks' = breaks + 1
    /\ conns' = [c \in DOMAIN conns |->
                    IF c \in S
                    THEN [conns[c] EXCEPT !.theirs = FALSE, !.frame = <<>>, !.buffer = <<>>]
                    ELSE conns[c]]
    /\ calm' = 0
    /\ UNCHANGED <<process, sent, step, written, socket, relayed, delivered>>

CloseOne(c) == conns[c].theirs /\ Close({c}) /\ UNCHANGED accepting

StopListening == accepting /\ Close(DOMAIN conns) /\ accepting' = FALSE

Listen ==
    /\ ~accepting
    /\ accepting' = TRUE
    /\ UNCHANGED <<process, sent, step, written, link, relayed, delivered, breaks, calm>>

--------------------------------------------------------------------------------

PublishStep == Publish \/ Dial \/ Marshal \/ WritePiece \/ WriteFails \/ PublishTo

Next ==
    \/ PublishStep \/ Restart
    \/ \E c \in DOMAIN conns : Read(c) \/ CloseOne(c)
    \/ StopListening \/ Listen

\* The publisher goes on, and the reader reads what it keeps open.  It need not
\* listen again once it has stopped.
Spec ==
    /\ Init /\ [][Next]_vars
    /\ WF_vars(PublishStep)
    /\ \A c \in 1 .. MaxProcesses * (MaxMessages + 1) : WF_vars(c \in DOMAIN conns /\ Read(c))

--------------------------------------------------------------------------------
(* Properties                                                              *)

\* The types of the variables; the process holds no connection open but the one in
\* Socket, so that reconnecting leaves no descriptors behind.
TypeOK ==
    /\ process \in Processes
    /\ sent \in [Processes -> 0 .. MaxMessages]
    /\ step \in {"idle", "dial", "marshal", "write", "nats"}
    /\ written \in 0 .. Pieces - 1
    /\ socket \in 0 .. Len(conns) /\ (step = "write" => socket > 0)
    /\ \A c \in DOMAIN conns :
          /\ conns[c].process \in Processes
          /\ Len(conns[c].buffer) <= Capacity /\ Len(conns[c].frame) < Pieces
          /\ conns[c].ours => c = socket
    /\ relayed \in [Processes -> 0 .. MaxMessages]
    /\ delivered \in [Processes -> 0 .. MaxMessages]
    /\ accepting \in BOOLEAN /\ breaks \in 0 .. MaxBreaks /\ calm \in 0 .. MaxMessages

\* What a reader finds on a connection is one whole frame after another, each of its
\* pieces after the one before, cut off at most at the end: a write that failed in the middle of a frame, or a process that
\* ended there, is never followed by another frame on the same connection.
FramesAligned ==
    \A c \in DOMAIN conns :
        LET bytes == conns[c].frame \o conns[c].buffer
        IN  \A i \in DOMAIN bytes :
               IF i > 1 /\ bytes[i - 1][2] < Pieces
               THEN bytes[i] = <<bytes[i - 1][1], bytes[i - 1][2] + 1>>
               ELSE bytes[i][2] = 1

\* The reader gets the messages of a process in order and none twice, over all of
\* its connections, even though it may read them concurrently.
Queue == INSTANCE LossyQueue WITH Channels <- Processes, last <- delivered
KeepsOrder == Queue!Spec

\* A message goes to NATS whatever becomes of the socket, if the reader reads what
\* it keeps open: a Write has no deadline, so one who stops reading would stop it.
ReachesNats ==
    \A p \in Processes, n \in 1 .. MaxMessages :
        process = p /\ sent[p] = n ~> relayed[p] >= n \/ process # p

\* After any trouble one message may still be lost to a connection that turns out to
\* be dead; the reader gets every message from the second on, until the next trouble.
Recovers ==
    \A p \in Processes, n \in 1 .. MaxMessages :
        process = p /\ sent[p] = n /\ calm >= 2 ~> delivered[p] >= n \/ calm < 2

================================================================================
