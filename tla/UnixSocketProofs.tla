--------------------------- MODULE UnixSocketProofs ---------------------------
(***************************************************************************)
(* Proofs about UnixSocket, for any number of processes and messages,      *)
(* frames of any length, any buffer of the kernel and a reader that closes *)
(* as often as it likes: the types with the one open connection, whole     *)
(* frames on every connection, and that the socket implements LossyQueue.  *)
(***************************************************************************)
EXTENDS UnixSocket, SequenceTheorems, TLAPS

\* A piece of a frame: the message and its place in the frame.
Piece == Nat \X Nat
ConnType == [process : Processes, ours : BOOLEAN, theirs : BOOLEAN,
             frame : Seq(Piece), buffer : Seq(Piece)]

\* Piece b comes after piece a: it continues the frame, or begins that of a later message.
Follows(b, a) ==
    \/ a[2] < Pieces /\ b = <<a[1], a[2] + 1>>
    \/ a[2] = Pieces /\ b[2] = 1 /\ a[1] < b[1]

\* Piece b comes after the beginning f of a frame.
Continues(b, f) == IF f = <<>> THEN b[2] = 1 ELSE b = <<f[1][1], Len(f) + 1>>

\* Of a frame the pieces f have been read, the pieces b are to be read next.
InStep(f, b) ==
    /\ Len(f) < Pieces
    /\ \A i \in DOMAIN f : f[i] = <<f[1][1], i>>
    /\ b # <<>> => Continues(b[1], f)
    /\ \A i \in DOMAIN b : i > 1 => Follows(b[i], b[i - 1])
    /\ \A i, j \in DOMAIN b : i <= j => b[i][1] <= b[j][1]

\* The messages of the pieces are later than low, and none is later than high.
Within(f, b, low, high) ==
    /\ \A i \in DOMAIN f : low < f[i][1] /\ f[i][1] <= high
    /\ \A i \in DOMAIN b : low < b[i][1] /\ b[i][1] <= high

\* The last piece on the connection is the w-th of message m, the last of its frame if
\* w is 0.
EndsAt(f, b, m, w) ==
    IF w = 0
    THEN /\ b # <<>> => b[Len(b)][2] = Pieces
         /\ b = <<>> => f = <<>>
    ELSE /\ b # <<>> => b[Len(b)] = <<m, w>>
         /\ b = <<>> => f # <<>> /\ f[1][1] = m /\ Len(f) = w

\* Publish writes to a connection of its own process, and is in a frame only there.
WriterInv ==
    /\ calm <= sent[process]
    /\ step = "dial" => socket = 0
    /\ step \in {"marshal", "write"} => socket > 0
    /\ step # "write" => written = 0
    /\ socket > 0 => conns[socket].process = process

\* A process has at most one connection that the reader keeps open, the running one
\* that in Socket: it dials only after the reader has closed.
OneKeptOpen ==
    /\ \A c \in DOMAIN conns : conns[c].process <= process
    /\ \A c \in DOMAIN conns : conns[c].theirs /\ conns[c].process = process => c = socket
    /\ \A c, d \in DOMAIN conns :
          conns[c].theirs /\ conns[d].theirs /\ conns[c].process = conns[d].process => c = d

\* Nothing is left to read on a connection the reader has closed; on the others the
\* frames are whole and of messages after the last delivered.
FramesInv ==
    \A c \in DOMAIN conns :
        LET k == conns[c]
        IN  /\ ~k.theirs => k.frame = <<>> /\ k.buffer = <<>>
            /\ InStep(k.frame, k.buffer)
            /\ Within(k.frame, k.buffer, delivered[k.process], sent[k.process])

\* The connection in Socket ends where Publish is, and before the message it begins.
TipInv ==
    socket > 0 /\ conns[socket].theirs =>
        LET k == conns[socket]
        IN  /\ EndsAt(k.frame, k.buffer, sent[process], written)
            /\ step \in {"marshal", "write"} /\ written = 0 /\ k.buffer # <<>> =>
                  k.buffer[Len(k.buffer)][1] < sent[process]

\* The reader has no message before it was sent, nor the one Publish still works at.
BehindInv ==
    /\ \A p \in Processes : delivered[p] <= sent[p]
    /\ step \in {"dial", "marshal", "write"} => delivered[process] < sent[process]

SocketInv ==
    /\ TypeOK /\ conns \in Seq(ConnType)
    /\ WriterInv /\ OneKeptOpen /\ FramesInv /\ TipInv /\ BehindInv

--------------------------------------------------------------------------------
(* Sequences of pieces                                                     *)

LEMMA Parameters ==
    /\ MaxProcesses \in Nat \ {0} /\ Pieces \in Nat \ {0} /\ Capacity \in Nat \ {0}
    /\ MaxMessages \in Nat /\ MaxBreaks \in Nat
  BY UnixSocketAssumption

LEMMA PieceTypes ==
    ASSUME NEW b \in Seq(Piece)
    PROVE  /\ Len(b) \in Nat /\ DOMAIN b = 1 .. Len(b)
           /\ \A i \in DOMAIN b : b[i] \in Piece /\ b[i][1] \in Nat /\ b[i][2] \in Nat
           /\ b = <<>> <=> Len(b) = 0
  BY DEF Piece

LEMMA AppendFacts ==
    ASSUME NEW b \in Seq(Piece), NEW e \in Piece
    PROVE  /\ Append(b, e) \in Seq(Piece) /\ Len(Append(b, e)) = Len(b) + 1
           /\ Append(b, e) # <<>>
           /\ DOMAIN Append(b, e) = DOMAIN b \cup {Len(b) + 1}
           /\ \A i \in DOMAIN b : Append(b, e)[i] = b[i]
           /\ Append(b, e)[Len(b) + 1] = e
  OBVIOUS

LEMMA TailFacts ==
    ASSUME NEW b \in Seq(Piece), b # <<>>
    PROVE  /\ Head(b) = b[1] /\ 1 \in DOMAIN b /\ b[1] \in Piece
           /\ Tail(b) \in Seq(Piece) /\ Len(Tail(b)) = Len(b) - 1
           /\ \A i \in DOMAIN Tail(b) : i + 1 \in DOMAIN b /\ Tail(b)[i] = b[i + 1]
           /\ Tail(b) # <<>> => /\ 2 \in DOMAIN b /\ Tail(b)[1] = b[2]
                                /\ Tail(b)[Len(Tail(b))] = b[Len(b)]
           /\ Tail(b) = <<>> => Len(b) = 1
<1>1. Len(b) \in Nat \ {0} /\ DOMAIN b = 1 .. Len(b) /\ \A i \in DOMAIN b : b[i] \in Piece
  OBVIOUS
<1>2. /\ Head(b) = b[1] /\ Tail(b) \in Seq(Piece) /\ Len(Tail(b)) = Len(b) - 1
      /\ DOMAIN Tail(b) = 1 .. Len(b) - 1
      /\ \A i \in 1 .. Len(b) - 1 : Tail(b)[i] = b[i + 1]
      /\ Tail(b) = <<>> <=> Len(b) = 1
  <2>0. Head(b) = b[1]
    OBVIOUS
  <2>1. /\ Tail(b) \in Seq(Piece) /\ Len(Tail(b)) = Len(b) - 1
        /\ \A i \in 1 .. Len(Tail(b)) : Tail(b)[i] = b[i + 1]
    BY HeadTailProperties
  <2>2. DOMAIN Tail(b) = 1 .. Len(Tail(b))
    BY <2>1
  <2>3. Tail(b) = <<>> <=> Len(Tail(b)) = 0
    BY <2>1, PieceTypes
  <2> QED
    BY <1>1, <2>0, <2>1, <2>2, <2>3
<1>3. \A i \in 1 .. Len(b) - 1 : i + 1 \in DOMAIN b
  BY <1>1
<1>4. ASSUME Len(b) # 1
      PROVE  1 \in 1 .. Len(b) - 1 /\ Len(b) - 1 \in 1 .. Len(b) - 1 /\ 2 \in DOMAIN b
  BY <1>1, <1>4
<1>5. ASSUME Len(b) # 1
      PROVE  Tail(b)[1] = b[2] /\ Tail(b)[Len(Tail(b))] = b[Len(b)]
  BY <1>1, <1>2, <1>4, <1>5
<1> QED
  BY <1>1, <1>2, <1>3, <1>4, <1>5

\* The kernel takes a piece that comes after the last one.
LEMMA AppendInStep ==
    ASSUME NEW f \in Seq(Piece), NEW b \in Seq(Piece), NEW e \in Piece, InStep(f, b),
           b = <<>> => Continues(e, f),
           b # <<>> => Follows(e, b[Len(b)]),
           \A i \in DOMAIN b : b[i][1] <= e[1]
    PROVE  InStep(f, Append(b, e))
<1> DEFINE n == Append(b, e)
<1>1. /\ n \in Seq(Piece) /\ n # <<>> /\ Len(b) \in Nat
      /\ DOMAIN n = DOMAIN b \cup {Len(b) + 1} /\ DOMAIN b = 1 .. Len(b)
      /\ \A i \in DOMAIN b : n[i] = b[i] /\ b[i][1] \in Nat
      /\ n[Len(b) + 1] = e /\ e[1] \in Nat
  BY AppendFacts, PieceTypes DEF Piece
<1> HIDE DEF n
<1>2. Continues(n[1], f)
  BY <1>1, PieceTypes DEF InStep
<1>3. \A i \in DOMAIN n : i > 1 => Follows(n[i], n[i - 1])
  <2> SUFFICES ASSUME NEW i \in DOMAIN n, i > 1 PROVE Follows(n[i], n[i - 1])
    OBVIOUS
  <2>1. CASE i \in DOMAIN b
    <3>1. i - 1 \in DOMAIN b
      BY <1>1, <2>1
    <3> QED
      BY <1>1, <2>1, <3>1 DEF InStep
  <2>2. CASE i = Len(b) + 1
    <3>1. Len(b) \in DOMAIN b /\ b # <<>> /\ i - 1 = Len(b)
      BY <1>1, <2>2
    <3> QED
      BY <1>1, <2>2, <3>1
  <2> QED
    BY <1>1, <2>1, <2>2
<1>4. \A i, j \in DOMAIN n : i <= j => n[i][1] <= n[j][1]
  <2> SUFFICES ASSUME NEW i \in DOMAIN n, NEW j \in DOMAIN n, i <= j PROVE n[i][1] <= n[j][1]
    OBVIOUS
  <2>1. CASE j \in DOMAIN b
    BY <1>1, <2>1 DEF InStep
  <2>2. CASE j = Len(b) + 1
    BY <1>1, <2>2
  <2> QED
    BY <1>1, <2>1, <2>2
<1> QED
  BY <1>1, <1>2, <1>3, <1>4 DEF InStep, n

\* What is left to read when the reader has taken the first piece.
LEMMA TailInStep ==
    ASSUME NEW f \in Seq(Piece), NEW b \in Seq(Piece), InStep(f, b), b # <<>>,
           NEW g \in Seq(Piece), Len(g) < Pieces,
           \A i \in DOMAIN g : g[i] = <<g[1][1], i>>,
           Tail(b) # <<>> => Continues(b[2], g)
    PROVE  InStep(g, Tail(b))
<1> DEFINE t == Tail(b)
<1>1. /\ t \in Seq(Piece) /\ DOMAIN t \subseteq Nat \ {0}
      /\ \A i \in DOMAIN t : i + 1 \in DOMAIN b /\ t[i] = b[i + 1]
      /\ t # <<>> => t[1] = b[2]
  BY TailFacts
<1>2. DOMAIN t = 1 .. Len(t) /\ Len(t) \in Nat
  BY <1>1
<1> HIDE DEF t
<1>3. \A i \in DOMAIN t : i > 1 => Follows(t[i], t[i - 1])
  <2> SUFFICES ASSUME NEW i \in DOMAIN t, i > 1 PROVE Follows(t[i], t[i - 1])
    OBVIOUS
  <2>0. i \in Nat /\ i >= 1 /\ i <= Len(t)
    BY <1>2
  <2>4. i - 1 \in 1 .. Len(t)
    BY <1>2, <2>0
  <2>1. i - 1 \in DOMAIN t /\ (i - 1) + 1 = i /\ (i + 1) - 1 = i /\ i + 1 > 1
    BY <1>2, <2>0, <2>4
  <2>2. t[i] = b[i + 1] /\ t[i - 1] = b[i] /\ i + 1 \in DOMAIN b
    BY <1>1, <2>1
  <2>3. Follows(b[i + 1], b[(i + 1) - 1])
    BY <2>1, <2>2 DEF InStep
  <2> QED
    BY <2>1, <2>2, <2>3
<1>4. \A i, j \in DOMAIN t : i <= j => t[i][1] <= t[j][1]
  <2> SUFFICES ASSUME NEW i \in DOMAIN t, NEW j \in DOMAIN t, i <= j PROVE t[i][1] <= t[j][1]
    OBVIOUS
  <2>1. i + 1 \in DOMAIN b /\ j + 1 \in DOMAIN b /\ i + 1 <= j + 1
    BY <1>1, <1>2
  <2> QED
    BY <1>1, <2>1 DEF InStep
<1> QED
  BY <1>1, <1>3, <1>4 DEF InStep, t

\* The reader takes a piece: it continues the frame, and what is left to read comes
\* after it, of a later message if the frame is whole.
LEMMA TakePiece ==
    ASSUME NEW f \in Seq(Piece), NEW b \in Seq(Piece), InStep(f, b), b # <<>>
    PROVE  /\ Append(f, Head(b)) \in Seq(Piece) /\ Len(Append(f, Head(b))) = Len(f) + 1
           /\ Append(f, Head(b))[1][1] = b[1][1]
           /\ \A i \in DOMAIN Append(f, Head(b)) :
                 Append(f, Head(b))[i] = <<b[1][1], i>>
           /\ b[1][2] = Len(f) + 1
           /\ Len(f) + 1 # Pieces => InStep(Append(f, Head(b)), Tail(b))
           /\ Len(f) + 1 = Pieces => /\ InStep(<<>>, Tail(b))
                                     /\ \A i \in DOMAIN Tail(b) : b[1][1] < Tail(b)[i][1]
<1> DEFINE g == Append(f, Head(b))
<1>1. /\ g \in Seq(Piece) /\ Len(g) = Len(f) + 1 /\ g # <<>>
      /\ DOMAIN g = DOMAIN f \cup {Len(f) + 1} /\ Len(f) \in Nat /\ DOMAIN f = 1 .. Len(f)
      /\ \A i \in DOMAIN f : g[i] = f[i]
      /\ g[Len(f) + 1] = b[1] /\ b[1] \in Piece /\ 1 \in DOMAIN b
      /\ f = <<>> <=> Len(f) = 0
  BY AppendFacts, PieceTypes, TailFacts
<1> HIDE DEF g
<1>2. Continues(b[1], f)
  BY DEF InStep
<1>3. b[1] = <<b[1][1], Len(f) + 1>> /\ b[1][1] \in Nat
  BY <1>1, <1>2 DEF Continues, Piece
<1>4. \A i \in DOMAIN f : f[i] = <<b[1][1], i>>
  <2>1. f # <<>> => f[1][1] = b[1][1]
    BY <1>1, <1>2 DEF Continues, Piece
  <2>2. DOMAIN f # {} => f # <<>>
    BY <1>1
  <2> QED
    BY <2>1, <2>2 DEF InStep
<1>5. \A i \in DOMAIN g : g[i] = <<b[1][1], i>>
  BY <1>1, <1>3, <1>4
<1>6. g[1][1] = b[1][1]
  BY <1>1, <1>5
<1>7. Tail(b) # <<>> => 2 \in DOMAIN b /\ Follows(b[2], b[1]) /\ b[2] \in Piece
  <2>1. Tail(b) # <<>> => 2 \in DOMAIN b
    BY TailFacts
  <2>2. \A i \in DOMAIN b : i > 1 => Follows(b[i], b[i - 1])
    BY DEF InStep
  <2>3. 2 - 1 = 1 /\ 2 > 1
    OBVIOUS
  <2> QED
    BY <2>1, <2>2, <2>3, PieceTypes
<1>8. Len(f) < Pieces /\ Pieces \in Nat
  BY Parameters DEF InStep
<1>9. ASSUME Len(f) + 1 # Pieces PROVE InStep(g, Tail(b))
  <2>1. Len(g) < Pieces
    BY <1>1, <1>8, <1>9
  <2>2. Tail(b) # <<>> => Continues(b[2], g)
    <3>1. b[1][2] = Len(f) + 1
      BY <1>3
    <3>2. Tail(b) # <<>> => b[2] = <<b[1][1], (Len(f) + 1) + 1>>
      BY <1>7, <1>8, <1>9, <3>1 DEF Follows
    <3> QED
      BY <1>1, <1>6, <3>2 DEF Continues
  <2>3. \A i \in DOMAIN g : g[i] = <<g[1][1], i>>
    BY <1>5, <1>6
  <2> QED
    BY <1>1, <2>1, <2>2, <2>3, TailInStep
<1>10. ASSUME Len(f) + 1 = Pieces
       PROVE  InStep(<<>>, Tail(b)) /\ \A i \in DOMAIN Tail(b) : b[1][1] < Tail(b)[i][1]
  <2>1. b[1][2] = Pieces
    BY <1>3, <1>10
  <2>2. Tail(b) # <<>> => b[2][2] = 1 /\ b[1][1] < b[2][1]
    BY <1>7, <1>8, <2>1 DEF Follows
  <2>3. InStep(<<>>, Tail(b))
    <3>1. <<>> \in Seq(Piece) /\ Len(<<>>) = 0 /\ DOMAIN <<>> = {}
      OBVIOUS
    <3>2. Tail(b) # <<>> => Continues(b[2], <<>>)
      BY <2>2 DEF Continues
    <3>3. 0 < Pieces
      BY Parameters
    <3> QED
      BY <3>1, <3>2, <3>3, TailInStep
  <2>4. ASSUME NEW i \in DOMAIN Tail(b) PROVE b[1][1] < Tail(b)[i][1]
    <3>1. /\ Tail(b) # <<>> /\ i + 1 \in DOMAIN b /\ Tail(b)[i] = b[i + 1] /\ 2 <= i + 1
          /\ 2 \in DOMAIN b
      <4>1. Tail(b) \in Seq(Piece) /\ i + 1 \in DOMAIN b /\ Tail(b)[i] = b[i + 1]
        BY TailFacts
      <4>2. i \in Nat /\ i >= 1 /\ Tail(b) # <<>>
        BY <4>1
      <4> QED
        BY <4>1, <4>2, TailFacts
    <3>2. b[2][1] <= b[i + 1][1]
      BY <3>1 DEF InStep
    <3>3. b[2][1] \in Nat /\ b[i + 1][1] \in Nat
      BY <3>1, PieceTypes
    <3> QED
      BY <1>3, <2>2, <3>1, <3>2, <3>3
  <2> QED
    BY <2>3, <2>4
<1>11. b[1][2] = Len(f) + 1
  BY <1>3
<1> QED
  BY <1>1, <1>5, <1>6, <1>9, <1>10, <1>11 DEF g

\* The pieces on a connection make whole frames, one after another.
LEMMA InStepAligned ==
    ASSUME NEW f \in Seq(Piece), NEW b \in Seq(Piece), InStep(f, b), NEW i \in DOMAIN (f \o b)
    PROVE  IF i > 1 /\ (f \o b)[i - 1][2] < Pieces
           THEN (f \o b)[i] = <<(f \o b)[i - 1][1], (f \o b)[i - 1][2] + 1>>
           ELSE (f \o b)[i][2] = 1
<1> DEFINE bytes == f \o b
<1>1. /\ Len(f) \in Nat /\ Len(b) \in Nat /\ DOMAIN f = 1 .. Len(f) /\ DOMAIN b = 1 .. Len(b)
      /\ f = <<>> <=> Len(f) = 0
  BY PieceTypes
<1>2. /\ DOMAIN bytes = 1 .. Len(f) + Len(b)
      /\ \A j \in 1 .. Len(f) + Len(b) :
            bytes[j] = IF j <= Len(f) THEN f[j] ELSE b[j - Len(f)]
  <2>1. bytes \in Seq(Piece) /\ Len(bytes) = Len(f) + Len(b)
    BY ConcatProperties
  <2>2. DOMAIN bytes = 1 .. Len(bytes)
    BY <2>1, PieceTypes
  <2> QED
    BY <2>1, <2>2, ConcatProperties
<1> SUFFICES IF i > 1 /\ bytes[i - 1][2] < Pieces
             THEN bytes[i] = <<bytes[i - 1][1], bytes[i - 1][2] + 1>>
             ELSE bytes[i][2] = 1
  OBVIOUS
<1>3. i \in DOMAIN bytes
  OBVIOUS
<1> HIDE DEF bytes
<1>4. i \in Nat /\ i >= 1 /\ i <= Len(f) + Len(b)
  BY <1>1, <1>2, <1>3
<1>5. /\ Len(f) < Pieces /\ Pieces \in Nat
      /\ \A j \in DOMAIN f : f[j] = <<f[1][1], j>>
      /\ b # <<>> => Continues(b[1], f)
      /\ \A j \in DOMAIN b : j > 1 => Follows(b[j], b[j - 1])
  BY Parameters DEF InStep
<1>6. CASE i <= Len(f)
  <2>1. bytes[i] = <<f[1][1], i>>
    BY <1>1, <1>2, <1>4, <1>5, <1>6
  <2>2. i > 1 => bytes[i - 1] = <<f[1][1], i - 1>> /\ i - 1 < Pieces
    <3>1. i > 1 => i - 1 \in 1 .. Len(f) /\ i - 1 \in 1 .. Len(f) + Len(b) /\ i - 1 <= Len(f)
      BY <1>1, <1>4, <1>6
    <3>2. i > 1 => bytes[i - 1] = f[i - 1] /\ i - 1 \in DOMAIN f
      BY <1>1, <1>2, <3>1
    <3>3. i > 1 => f[i - 1] = <<f[1][1], i - 1>>
      BY <1>5, <3>2
    <3>4. i > 1 => i - 1 < Pieces
      BY <1>1, <1>4, <1>5, <1>6
    <3> QED
      BY <3>2, <3>3, <3>4
  <2>3. i > 1 => (i - 1) + 1 = i
    BY <1>4
  <2>4. ~(i > 1) => i = 1
    BY <1>4
  <2> QED
    BY <2>1, <2>2, <2>3, <2>4
<1>7. CASE i = Len(f) + 1
  <2>1. bytes[i] = b[1] /\ b # <<>>
    BY <1>1, <1>2, <1>4, <1>7
  <2>2. CASE f = <<>>
    <3>1. b[1][2] = 1 /\ ~(i > 1)
      BY <1>1, <1>5, <1>7, <2>1, <2>2 DEF Continues
    <3> QED
      BY <2>1, <3>1
  <2>3. CASE f # <<>>
    <3>1. Len(f) \in DOMAIN f /\ Len(f) \in 1 .. Len(f) + Len(b) /\ i - 1 = Len(f) /\ i > 1
      BY <1>1, <1>7, <2>3
    <3>2. f[Len(f)] = <<f[1][1], Len(f)>>
      BY <1>5, <3>1
    <3>3. bytes[Len(f)] = f[Len(f)]
      BY <1>1, <1>2, <3>1
    <3>4. b[1] = <<f[1][1], Len(f) + 1>>
      BY <1>5, <2>1, <2>3 DEF Continues
    <3>5. bytes[i - 1] = <<f[1][1], Len(f)>> /\ bytes[i] = <<f[1][1], Len(f) + 1>>
      BY <2>1, <3>1, <3>2, <3>3, <3>4
    <3> QED
      BY <1>5, <3>1, <3>5
  <2> QED
    BY <2>2, <2>3
<1>8. CASE i > Len(f) + 1
  <2> DEFINE j == i - Len(f)
  <2>1. /\ j \in DOMAIN b /\ j > 1 /\ j - 1 \in DOMAIN b /\ i > 1
        /\ i - 1 \in 1 .. Len(f) + Len(b) /\ ~(i - 1 <= Len(f)) /\ (i - 1) - Len(f) = j - 1
    BY <1>1, <1>4, <1>8
  <2>2. bytes[i] = b[j] /\ bytes[i - 1] = b[j - 1]
    BY <1>1, <1>2, <1>4, <1>8, <2>1
  <2>3. Follows(b[j], b[j - 1]) /\ b[j - 1][2] \in Nat
    BY <1>5, <2>1, PieceTypes
  <2> QED
    BY <1>5, <2>1, <2>2, <2>3 DEF Follows
<1> QED
  BY <1>1, <1>4, <1>6, <1>7, <1>8

--------------------------------------------------------------------------------
(* The invariant                                                           *)

LEMMA EmptyFrames ==
    ASSUME NEW low, NEW high
    PROVE  InStep(<<>>, <<>>) /\ Within(<<>>, <<>>, low, high)
<1>1. <<>> \in Seq(Piece) /\ Len(<<>>) = 0 /\ DOMAIN <<>> = {} /\ 0 < Pieces
  BY Parameters
<1> QED
  BY <1>1 DEF InStep, Within

LEMMA DialledType ==
    ASSUME NEW p \in Processes
    PROVE  /\ Dialled(p) \in ConnType
           /\ Dialled(p).process = p /\ Dialled(p).frame = <<>> /\ Dialled(p).buffer = <<>>
  BY DEF Dialled, ConnType

\* TypeOK of connections that have their types.
LEMMA ConnTypes ==
    ASSUME conns \in Seq(ConnType)
    PROVE  /\ Len(conns) \in Nat /\ DOMAIN conns = 1 .. Len(conns)
           /\ \A c \in DOMAIN conns :
                 /\ conns[c] \in ConnType /\ conns[c].process \in Processes
                 /\ conns[c].ours \in BOOLEAN /\ conns[c].theirs \in BOOLEAN
                 /\ conns[c].frame \in Seq(Piece) /\ conns[c].buffer \in Seq(Piece)
<1>1. Len(conns) \in Nat /\ DOMAIN conns = 1 .. Len(conns)
  OBVIOUS
<1>2. \A c \in DOMAIN conns : conns[c] \in ConnType
  OBVIOUS
<1> QED
  BY <1>1, <1>2 DEF ConnType

LEMMA SocketInit == Init => SocketInv
<1> SUFFICES ASSUME Init PROVE SocketInv
  OBVIOUS
<1> USE Parameters
<1>0. /\ process = 1 /\ process \in Processes /\ step = "idle" /\ written = 0 /\ calm = 0
      /\ sent = [p \in Processes |-> 0] /\ delivered = [p \in Processes |-> 0]
      /\ relayed = [p \in Processes |-> 0] /\ breaks = 0 /\ accepting \in BOOLEAN
      /\ sent[process] = 0
  BY DEF Init, Processes
<1>1. /\ conns \in Seq(ConnType) /\ socket = Len(conns) /\ Len(conns) \in {0, 1}
      /\ \A c \in DOMAIN conns : c = 1 /\ c = socket /\ conns[c] = Dialled(1)
  <2>1. CASE accepting
    <3>1. conns = <<Dialled(1)>> /\ socket = 1
      BY <2>1 DEF Init
    <3> QED
      BY <1>0, <3>1, DialledType
  <2>2. CASE ~accepting
    <3>1. conns = <<>> /\ socket = 0
      BY <2>2 DEF Init
    <3> QED
      BY <3>1
  <2> QED
    BY <2>1, <2>2
<1>2. \A c \in DOMAIN conns : /\ conns[c].process = 1 /\ conns[c].frame = <<>>
                              /\ conns[c].buffer = <<>>
  BY <1>0, <1>1, DialledType
<1>3. TypeOK
  <2>1. Len(<<>>) = 0
    OBVIOUS
  <2>2. \A c \in DOMAIN conns :
          /\ conns[c].process \in Processes
          /\ Len(conns[c].buffer) <= Capacity /\ Len(conns[c].frame) < Pieces
          /\ conns[c].ours => c = socket
    BY <1>0, <1>1, <1>2, <2>1
  <2>3. 0 \in 0 .. MaxMessages /\ 0 \in 0 .. Pieces - 1 /\ 0 \in 0 .. MaxBreaks
    OBVIOUS
  <2>4. socket \in 0 .. Len(conns)
    BY <1>1
  <2> QED
    BY <1>0, <2>2, <2>3, <2>4 DEF TypeOK
<1>4. WriterInv /\ OneKeptOpen
  <2>1. socket > 0 => socket \in DOMAIN conns
    BY <1>1
  <2> QED
    BY <1>0, <1>1, <1>2, <2>1 DEF WriterInv, OneKeptOpen
<1>5. FramesInv
  BY <1>2, EmptyFrames DEF FramesInv
<1>6. TipInv
  <2>1. socket > 0 => socket \in DOMAIN conns
    BY <1>1
  <2> QED
    BY <1>0, <1>2, <2>1 DEF TipInv, EndsAt
<1>7. BehindInv
  BY <1>0 DEF BehindInv
<1> QED
  BY <1>1, <1>3, <1>4, <1>5, <1>6, <1>7 DEF SocketInv

\* What TypeOK says but of the connections.
ScalarTypes ==
    /\ process \in Processes
    /\ sent \in [Processes -> 0 .. MaxMessages] /\ sent[process] \in 0 .. MaxMessages
    /\ step \in {"idle", "dial", "marshal", "write", "nats"}
    /\ written \in 0 .. Pieces - 1
    /\ relayed \in [Processes -> 0 .. MaxMessages]
    /\ delivered \in [Processes -> 0 .. MaxMessages]
    /\ accepting \in BOOLEAN /\ breaks \in 0 .. MaxBreaks /\ calm \in 0 .. MaxMessages

\* And of the connections.
ConnsOK ==
    /\ socket \in 0 .. Len(conns) /\ (step = "write" => socket > 0)
    /\ \A c \in DOMAIN conns :
          /\ Len(conns[c].buffer) <= Capacity /\ Len(conns[c].frame) < Pieces
          /\ conns[c].ours => c = socket

LEMMA TypeParts ==
    ASSUME conns \in Seq(ConnType)
    PROVE  TypeOK <=> ScalarTypes /\ ConnsOK
<1>1. \A c \in DOMAIN conns : conns[c].process \in Processes
  BY ConnTypes
<1>2. ASSUME TypeOK PROVE ScalarTypes /\ ConnsOK
  BY <1>2 DEF TypeOK, ScalarTypes, ConnsOK
<1>3. ASSUME ScalarTypes, ConnsOK PROVE TypeOK
  BY <1>1, <1>3 DEF TypeOK, ScalarTypes, ConnsOK
<1> QED
  BY <1>2, <1>3

LEMMA TypePartsNext ==
    ASSUME conns' \in Seq(ConnType)
    PROVE  TypeOK' <=> ScalarTypes' /\ ConnsOK'
<1>1. \A c \in DOMAIN conns' : conns'[c].process \in Processes
  <2>1. \A c \in DOMAIN conns' : conns'[c] \in ConnType
    OBVIOUS
  <2> QED
    BY <2>1 DEF ConnType
<1>2. ASSUME TypeOK' PROVE ScalarTypes' /\ ConnsOK'
  BY <1>2 DEF TypeOK, ScalarTypes, ConnsOK
<1>3. ASSUME ScalarTypes', ConnsOK' PROVE TypeOK'
  BY <1>1, <1>3 DEF TypeOK, ScalarTypes, ConnsOK
<1> QED
  BY <1>2, <1>3

\* What every step starts from.
LEMMA Before ==
    ASSUME SocketInv
    PROVE  /\ ScalarTypes /\ ConnsOK /\ conns \in Seq(ConnType)
           /\ WriterInv /\ OneKeptOpen /\ FramesInv /\ TipInv /\ BehindInv
           /\ \A p \in Processes : sent[p] \in Nat /\ delivered[p] \in Nat
           /\ sent[process] \in Nat /\ written \in Nat /\ calm \in Nat
           /\ socket \in Nat /\ (socket > 0 => socket \in DOMAIN conns)
<1>1. ScalarTypes /\ ConnsOK /\ conns \in Seq(ConnType)
  BY TypeParts DEF SocketInv
<1>2. socket \in Nat /\ (socket > 0 => socket \in DOMAIN conns)
  BY <1>1, ConnTypes DEF ConnsOK
<1>3. \A p \in Processes : sent[p] \in Nat /\ delivered[p] \in Nat
  BY <1>1, Parameters DEF ScalarTypes
<1>4. sent[process] \in Nat /\ written \in Nat /\ calm \in Nat
  BY <1>1, Parameters DEF ScalarTypes
<1> QED
  BY <1>1, <1>2, <1>3, <1>4 DEF SocketInv

\* A message is given to Publish, which has written all of the one before.
LEMMA PublishStepInv == ASSUME SocketInv, Publish PROVE SocketInv'
<1> USE Parameters
<1>1. /\ step = "idle" /\ sent[process] < MaxMessages
      /\ sent' = [sent EXCEPT ![process] = @ + 1]
      /\ step' = (IF socket = 0 THEN "dial" ELSE "marshal")
      /\ calm' = (IF accepting THEN calm + 1 ELSE 0)
      /\ UNCHANGED <<process, written, socket, conns, relayed, accepting, delivered, breaks>>
  BY DEF Publish, MustDial, link, reader
<1>2. /\ sent \in [Processes -> 0 .. MaxMessages] /\ process \in Processes
      /\ sent[process] \in Nat /\ calm \in Nat /\ calm <= sent[process]
  BY Before DEF ScalarTypes, WriterInv
<1>3. /\ sent' \in [Processes -> 0 .. MaxMessages] /\ sent'[process] = sent[process] + 1
      /\ \A p \in Processes : sent[p] <= sent'[p]
  BY <1>1, <1>2
<1>4. calm' \in 0 .. MaxMessages /\ calm' <= sent'[process]
  BY <1>1, <1>2, <1>3
<1>5. step' \in {"dial", "marshal"} /\ (step' = "dial" <=> socket = 0)
  BY <1>1
<1>6. sent'[process] \in 0 .. MaxMessages
  BY <1>2, <1>3
<1>7. ScalarTypes' /\ ConnsOK' /\ conns' \in Seq(ConnType)
  BY <1>1, <1>3, <1>4, <1>5, <1>6, Before DEF ScalarTypes, ConnsOK
<1>8. WriterInv' /\ OneKeptOpen'
  <2>1. socket \in Nat /\ WriterInv /\ OneKeptOpen
    BY Before
  <2> QED
    BY <1>1, <1>4, <1>5, <2>1 DEF WriterInv, OneKeptOpen
<1>9. FramesInv'
  <2> SUFFICES ASSUME NEW c \in DOMAIN conns
               PROVE  LET k == conns[c]
                      IN  /\ ~k.theirs => k.frame = <<>> /\ k.buffer = <<>>
                          /\ InStep(k.frame, k.buffer)
                          /\ Within(k.frame, k.buffer, delivered[k.process], sent'[k.process])
    BY <1>1 DEF FramesInv
  <2> DEFINE k == conns[c]
  <2>1. /\ ~k.theirs => k.frame = <<>> /\ k.buffer = <<>>
        /\ InStep(k.frame, k.buffer)
        /\ Within(k.frame, k.buffer, delivered[k.process], sent[k.process])
    BY Before DEF FramesInv
  <2>2. k.process \in Processes /\ k.frame \in Seq(Piece) /\ k.buffer \in Seq(Piece)
    BY Before, ConnTypes
  <2>3. sent[k.process] <= sent'[k.process] /\ sent[k.process] \in Nat /\ sent'[k.process] \in Nat
    BY <1>3, <2>2, Before
  <2> HIDE DEF k
  <2>4. Within(k.frame, k.buffer, delivered[k.process], sent'[k.process])
    BY <2>1, <2>2, <2>3, PieceTypes DEF Within
  <2> QED
    BY <2>1, <2>4 DEF k
<1>10. TipInv'
  <2> SUFFICES ASSUME socket > 0, conns[socket].theirs
               PROVE  LET k == conns[socket]
                      IN  /\ EndsAt(k.frame, k.buffer, sent'[process], 0)
                          /\ k.buffer # <<>> => k.buffer[Len(k.buffer)][1] < sent'[process]
    <3>1. written = 0 /\ written' = 0
      BY <1>1, Before DEF WriterInv
    <3> QED
      BY <1>1, <3>1 DEF TipInv
  <2> DEFINE k == conns[socket]
  <2>1. socket \in DOMAIN conns /\ written = 0 /\ k.process = process
    BY <1>1, Before DEF WriterInv
  <2>2. /\ EndsAt(k.frame, k.buffer, sent[process], 0)
        /\ Within(k.frame, k.buffer, delivered[process], sent[process])
        /\ k.buffer \in Seq(Piece)
    BY <2>1, Before, ConnTypes DEF TipInv, FramesInv
  <2> HIDE DEF k
  <2>3. ASSUME k.buffer # <<>> PROVE k.buffer[Len(k.buffer)][1] < sent'[process]
    <3>1. Len(k.buffer) \in DOMAIN k.buffer
      BY <2>2, <2>3, PieceTypes
    <3>2. k.buffer[Len(k.buffer)][1] \in Nat /\ k.buffer[Len(k.buffer)][1] <= sent[process]
      BY <2>2, <3>1, PieceTypes DEF Within
    <3> QED
      BY <1>2, <1>3, <3>2
  <2> QED
    BY <2>2, <2>3 DEF EndsAt, k
<1>11. BehindInv'
  <2>1. \A p \in Processes : delivered[p] <= sent'[p]
    BY <1>1, <1>2, <1>3, Before, Parameters DEF BehindInv
  <2>2. delivered[process] < sent'[process]
    BY <1>2, <1>3, Before DEF BehindInv
  <2> QED
    BY <1>1, <2>1, <2>2 DEF BehindInv
<1> QED
  BY <1>7, <1>8, <1>9, <1>10, <1>11, TypePartsNext DEF SocketInv

\* The connections stay as they are, and Publish is not yet or no longer in a frame.
LEMMA ConnsKept ==
    ASSUME SocketInv, UNCHANGED <<process, sent, socket, conns, delivered, written>>,
           ScalarTypes', step' \in {"marshal", "write"} => step \in {"marshal", "write"},
           step' # "write" => written = 0, step' # "dial",
           calm' <= sent[process]
    PROVE  SocketInv'
<1>1. ScalarTypes' /\ ConnsOK' /\ conns' \in Seq(ConnType)
  BY Before DEF ConnsOK, WriterInv
<1>2. WriterInv'
  BY Before DEF WriterInv
<1>3. OneKeptOpen' /\ FramesInv'
  BY Before DEF OneKeptOpen, FramesInv
<1>4. TipInv' /\ BehindInv'
  BY Before DEF TipInv, BehindInv
<1> QED
  BY <1>1, <1>2, <1>3, <1>4, TypePartsNext DEF SocketInv

LEMMA QuietStepInv == ASSUME SocketInv, Marshal \/ PublishTo \/ Listen PROVE SocketInv'
<1>0. /\ ScalarTypes /\ WriterInv /\ step \in {"idle", "dial", "marshal", "write", "nats"}
      /\ calm <= sent[process]
  BY Before DEF ScalarTypes, WriterInv
<1>1. CASE Marshal
  <2>1. /\ step = "marshal" /\ step' \in {"write", "nats"} /\ (calm' = calm \/ calm' = 0)
        /\ UNCHANGED <<process, sent, written, socket, conns, relayed, accepting, delivered, breaks>>
    BY <1>1 DEF Marshal, link, reader
  <2>2. calm' <= sent[process] /\ calm' \in 0 .. MaxMessages
    BY <1>0, <2>1, Before, Parameters DEF ScalarTypes
  <2>3. ScalarTypes'
    BY <1>0, <2>1, <2>2 DEF ScalarTypes
  <2>4. written = 0
    BY <1>0, <2>1 DEF WriterInv
  <2> QED
    BY <2>1, <2>2, <2>3, <2>4, ConnsKept
<1>2. CASE PublishTo
  <2>1. /\ step = "nats" /\ step' = "idle" /\ relayed' = [relayed EXCEPT ![process] = sent[process]]
        /\ UNCHANGED <<process, sent, written, socket, conns, accepting, delivered, breaks, calm>>
    BY <1>2 DEF PublishTo, link, reader
  <2>2. relayed' \in [Processes -> 0 .. MaxMessages]
    BY <1>0, <2>1 DEF ScalarTypes
  <2>3. ScalarTypes'
    BY <1>0, <2>1, <2>2 DEF ScalarTypes
  <2>4. written = 0
    BY <1>0, <2>1 DEF WriterInv
  <2> QED
    BY <1>0, <2>1, <2>3, <2>4, ConnsKept
<1>3. CASE Listen
  <2>1. /\ accepting' = TRUE
        /\ UNCHANGED <<process, sent, step, written, socket, conns, relayed, delivered, breaks, calm>>
    BY <1>3 DEF Listen, link
  <2>2. ScalarTypes'
    BY <1>0, <2>1 DEF ScalarTypes
  <2>3. /\ WriterInv' /\ OneKeptOpen' /\ FramesInv' /\ TipInv' /\ BehindInv'
        /\ ConnsOK' /\ conns' \in Seq(ConnType)
    BY <2>1, Before DEF WriterInv, OneKeptOpen, FramesInv, TipInv, BehindInv, ConnsOK
  <2> QED
    BY <2>2, <2>3, TypePartsNext DEF SocketInv
<1> QED
  BY <1>1, <1>2, <1>3

\* The connection in Socket is closed at this end.
LEMMA Closed ==
    ASSUME SocketInv
    PROVE  /\ CloseUnixSocket \in Seq(ConnType) /\ Len(CloseUnixSocket) = Len(conns)
           /\ \A c \in DOMAIN conns :
                 LET k == CloseUnixSocket[c]
                 IN  /\ k \in ConnType /\ ~k.ours
                     /\ k.process = conns[c].process /\ k.theirs = conns[c].theirs
                     /\ k.frame = conns[c].frame /\ k.buffer = conns[c].buffer
<1>0. /\ ConnsOK /\ conns \in Seq(ConnType) /\ socket \in Nat
      /\ (socket > 0 => socket \in DOMAIN conns) /\ DOMAIN conns = 1 .. Len(conns)
      /\ \A c \in DOMAIN conns : conns[c] \in ConnType
  BY Before, ConnTypes
<1>1. CASE socket = 0
  <2>1. CloseUnixSocket = conns
    BY <1>1 DEF CloseUnixSocket
  <2>2. \A c \in DOMAIN conns : ~conns[c].ours
    BY <1>0, <1>1 DEF ConnsOK
  <2> QED
    BY <1>0, <2>1, <2>2
<1>2. CASE socket # 0
  <2> DEFINE k == [conns[socket] EXCEPT !.ours = FALSE]
  <2>1. CloseUnixSocket = [conns EXCEPT ![socket] = k]
    BY <1>2 DEF CloseUnixSocket
  <2>2. socket \in 1 .. Len(conns) /\ conns[socket] \in ConnType
    BY <1>0, <1>2
  <2>3. /\ k \in ConnType /\ ~k.ours
        /\ k.process = conns[socket].process /\ k.theirs = conns[socket].theirs
        /\ k.frame = conns[socket].frame /\ k.buffer = conns[socket].buffer
    BY <2>2 DEF ConnType
  <2> HIDE DEF k
  <2>4. /\ CloseUnixSocket \in Seq(ConnType) /\ Len(CloseUnixSocket) = Len(conns)
        /\ \A c \in 1 .. Len(conns) : CloseUnixSocket[c] = IF c = socket THEN k ELSE conns[c]
    BY <1>0, <2>1, <2>2, <2>3, ExceptSeq
  <2>5. \A c \in DOMAIN conns : c # socket => ~conns[c].ours
    BY <1>0 DEF ConnsOK
  <2>6. ASSUME NEW c \in DOMAIN conns, c # socket
        PROVE  CloseUnixSocket[c] = conns[c] /\ ~conns[c].ours /\ conns[c] \in ConnType
    BY <1>0, <2>4, <2>5, <2>6
  <2>7. CloseUnixSocket[socket] = k
    BY <2>2, <2>4
  <2>8. ASSUME NEW c \in DOMAIN conns
        PROVE  LET n == CloseUnixSocket[c]
               IN  /\ n \in ConnType /\ ~n.ours
                   /\ n.process = conns[c].process /\ n.theirs = conns[c].theirs
                   /\ n.frame = conns[c].frame /\ n.buffer = conns[c].buffer
    <3>1. CASE c = socket
      BY <2>3, <2>7, <3>1
    <3>2. CASE c # socket
      BY <2>6, <3>2
    <3> QED
      BY <3>1, <3>2
  <2> QED
    BY <2>4, <2>8
<1> QED
  BY <1>1, <1>2

\* The connections after dialling: those before, closed at this end, and a new one if
\* the reader listens.
LEMMA DialledConns ==
    ASSUME SocketInv, NEW p \in Processes, InitUnixSocket(p)
    PROVE  /\ conns' \in Seq(ConnType) /\ DOMAIN conns \subseteq DOMAIN conns'
           /\ Len(conns') \in Nat /\ DOMAIN conns' = 1 .. Len(conns')
           /\ \A c \in DOMAIN conns :
                 /\ conns'[c] \in ConnType /\ ~conns'[c].ours
                 /\ conns'[c].process = conns[c].process /\ conns'[c].theirs = conns[c].theirs
                 /\ conns'[c].frame = conns[c].frame /\ conns'[c].buffer = conns[c].buffer
           /\ \A c \in DOMAIN conns' : c \notin DOMAIN conns =>
                 c = socket' /\ conns'[c] = Dialled(p)
           /\ accepting => socket' = Len(conns) + 1 /\ socket' \in DOMAIN conns'
           /\ ~accepting => socket' = 0
           /\ socket' \notin DOMAIN conns
<1> DEFINE old == CloseUnixSocket
           new == IF accepting THEN <<Dialled(p)>> ELSE <<>>
<1>1. /\ old \in Seq(ConnType) /\ Len(old) = Len(conns)
      /\ Len(conns) \in Nat /\ DOMAIN conns = 1 .. Len(conns)
  BY Before, ConnTypes, Closed
<1>2. new \in Seq(ConnType) /\ Len(new) = (IF accepting THEN 1 ELSE 0)
      /\ (accepting => new[1] = Dialled(p))
  BY DialledType
<1>3. conns' = old \o new /\ socket' = (IF accepting THEN Len(conns) + 1 ELSE 0)
  BY DEF InitUnixSocket
<1> HIDE DEF old, new
<1>4. /\ conns' \in Seq(ConnType) /\ Len(conns') = Len(conns) + Len(new)
      /\ \A c \in 1 .. Len(conns) + Len(new) :
            conns'[c] = IF c <= Len(conns) THEN old[c] ELSE new[c - Len(conns)]
  BY <1>1, <1>2, <1>3, ConcatProperties
<1>5. Len(new) \in Nat /\ Len(conns') \in Nat /\ DOMAIN conns' = 1 .. Len(conns) + Len(new)
  BY <1>1, <1>2, <1>4
<1>6. DOMAIN conns \subseteq DOMAIN conns'
  BY <1>1, <1>5
<1>7. \A c \in DOMAIN conns : conns'[c] = old[c]
  BY <1>1, <1>4, <1>5
<1>8. ASSUME NEW c \in DOMAIN conns', c \notin DOMAIN conns
      PROVE  accepting /\ c = Len(conns) + 1 /\ conns'[c] = Dialled(p)
  <2>1. c \in Nat /\ c > Len(conns) /\ c <= Len(conns) + Len(new)
    BY <1>1, <1>5, <1>8
  <2>2. accepting
    BY <1>1, <1>2, <2>1
  <2>3. c = Len(conns) + 1 /\ c - Len(conns) = 1 /\ ~(c <= Len(conns))
    BY <1>1, <1>2, <2>1, <2>2
  <2> QED
    BY <1>2, <1>4, <1>5, <2>2, <2>3
<1>9. accepting => socket' = Len(conns) + 1 /\ socket' \in DOMAIN conns'
  BY <1>1, <1>2, <1>3, <1>5
<1>10. ~accepting => socket' = 0
  BY <1>3
<1>11. socket' \notin DOMAIN conns
  BY <1>1, <1>9, <1>10
<1>12. \A c \in DOMAIN conns : LET k == old[c]
                               IN  /\ k \in ConnType /\ ~k.ours
                                   /\ k.process = conns[c].process /\ k.theirs = conns[c].theirs
                                   /\ k.frame = conns[c].frame /\ k.buffer = conns[c].buffer
  BY Closed DEF old
<1> QED
  BY <1>3, <1>4, <1>5, <1>6, <1>7, <1>8, <1>9, <1>10, <1>11, <1>12

\* The running process, or a new one, has dialled.
LEMMA Redial ==
    ASSUME SocketInv, NEW p \in Processes, InitUnixSocket(p), process' = p, process <= p,
           p = process => socket = 0, UNCHANGED <<sent, delivered>>, written' = 0,
           ScalarTypes', step' \in {"idle", "marshal", "nats"},
           step' = "marshal" => accepting /\ step = "dial" /\ p = process, calm' <= sent[p]
    PROVE  SocketInv'
<1>1. /\ conns' \in Seq(ConnType) /\ DOMAIN conns \subseteq DOMAIN conns'
      /\ Len(conns') \in Nat /\ DOMAIN conns' = 1 .. Len(conns')
      /\ \A c \in DOMAIN conns :
            /\ conns'[c] \in ConnType /\ ~conns'[c].ours
            /\ conns'[c].process = conns[c].process /\ conns'[c].theirs = conns[c].theirs
            /\ conns'[c].frame = conns[c].frame /\ conns'[c].buffer = conns[c].buffer
      /\ \A c \in DOMAIN conns' : c \notin DOMAIN conns => c = socket' /\ conns'[c] = Dialled(p)
      /\ socket' \in 0 .. Len(conns')
      /\ accepting => socket' > 0
      /\ socket' > 0 => socket' \in DOMAIN conns' /\ socket' \notin DOMAIN conns
  <2>1. accepting => socket' \in Nat /\ socket' >= 1 /\ socket' <= Len(conns')
    BY DialledConns
  <2>2. Len(conns') \in Nat
    BY DialledConns
  <2>3. socket' \in 0 .. Len(conns')
    BY DialledConns, <2>1, <2>2
  <2>4. accepting => socket' > 0
    BY <2>1
  <2>5. socket' > 0 => socket' \in DOMAIN conns' /\ socket' \notin DOMAIN conns
    BY DialledConns
  <2> QED
    BY DialledConns, <2>3, <2>4, <2>5
<1>2. /\ Dialled(p).process = p /\ Dialled(p).frame = <<>> /\ Dialled(p).buffer = <<>>
      /\ Len(<<>>) = 0
  BY DialledType
<1>3. ConnsOK'
  <2>1. ASSUME NEW c \in DOMAIN conns'
        PROVE  /\ Len(conns'[c].buffer) <= Capacity /\ Len(conns'[c].frame) < Pieces
               /\ conns'[c].ours => c = socket'
    <3>1. CASE c \in DOMAIN conns
      BY <1>1, <3>1, Before DEF ConnsOK
    <3>2. CASE c \notin DOMAIN conns
      BY <1>1, <1>2, <3>2, Parameters
    <3> QED
      BY <3>1, <3>2
  <2> QED
    BY <1>1, <2>1 DEF ConnsOK
<1>4. WriterInv'
  BY <1>1, <1>2 DEF WriterInv
<1>5. OneKeptOpen'
  <2>0. /\ process \in Nat /\ p \in Nat
        /\ \A c \in DOMAIN conns : conns[c].process \in Nat /\ conns[c].process <= process
    <3>1. Processes \subseteq Nat
      BY DEF Processes
    <3>2. process \in Processes /\ \A c \in DOMAIN conns : conns[c].process \in Processes
      BY Before, ConnTypes DEF ScalarTypes
    <3> QED
      BY <3>1, <3>2, Before DEF OneKeptOpen
  <2>1. ASSUME NEW c \in DOMAIN conns, conns[c].theirs PROVE conns[c].process # p
    <3>1. CASE p = process
      <4>1. socket = 0 /\ c # 0
        BY <3>1, Before, ConnTypes
      <4> QED
        BY <2>1, <3>1, <4>1, Before DEF OneKeptOpen
    <3>2. CASE p # process
      BY <2>0, <3>2
    <3> QED
      BY <3>1, <3>2
  <2>2. \A c \in DOMAIN conns' : conns'[c].process <= p
    BY <1>1, <1>2, <2>0
  <2>3. \A c \in DOMAIN conns' : conns'[c].theirs /\ conns'[c].process = p => c = socket'
    BY <1>1, <2>1
  <2>4. ASSUME NEW c \in DOMAIN conns', NEW d \in DOMAIN conns', conns'[c].theirs,
               conns'[d].theirs, conns'[c].process = conns'[d].process
        PROVE  c = d
    <3>1. CASE conns'[c].process = p
      BY <2>3, <2>4, <3>1
    <3>2. CASE conns'[c].process # p
      <4>1. c \in DOMAIN conns /\ d \in DOMAIN conns
        BY <1>1, <1>2, <2>4, <3>2
      <4> QED
        BY <1>1, <2>4, <4>1, Before DEF OneKeptOpen
    <3> QED
      BY <3>1, <3>2
  <2> QED
    BY <2>2, <2>3, <2>4 DEF OneKeptOpen
<1>6. FramesInv'
  <2> SUFFICES ASSUME NEW c \in DOMAIN conns'
               PROVE  LET k == conns'[c]
                      IN  /\ ~k.theirs => k.frame = <<>> /\ k.buffer = <<>>
                          /\ InStep(k.frame, k.buffer)
                          /\ Within(k.frame, k.buffer, delivered[k.process], sent[k.process])
    BY DEF FramesInv
  <2>1. CASE c \in DOMAIN conns
    BY <1>1, <2>1, Before DEF FramesInv
  <2>2. CASE c \notin DOMAIN conns
    BY <1>1, <1>2, <2>2, EmptyFrames
  <2> QED
    BY <2>1, <2>2
<1>7. TipInv'
  BY <1>1, <1>2 DEF TipInv, EndsAt
<1>8. BehindInv'
  BY Before DEF BehindInv
<1> QED
  BY <1>1, <1>3, <1>4, <1>5, <1>6, <1>7, <1>8, TypePartsNext DEF SocketInv

LEMMA DialStepInv == ASSUME SocketInv, Dial \/ Restart PROVE SocketInv'
<1>0. /\ ScalarTypes /\ process \in Nat /\ process >= 1 /\ process <= MaxProcesses
      /\ calm <= sent[process] /\ \A p \in Processes : sent[p] \in Nat
  <2>1. process \in Processes
    BY Before DEF ScalarTypes
  <2>2. process \in Nat /\ process >= 1 /\ process <= MaxProcesses
    BY <2>1, Parameters DEF Processes
  <2> QED
    BY <2>2, Before DEF WriterInv
<1>1. CASE Dial
  <2>1. /\ step = "dial" /\ InitUnixSocket(process)
        /\ step' = (IF accepting THEN "marshal" ELSE "nats")
        /\ UNCHANGED <<process, sent, written, relayed, accepting, delivered, breaks, calm>>
    BY <1>1 DEF Dial, Undialled, reader
  <2>2. socket = 0 /\ written = 0
    BY <2>1, Before DEF WriterInv
  <2>3. step' \in {"marshal", "nats"} /\ (step' = "marshal" => accepting)
    BY <2>1
  <2>4. ScalarTypes' /\ process \in Processes /\ process <= process
    BY <1>0, <2>1, <2>3 DEF ScalarTypes
  <2> QED
    BY <1>0, <2>1, <2>2, <2>3, <2>4, Redial
<1>2. CASE Restart
  <2>1. /\ process < MaxProcesses /\ process' = process + 1 /\ InitUnixSocket(process + 1)
        /\ step' = "idle" /\ written' = 0 /\ calm' = 0
        /\ UNCHANGED <<sent, relayed, accepting, delivered, breaks>>
    BY <1>2 DEF Restart, reader
  <2>2. process + 1 \in Processes /\ process <= process + 1 /\ process + 1 # process
    BY <1>0, <2>1, Parameters DEF Processes
  <2>3. sent[process + 1] \in 0 .. MaxMessages /\ 0 <= sent[process + 1]
    BY <1>0, <2>2, Parameters DEF ScalarTypes
  <2>4. 0 \in 0 .. Pieces - 1 /\ 0 \in 0 .. MaxMessages
    BY Parameters
  <2>5. ScalarTypes'
    BY <1>0, <2>1, <2>2, <2>3, <2>4 DEF ScalarTypes
  <2> QED
    BY <2>1, <2>2, <2>3, <2>5, Redial
<1> QED
  BY <1>1, <1>2

\* A connection that the reader keeps open carries other pieces than before.
LEMMA OneChanged ==
    ASSUME SocketInv, NEW c \in DOMAIN conns, NEW k \in ConnType, conns[c].theirs,
           k.process = conns[c].process, k.ours = conns[c].ours, k.theirs = conns[c].theirs,
           conns' = [conns EXCEPT ![c] = k], UNCHANGED <<process, socket, sent>>,
           Len(k.buffer) <= Capacity, InStep(k.frame, k.buffer),
           Within(k.frame, k.buffer, delivered'[k.process], sent[k.process]),
           \A p \in Processes : p # k.process => delivered'[p] = delivered[p],
           ScalarTypes', calm <= sent[process] => calm' <= sent[process],
           step' = "dial" => step = "dial", step' \in {"marshal", "write"} => socket > 0,
           step' # "write" => written' = 0
    PROVE  /\ ScalarTypes' /\ ConnsOK' /\ conns' \in Seq(ConnType)
           /\ WriterInv' /\ OneKeptOpen' /\ FramesInv'
           /\ DOMAIN conns' = DOMAIN conns /\ conns'[c] = k
           /\ \A d \in DOMAIN conns : d # c => conns'[d] = conns[d]
<1>0. /\ ConnsOK /\ WriterInv /\ OneKeptOpen /\ FramesInv /\ conns \in Seq(ConnType)
      /\ DOMAIN conns = 1 .. Len(conns) /\ (socket > 0 => socket \in DOMAIN conns)
      /\ Len(conns) \in Nat
  BY Before, ConnTypes
<1>1. /\ conns' \in Seq(ConnType) /\ Len(conns') = Len(conns)
      /\ DOMAIN conns' = DOMAIN conns /\ conns'[c] = k
      /\ \A d \in DOMAIN conns : d # c => conns'[d] = conns[d]
  <2>1. c \in 1 .. Len(conns)
    BY <1>0
  <2>2. /\ conns' \in Seq(ConnType) /\ Len(conns') = Len(conns)
        /\ \A d \in 1 .. Len(conns) : conns'[d] = IF d = c THEN k ELSE conns[d]
    BY <1>0, <2>1, ExceptSeq
  <2> QED
    BY <1>0, <2>1, <2>2
<1>2. ConnsOK'
  <2>1. ASSUME NEW d \in DOMAIN conns
        PROVE  /\ Len(conns'[d].buffer) <= Capacity /\ Len(conns'[d].frame) < Pieces
               /\ conns'[d].ours => d = socket
    <3>1. CASE d = c
      BY <1>0, <1>1, <3>1 DEF ConnsOK, InStep
    <3>2. CASE d # c
      BY <1>0, <1>1, <3>2 DEF ConnsOK
    <3> QED
      BY <3>1, <3>2
  <2>2. socket \in 0 .. Len(conns') /\ (step' = "write" => socket > 0)
    BY <1>0, <1>1 DEF ConnsOK
  <2> QED
    BY <1>1, <2>1, <2>2 DEF ConnsOK
<1>3. \A d \in DOMAIN conns : /\ conns'[d].process = conns[d].process
                              /\ conns'[d].theirs = conns[d].theirs
  BY <1>1
<1>4. WriterInv' /\ OneKeptOpen'
  BY <1>0, <1>1, <1>3 DEF WriterInv, OneKeptOpen
<1>5. FramesInv'
  <2> SUFFICES ASSUME NEW d \in DOMAIN conns
               PROVE  LET n == conns'[d]
                      IN  /\ ~n.theirs => n.frame = <<>> /\ n.buffer = <<>>
                          /\ InStep(n.frame, n.buffer)
                          /\ Within(n.frame, n.buffer, delivered'[n.process], sent[n.process])
    BY <1>1 DEF FramesInv
  <2>1. CASE d = c
    BY <1>1, <2>1
  <2>2. CASE d # c /\ conns[d].process = k.process
    <3>1. ~conns[d].theirs
      BY <1>0, <2>2 DEF OneKeptOpen
    <3>2. conns'[d] = conns[d] /\ conns[d].frame = <<>> /\ conns[d].buffer = <<>>
      BY <1>0, <1>1, <2>2, <3>1 DEF FramesInv
    <3> QED
      BY <3>2, EmptyFrames
  <2>3. CASE d # c /\ conns[d].process # k.process
    <3>1. conns'[d] = conns[d] /\ delivered'[conns[d].process] = delivered[conns[d].process]
      BY <1>0, <1>1, <2>3, ConnTypes
    <3> QED
      BY <1>0, <3>1 DEF FramesInv
  <2> QED
    BY <2>1, <2>2, <2>3
<1> QED
  BY <1>1, <1>2, <1>4, <1>5

\* The kernel takes a piece of the frame that Publish writes.
LEMMA WritePieceInv == ASSUME SocketInv, WritePiece PROVE SocketInv'
<1> DEFINE k == conns[socket]
           e == <<sent[process], written + 1>>
           n == [k EXCEPT !.buffer = Append(k.buffer, e)]
<1>1. /\ step = "write" /\ k.theirs /\ Len(k.buffer) < Capacity
      /\ conns' = [conns EXCEPT ![socket] = n]
      /\ \/ written + 1 < Pieces /\ written' = written + 1 /\ step' = "write"
         \/ ~(written + 1 < Pieces) /\ written' = 0 /\ step' = "nats"
      /\ UNCHANGED <<process, sent, socket, relayed, accepting, delivered, breaks, calm>>
  BY DEF WritePiece, reader
<1>2. /\ socket > 0 /\ socket \in DOMAIN conns /\ k.process = process
      /\ k \in ConnType /\ k.frame \in Seq(Piece) /\ k.buffer \in Seq(Piece)
      /\ process \in Processes /\ sent[process] \in Nat /\ written \in 0 .. Pieces - 1
  BY <1>1, Before, ConnTypes DEF WriterInv, ScalarTypes
<1>3. /\ InStep(k.frame, k.buffer)
      /\ Within(k.frame, k.buffer, delivered[process], sent[process])
      /\ EndsAt(k.frame, k.buffer, sent[process], written)
      /\ written = 0 /\ k.buffer # <<>> => k.buffer[Len(k.buffer)][1] < sent[process]
  BY <1>1, <1>2, Before DEF FramesInv, TipInv
<1>4. e \in Piece /\ e[1] = sent[process] /\ e[2] = written + 1
  BY <1>2 DEF Piece
<1>5. /\ n \in ConnType /\ n.process = k.process /\ n.ours = k.ours /\ n.theirs = k.theirs
      /\ n.frame = k.frame /\ n.buffer = Append(k.buffer, e)
  BY <1>2, <1>4, AppendFacts DEF ConnType
<1>6. delivered[process] \in Nat /\ delivered[process] < sent[process]
  BY <1>1, <1>2, Before DEF BehindInv
<1>7. \A i \in DOMAIN k.buffer : k.buffer[i][1] <= e[1]
  BY <1>3, <1>4 DEF Within
<1> HIDE DEF k
<1>8. Len(k.buffer) = 0 <=> k.buffer = <<>>
  BY <1>2, PieceTypes
<1>9. InStep(n.frame, n.buffer)
  <2>1. ASSUME k.buffer = <<>> PROVE Continues(e, k.frame)
    <3>1. CASE written = 0
      BY <1>3, <1>4, <2>1, <3>1 DEF EndsAt, Continues
    <3>2. CASE written # 0
      BY <1>3, <1>4, <2>1, <3>2 DEF EndsAt, Continues
    <3> QED
      BY <3>1, <3>2
  <2>2. ASSUME k.buffer # <<>> PROVE Follows(e, k.buffer[Len(k.buffer)])
    <3>1. CASE written = 0
      BY <1>3, <1>4, <2>2, <3>1 DEF EndsAt, Follows
    <3>2. CASE written # 0
      <4>1. k.buffer[Len(k.buffer)] = <<sent[process], written>> /\ written < Pieces
        BY <1>2, <1>3, <2>2, <3>2, Parameters DEF EndsAt
      <4> QED
        BY <1>4, <4>1 DEF Follows
    <3> QED
      BY <3>1, <3>2
  <2> QED
    BY <1>2, <1>3, <1>4, <1>5, <1>7, <2>1, <2>2, AppendInStep
<1>10. Within(n.frame, n.buffer, delivered[process], sent[process])
  <2>1. \A i \in DOMAIN n.buffer : n.buffer[i] = e \/ (i \in DOMAIN k.buffer /\ n.buffer[i] = k.buffer[i])
    BY <1>2, <1>4, <1>5, AppendFacts
  <2> QED
    BY <1>2, <1>3, <1>4, <1>5, <1>6, <2>1 DEF Within
<1>11. Len(n.buffer) <= Capacity /\ Len(n.buffer) = Len(k.buffer) + 1
  BY <1>1, <1>2, <1>4, <1>5, AppendFacts, PieceTypes, Parameters
<1>12. written' \in 0 .. Pieces - 1 /\ step' \in {"write", "nats"} /\ (step' # "write" => written' = 0)
  BY <1>1, <1>2, Parameters
<1>13. ScalarTypes'
  BY <1>1, <1>12, Before DEF ScalarTypes
<1> HIDE DEF n
<1>14. /\ ScalarTypes' /\ ConnsOK' /\ conns' \in Seq(ConnType)
       /\ WriterInv' /\ OneKeptOpen' /\ FramesInv' /\ conns'[socket] = n
  BY <1>1, <1>2, <1>5, <1>9, <1>10, <1>11, <1>12, <1>13, OneChanged DEF k
<1>15. n.buffer # <<>> /\ n.buffer[Len(n.buffer)] = e
  BY <1>2, <1>4, <1>5, <1>11, AppendFacts
<1>16. TipInv'
  <2>1. EndsAt(n.frame, n.buffer, sent[process], written')
    <3>1. CASE written + 1 < Pieces
      BY <1>1, <1>2, <1>15, <3>1 DEF EndsAt
    <3>2. CASE ~(written + 1 < Pieces)
      <4>1. written' = 0 /\ written + 1 = Pieces
        BY <1>1, <1>2, <3>2, Parameters
      <4> QED
        BY <1>4, <1>15, <4>1 DEF EndsAt
    <3> QED
      BY <3>1, <3>2
  <2>2. ~(step' \in {"marshal", "write"} /\ written' = 0)
    BY <1>1, <1>2
  <2> QED
    BY <1>1, <1>14, <2>1, <2>2 DEF TipInv
<1>17. BehindInv'
  BY <1>1, Before DEF BehindInv
<1> QED
  BY <1>14, <1>16, <1>17, TypePartsNext DEF SocketInv

\* A write fails: the connection, which the reader has closed, is given up.
LEMMA WriteFailsInv == ASSUME SocketInv, WriteFails PROVE SocketInv'
<1>1. /\ step = "write" /\ ~conns[socket].theirs /\ conns' = CloseUnixSocket /\ socket' = 0
      /\ written' = 0 /\ step' = "nats"
      /\ UNCHANGED <<process, sent, relayed, accepting, delivered, breaks, calm>>
  BY DEF WriteFails, CannotWrite, AfterFailure, reader
<1>2. /\ conns' \in Seq(ConnType) /\ Len(conns') = Len(conns) /\ DOMAIN conns' = DOMAIN conns
      /\ \A c \in DOMAIN conns :
            /\ ~conns'[c].ours
            /\ conns'[c].process = conns[c].process /\ conns'[c].theirs = conns[c].theirs
            /\ conns'[c].frame = conns[c].frame /\ conns'[c].buffer = conns[c].buffer
  <2>1. /\ conns' \in Seq(ConnType) /\ Len(conns') = Len(conns)
        /\ \A c \in DOMAIN conns :
              LET k == conns'[c]
              IN  /\ k \in ConnType /\ ~k.ours
                  /\ k.process = conns[c].process /\ k.theirs = conns[c].theirs
                  /\ k.frame = conns[c].frame /\ k.buffer = conns[c].buffer
    BY <1>1, Closed
  <2>2. DOMAIN conns' = DOMAIN conns
    BY <2>1, Before, ConnTypes
  <2> QED
    BY <2>1, <2>2
<1>3. ScalarTypes'
  <2>1. 0 \in 0 .. Pieces - 1
    BY Parameters
  <2> QED
    BY <1>1, <2>1, Before DEF ScalarTypes
<1>4. ConnsOK'
  <2>1. Len(conns') \in Nat
    BY <1>2, Before, ConnTypes
  <2> QED
    BY <1>1, <1>2, <2>1, Before DEF ConnsOK
<1>5. WriterInv' /\ TipInv' /\ BehindInv'
  BY <1>1, Before DEF WriterInv, TipInv, BehindInv
<1>6. OneKeptOpen'
  BY <1>1, <1>2, Before DEF OneKeptOpen
<1>7. FramesInv'
  BY <1>1, <1>2, Before DEF FramesInv
<1> QED
  BY <1>2, <1>3, <1>4, <1>5, <1>6, <1>7, TypePartsNext DEF SocketInv

\* The reader closes its end of some connections.
LEMMA CloseInv ==
    ASSUME SocketInv, NEW S, Close(S), accepting' \in BOOLEAN
    PROVE  SocketInv'
<1> DEFINE Shut(k) == [k EXCEPT !.theirs = FALSE, !.frame = <<>>, !.buffer = <<>>]
<1>1. /\ breaks < MaxBreaks /\ breaks' = breaks + 1 /\ calm' = 0
      /\ conns' = [c \in DOMAIN conns |-> IF c \in S THEN Shut(conns[c]) ELSE conns[c]]
      /\ UNCHANGED <<process, sent, step, written, socket, relayed, delivered>>
  BY DEF Close
<1>2. ASSUME NEW k \in ConnType
      PROVE  /\ Shut(k) \in ConnType /\ Shut(k).process = k.process /\ Shut(k).ours = k.ours
             /\ ~Shut(k).theirs /\ Shut(k).frame = <<>> /\ Shut(k).buffer = <<>>
  <2>1. <<>> \in Seq(Piece)
    OBVIOUS
  <2> QED
    BY <2>1 DEF ConnType
<1> HIDE DEF Shut
<1>3. /\ DOMAIN conns = 1 .. Len(conns) /\ Len(conns) \in Nat
      /\ \A c \in DOMAIN conns : conns[c] \in ConnType
  BY Before, ConnTypes
<1>4. /\ conns' \in Seq(ConnType) /\ DOMAIN conns' = DOMAIN conns /\ Len(conns') = Len(conns)
      /\ \A c \in DOMAIN conns :
            conns'[c] = conns[c] \/ (conns'[c] = Shut(conns[c]) /\ conns[c] \in ConnType)
  <2>1. conns' \in [1 .. Len(conns) -> ConnType]
    BY <1>1, <1>2, <1>3
  <2>2. conns' \in Seq(ConnType) /\ Len(conns') = Len(conns)
    BY <1>3, <2>1
  <2> QED
    BY <1>1, <1>3, <2>2
<1>5. \A c \in DOMAIN conns :
         /\ conns'[c].process = conns[c].process /\ conns'[c].ours = conns[c].ours
         /\ \/ conns'[c] = conns[c]
            \/ ~conns'[c].theirs /\ conns'[c].frame = <<>> /\ conns'[c].buffer = <<>>
  BY <1>2, <1>4
<1>6. ScalarTypes'
  <2>1. breaks' \in 0 .. MaxBreaks
    <3>1. breaks \in 0 .. MaxBreaks
      BY Before DEF ScalarTypes
    <3> QED
      BY <1>1, <3>1, Parameters
  <2>2. calm' \in 0 .. MaxMessages
    BY <1>1, Parameters
  <2> QED
    BY <1>1, <2>1, <2>2, Before DEF ScalarTypes
<1>7. ConnsOK'
  <2>1. Len(<<>>) = 0 /\ 0 < Pieces /\ 0 <= Capacity
    BY Parameters
  <2> QED
    BY <1>1, <1>4, <1>5, <2>1, Before DEF ConnsOK
<1>8. WriterInv' /\ BehindInv'
  <2>1. socket > 0 => conns'[socket].process = conns[socket].process
    BY <1>5, Before
  <2>2. calm' <= sent[process]
    BY <1>1, Before
  <2> QED
    BY <1>1, <2>1, <2>2, Before DEF WriterInv, BehindInv
<1>9. OneKeptOpen'
  <2>1. \A c \in DOMAIN conns : conns'[c].theirs => conns[c].theirs
    BY <1>5
  <2>2. \A c \in DOMAIN conns : conns'[c].process = conns[c].process
    BY <1>5
  <2> QED
    BY <1>1, <1>4, <2>1, <2>2, Before DEF OneKeptOpen
<1>10. FramesInv'
  <2> SUFFICES ASSUME NEW c \in DOMAIN conns
               PROVE  LET n == conns'[c]
                      IN  /\ ~n.theirs => n.frame = <<>> /\ n.buffer = <<>>
                          /\ InStep(n.frame, n.buffer)
                          /\ Within(n.frame, n.buffer, delivered[n.process], sent[n.process])
    BY <1>1, <1>4 DEF FramesInv
  <2>1. CASE conns'[c] = conns[c]
    BY <2>1, Before DEF FramesInv
  <2>2. CASE ~conns'[c].theirs /\ conns'[c].frame = <<>> /\ conns'[c].buffer = <<>>
    BY <2>2, EmptyFrames
  <2> QED
    BY <1>5, <2>1, <2>2
<1>11. TipInv'
  <2>1. socket > 0 /\ conns'[socket].theirs => conns'[socket] = conns[socket]
    BY <1>5, Before
  <2> QED
    BY <1>1, <2>1, Before DEF TipInv
<1> QED
  BY <1>4, <1>6, <1>7, <1>8, <1>9, <1>10, <1>11, TypePartsNext DEF SocketInv

\* The reader takes a piece of a connection, and has a message if the frame is whole.
LEMMA ReadFacts ==
    ASSUME SocketInv, NEW c \in DOMAIN conns, Read(c)
    PROVE  LET k == conns[c]
               whole == Len(k.frame) + 1 = Pieces
               m == k.buffer[1][1]
               n == [k EXCEPT !.buffer = Tail(k.buffer),
                              !.frame = IF whole THEN <<>> ELSE Append(k.frame, Head(k.buffer))]
           IN  /\ k.theirs /\ k.buffer # <<>> /\ k \in ConnType
               /\ k.frame \in Seq(Piece) /\ k.buffer \in Seq(Piece) /\ k.process \in Processes
               /\ InStep(k.frame, k.buffer)
               /\ Within(k.frame, k.buffer, delivered[k.process], sent[k.process])
               /\ conns' = [conns EXCEPT ![c] = n]
               /\ whole => delivered' = [delivered EXCEPT ![k.process] = m]
               /\ ~whole => delivered' = delivered
               /\ UNCHANGED <<process, sent, step, written, socket, relayed, accepting, breaks, calm>>
               /\ m \in Nat /\ delivered[k.process] < m /\ m <= sent[k.process]
<1> DEFINE k == conns[c]
           whole == Len(k.frame) + 1 = Pieces
           m == k.buffer[1][1]
           g == Append(k.frame, Head(k.buffer))
<1>1. /\ k.theirs /\ k.buffer # <<>>
      /\ conns' = [conns EXCEPT ![c].buffer = Tail(@),
                                ![c].frame = IF Len(g) = Pieces THEN <<>> ELSE g]
      /\ delivered' = (IF Len(g) = Pieces THEN [delivered EXCEPT ![k.process] = g[1][1]]
                                          ELSE delivered)
      /\ UNCHANGED <<process, sent, step, written, socket, relayed, accepting, breaks, calm>>
  BY DEF Read
<1>2. /\ k \in ConnType /\ k.frame \in Seq(Piece) /\ k.buffer \in Seq(Piece)
      /\ k.process \in Processes /\ conns \in Seq(ConnType)
  BY Before, ConnTypes
<1>3. /\ InStep(k.frame, k.buffer)
      /\ Within(k.frame, k.buffer, delivered[k.process], sent[k.process])
  BY Before DEF FramesInv
<1>4. Len(g) = Len(k.frame) + 1 /\ g[1][1] = m
  BY <1>1, <1>2, <1>3, TakePiece
<1>5. /\ whole => delivered' = [delivered EXCEPT ![k.process] = m]
      /\ ~whole => delivered' = delivered
  BY <1>1, <1>4
<1>6. conns' = [conns EXCEPT ![c] = [k EXCEPT !.buffer = Tail(k.buffer),
                                              !.frame = IF whole THEN <<>> ELSE g]]
  BY <1>1, <1>2, <1>4
<1>7. 1 \in DOMAIN k.buffer /\ m \in Nat
  BY <1>1, <1>2, TailFacts, PieceTypes
<1>8. delivered[k.process] < m /\ m <= sent[k.process]
  BY <1>3, <1>7 DEF Within
<1> QED
  BY <1>1, <1>2, <1>3, <1>5, <1>6, <1>7, <1>8

LEMMA ReadInv == ASSUME SocketInv, NEW c \in DOMAIN conns, Read(c) PROVE SocketInv'
<1> DEFINE k == conns[c]
           whole == Len(k.frame) + 1 = Pieces
           m == k.buffer[1][1]
           g == Append(k.frame, Head(k.buffer))
           t == Tail(k.buffer)
           f == IF whole THEN <<>> ELSE g
           n == [k EXCEPT !.buffer = t, !.frame = f]
<1>1. /\ k.theirs /\ k.buffer # <<>> /\ k \in ConnType
      /\ k.frame \in Seq(Piece) /\ k.buffer \in Seq(Piece) /\ k.process \in Processes
      /\ InStep(k.frame, k.buffer)
      /\ Within(k.frame, k.buffer, delivered[k.process], sent[k.process])
      /\ conns' = [conns EXCEPT ![c] = n]
      /\ whole => delivered' = [delivered EXCEPT ![k.process] = m]
      /\ ~whole => delivered' = delivered
      /\ UNCHANGED <<process, sent, step, written, socket, relayed, accepting, breaks, calm>>
      /\ m \in Nat /\ delivered[k.process] < m /\ m <= sent[k.process]
  BY ReadFacts
<1>2. /\ g \in Seq(Piece) /\ g # <<>> /\ Len(g) = Len(k.frame) + 1 /\ g[1][1] = m
      /\ \A i \in DOMAIN g : g[i] = <<m, i>>
      /\ k.buffer[1][2] = Len(k.frame) + 1
      /\ ~whole => InStep(g, t)
      /\ whole => InStep(<<>>, t) /\ \A i \in DOMAIN t : m < t[i][1]
  <2>1. Head(k.buffer) \in Piece
    BY <1>1, TailFacts
  <2> QED
    BY <1>1, <2>1, TakePiece, AppendFacts
<1>3. /\ t \in Seq(Piece) /\ Len(t) = Len(k.buffer) - 1 /\ Len(k.buffer) \in Nat
      /\ \A i \in DOMAIN t : i + 1 \in DOMAIN k.buffer /\ t[i] = k.buffer[i + 1]
      /\ t # <<>> => t[Len(t)] = k.buffer[Len(k.buffer)]
      /\ t = <<>> => Len(k.buffer) = 1
      /\ 1 \in DOMAIN k.buffer /\ Len(k.buffer) \in DOMAIN k.buffer
      /\ 1 <= Len(k.buffer)
  <2>1. Len(k.buffer) \in Nat /\ Len(k.buffer) # 0 /\ DOMAIN k.buffer = 1 .. Len(k.buffer)
    BY <1>1, PieceTypes
  <2>2. 1 <= Len(k.buffer) /\ Len(k.buffer) \in 1 .. Len(k.buffer)
    BY <2>1
  <2>3. /\ t \in Seq(Piece) /\ Len(t) = Len(k.buffer) - 1 /\ 1 \in DOMAIN k.buffer
        /\ \A i \in DOMAIN t : i + 1 \in DOMAIN k.buffer /\ t[i] = k.buffer[i + 1]
        /\ t # <<>> => t[Len(t)] = k.buffer[Len(k.buffer)]
        /\ t = <<>> => Len(k.buffer) = 1
    BY <1>1, TailFacts
  <2> QED
    BY <2>1, <2>2, <2>3
<1>4. f \in Seq(Piece) /\ InStep(f, t)
  <2>1. <<>> \in Seq(Piece)
    OBVIOUS
  <2>2. CASE whole
    BY <1>2, <2>1, <2>2
  <2>3. CASE ~whole
    BY <1>2, <2>3
  <2> QED
    BY <2>2, <2>3
<1>5. /\ n \in ConnType /\ n.process = k.process /\ n.ours = k.ours /\ n.theirs = k.theirs
      /\ n.frame = f /\ n.buffer = t
  BY <1>1, <1>3, <1>4 DEF ConnType
<1> HIDE DEF n
<1>6. /\ sent[k.process] \in 0 .. MaxMessages /\ delivered \in [Processes -> 0 .. MaxMessages]
      /\ m \in 0 .. MaxMessages
  <2>1. sent[k.process] \in 0 .. MaxMessages /\ delivered \in [Processes -> 0 .. MaxMessages]
    BY <1>1, Before DEF ScalarTypes
  <2>2. m \in Nat /\ m <= sent[k.process]
    BY <1>1
  <2> QED
    BY <2>1, <2>2, Parameters
<1>7. /\ delivered' \in [Processes -> 0 .. MaxMessages]
      /\ delivered'[k.process] = (IF whole THEN m ELSE delivered[k.process])
      /\ \A p \in Processes : p # k.process => delivered'[p] = delivered[p]
  BY <1>1, <1>6
<1>8. ScalarTypes'
  BY <1>1, <1>7, Before DEF ScalarTypes
<1>9. Within(f, t, delivered'[k.process], sent[k.process])
  <2>1. CASE whole
    <3>1. f = <<>> /\ DOMAIN f = {} /\ delivered'[k.process] = m
      BY <1>7, <2>1
    <3>2. \A i \in DOMAIN t : m < t[i][1] /\ t[i][1] <= sent[k.process]
      BY <1>1, <1>2, <1>3, <2>1 DEF Within
    <3> QED
      BY <3>1, <3>2 DEF Within
  <2>2. CASE ~whole
    <3>1. f = g /\ delivered'[k.process] = delivered[k.process]
      BY <1>7, <2>2
    <3>2. \A i \in DOMAIN t : delivered[k.process] < t[i][1] /\ t[i][1] <= sent[k.process]
      BY <1>1, <1>3 DEF Within
    <3>3. \A i \in DOMAIN g : delivered[k.process] < g[i][1] /\ g[i][1] <= sent[k.process]
      BY <1>1, <1>2
    <3> QED
      BY <3>1, <3>2, <3>3 DEF Within
  <2> QED
    BY <2>1, <2>2
<1>10. Len(n.buffer) <= Capacity
  <2>1. Len(k.buffer) <= Capacity
    BY Before DEF ConnsOK
  <2> QED
    BY <1>3, <1>5, <2>1, Parameters
<1>11. /\ step = "dial" => socket = 0
       /\ step \in {"marshal", "write"} => socket > 0 /\ step # "dial"
       /\ step # "write" => written = 0
  BY Before DEF WriterInv
<1> HIDE DEF t, f, g
<1>12. /\ ScalarTypes' /\ ConnsOK' /\ conns' \in Seq(ConnType)
       /\ WriterInv' /\ OneKeptOpen' /\ FramesInv'
       /\ DOMAIN conns' = DOMAIN conns /\ conns'[c] = n
       /\ \A d \in DOMAIN conns : d # c => conns'[d] = conns[d]
  BY <1>1, <1>4, <1>5, <1>7, <1>8, <1>9, <1>10, <1>11, OneChanged
<1>13. socket = c => /\ process = k.process /\ written \in 0 .. Pieces - 1
                     /\ EndsAt(k.frame, k.buffer, sent[process], written)
                     /\ step \in {"marshal", "write"} /\ written = 0 =>
                           k.buffer[Len(k.buffer)][1] < sent[process]
  <2>1. socket = c => socket > 0
    BY Before, ConnTypes
  <2> QED
    BY <1>1, <2>1, Before DEF TipInv, WriterInv, ScalarTypes
<1>14. TipInv'
  <2>1. CASE socket # c
    <3>1. socket > 0 => conns'[socket] = conns[socket]
      BY <1>12, <2>1, Before
    <3> QED
      BY <1>1, <3>1, Before DEF TipInv
  <2>2. CASE socket = c
    <3>1. t # <<>> => t[Len(t)] = k.buffer[Len(k.buffer)]
      BY <1>3 DEF t
    <3>2. t = <<>> => k.buffer[1] = k.buffer[Len(k.buffer)]
      BY <1>3 DEF t
    <3>3. EndsAt(f, t, sent[process], written)
      <4>1. CASE written = 0
        <5>1. k.buffer[Len(k.buffer)][2] = Pieces
          BY <1>1, <1>13, <2>2, <4>1 DEF EndsAt
        <5>2. t = <<>> => f = <<>>
          BY <1>2, <3>2, <5>1 DEF f
        <5> QED
          BY <3>1, <4>1, <5>1, <5>2 DEF EndsAt
      <4>2. CASE written # 0
        <5>1. k.buffer[Len(k.buffer)] = <<sent[process], written>> /\ written < Pieces
          BY <1>1, <1>13, <2>2, <4>2, Parameters DEF EndsAt
        <5>2. t = <<>> => /\ written = Len(k.frame) + 1 /\ m = sent[process]
          BY <1>2, <3>2, <5>1
        <5>3. t = <<>> => ~whole
          BY <5>1, <5>2
        <5>4. t = <<>> => f # <<>> /\ f[1][1] = sent[process] /\ Len(f) = written
          BY <1>2, <5>2, <5>3 DEF f, g
        <5> QED
          BY <3>1, <4>2, <5>1, <5>4 DEF EndsAt
      <4> QED
        BY <4>1, <4>2
    <3> QED
      BY <1>1, <1>5, <1>12, <1>13, <2>2, <3>1, <3>3 DEF TipInv
  <2> QED
    BY <2>1, <2>2
<1>15. BehindInv'
  <2>1. \A p \in Processes : delivered'[p] <= sent[p]
    BY <1>1, <1>7, Before DEF BehindInv
  <2>2. ASSUME step \in {"dial", "marshal", "write"}, whole, k.process = process
        PROVE  m < sent[process]
    <3>1. socket = c /\ step \in {"marshal", "write"}
      <4>1. socket = c
        BY <1>1, <2>2, Before DEF OneKeptOpen
      <4>2. socket # 0
        BY <4>1, Before, ConnTypes
      <4> QED
        BY <1>11, <2>2, <4>1, <4>2
    <3>2. CASE written = 0
      <4>1. k.buffer[Len(k.buffer)][1] < sent[process]
        BY <1>13, <3>1, <3>2
      <4>2. m <= k.buffer[Len(k.buffer)][1]
        BY <1>1, <1>3 DEF InStep
      <4>3. k.buffer[Len(k.buffer)][1] \in Nat /\ sent[process] \in Nat
        BY <1>1, <1>3, PieceTypes, Before
      <4> QED
        BY <1>1, <4>1, <4>2, <4>3
    <3>3. CASE written # 0
      <4>1. k.buffer[Len(k.buffer)] = <<sent[process], written>> /\ written < Pieces
        BY <1>1, <1>13, <3>1, <3>3, Parameters DEF EndsAt
      <4>2. t # <<>>
        BY <1>2, <1>3, <2>2, <4>1 DEF t
      <4>3. Len(t) \in DOMAIN t /\ t[Len(t)] = k.buffer[Len(k.buffer)]
        BY <1>3, <4>2, PieceTypes DEF t
      <4>4. m < t[Len(t)][1]
        BY <1>2, <2>2, <4>3 DEF t
      <4> QED
        BY <4>1, <4>3, <4>4
    <3> QED
      BY <3>2, <3>3
  <2>3. step \in {"dial", "marshal", "write"} => delivered'[process] < sent[process]
    <3>1. step \in {"dial", "marshal", "write"} => delivered[process] < sent[process]
      BY Before DEF BehindInv
    <3>2. process \in Processes
      BY Before DEF ScalarTypes
    <3> QED
      BY <1>7, <2>2, <3>1, <3>2
  <2> QED
    BY <1>1, <2>1, <2>3 DEF BehindInv
<1> QED
  BY <1>12, <1>14, <1>15, TypePartsNext DEF SocketInv

LEMMA SocketStep == SocketInv /\ [Next]_vars => SocketInv'
<1> SUFFICES ASSUME SocketInv, [Next]_vars PROVE SocketInv'
  OBVIOUS
<1>1. CASE PublishStep
  BY <1>1, PublishStepInv, DialStepInv, QuietStepInv, WritePieceInv, WriteFailsInv
  DEF PublishStep
<1>2. CASE Restart
  BY <1>2, DialStepInv
<1>3. ASSUME NEW c \in DOMAIN conns, Read(c) \/ CloseOne(c) PROVE SocketInv'
  <2>1. CASE Read(c)
    BY <2>1, ReadInv
  <2>2. CASE CloseOne(c)
    <3>1. Close({c}) /\ accepting' = accepting /\ accepting \in BOOLEAN
      BY <2>2, Before DEF CloseOne, ScalarTypes
    <3>2. accepting' \in BOOLEAN
      BY <3>1
    <3> QED
      BY <3>1, <3>2, CloseInv
  <2> QED
    BY <1>3, <2>1, <2>2
<1>4. CASE StopListening
  <2>1. Close(DOMAIN conns) /\ accepting' = FALSE
    BY <1>4 DEF StopListening
  <2>2. accepting' \in BOOLEAN
    BY <2>1
  <2> QED
    BY <2>1, <2>2, CloseInv
<1>5. CASE Listen
  BY <1>5, QuietStepInv
<1>6. CASE UNCHANGED vars
  BY <1>6
  DEF vars, SocketInv, TypeOK, WriterInv, OneKeptOpen, FramesInv, TipInv, BehindInv
<1> QED
  BY <1>1, <1>2, <1>3, <1>4, <1>5, <1>6 DEF Next

LEMMA SocketAlways == Spec => []SocketInv
  BY SocketInit, SocketStep, PTL DEF Spec

--------------------------------------------------------------------------------
(* The theorems                                                            *)

\* The variables have their types, and the process holds no connection open but the one
\* in Socket (InitUnixSocket, closeUnixSocket).
THEOREM TypeCorrect == Spec => []TypeOK
<1>1. SocketInv => TypeOK
  BY DEF SocketInv
<1> QED
  BY <1>1, SocketAlways, PTL

\* Every connection carries whole frames, cut off at most at its end, whatever fails in
\* the middle of one (PublishToUnixSocket).
THEOREM WholeFrames == Spec => []FramesAligned
<1>1. SocketInv => FramesAligned
  <2> SUFFICES ASSUME SocketInv PROVE FramesAligned
    OBVIOUS
  <2>1. ASSUME NEW c \in DOMAIN conns
        PROVE  /\ conns[c].frame \in Seq(Piece) /\ conns[c].buffer \in Seq(Piece)
               /\ InStep(conns[c].frame, conns[c].buffer)
    BY Before, ConnTypes DEF FramesInv
  <2> QED
    BY <2>1, InStepAligned DEF FramesAligned
<1> QED
  BY <1>1, SocketAlways, PTL

\* A step sends one message, delivers one that is later than the last, or neither.
LEMMA QueueStep == SocketInv /\ [Next]_vars => [Queue!Next]_<<sent, delivered>>
<1> SUFFICES ASSUME SocketInv, [Next]_vars
             PROVE  Queue!Next \/ UNCHANGED <<sent, delivered>>
  OBVIOUS
<1>1. CASE Publish
  <2>1. Queue!Send(process) /\ process \in Processes
    BY <1>1, Before DEF Publish, reader, Queue!Send, ScalarTypes
  <2> QED
    BY <2>1 DEF Queue!Next
<1>2. ASSUME NEW c \in DOMAIN conns, Read(c) PROVE Queue!Next \/ UNCHANGED <<sent, delivered>>
  <2> DEFINE p == conns[c].process
             m == conns[c].buffer[1][1]
  <2>1. /\ delivered' = [delivered EXCEPT ![p] = m] \/ delivered' = delivered
        /\ sent' = sent /\ p \in Processes
        /\ m \in Nat /\ delivered[p] < m /\ m <= sent[p]
    BY <1>2, ReadFacts
  <2>2. delivered[p] \in Nat /\ sent[p] \in Nat
    BY <2>1, Before
  <2> HIDE DEF p, m
  <2>3. m \in delivered[p] + 1 .. sent[p]
    BY <2>1, <2>2
  <2>4. CASE delivered' = [delivered EXCEPT ![p] = m]
    <3>1. Queue!Deliver(p)
      BY <2>1, <2>3, <2>4 DEF Queue!Deliver
    <3> QED
      BY <2>1, <3>1 DEF Queue!Next
  <2>5. CASE delivered' = delivered
    BY <2>1, <2>5
  <2> QED
    BY <2>1, <2>4, <2>5
<1>3. CASE Dial \/ Marshal \/ WritePiece \/ WriteFails \/ PublishTo \/ Restart
  BY <1>3 DEF Dial, Marshal, WritePiece, WriteFails, PublishTo, Restart, reader
<1>4. CASE StopListening \/ Listen \/ \E c \in DOMAIN conns : CloseOne(c)
  BY <1>4 DEF StopListening, Listen, CloseOne, Close
<1>5. CASE UNCHANGED vars
  BY <1>5 DEF vars
<1> QED
  BY <1>1, <1>2, <1>3, <1>4, <1>5 DEF Next, PublishStep

\* The reader gets the messages of each process in order and none twice, over all the
\* connections it read them from (PublishToUnixSocket, Configure).
THEOREM ImplementsQueue == Spec => KeepsOrder
<1>1. Init => Queue!Init
  BY DEF Init, Queue!Init
<1> QED
  BY <1>1, QueueStep, SocketAlways, PTL DEF Spec, KeepsOrder, Queue!Spec

================================================================================
