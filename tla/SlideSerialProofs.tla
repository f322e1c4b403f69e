------------------------- MODULE SlideSerialProofs -------------------------
(***************************************************************************)
(* What the steps of SlideSerial do to the texts that have arrived and     *)
(* have not been taken, for any texts, line length and wire.               *)
(***************************************************************************)
EXTENDS SlideSerial, TLAPS

StreamOK ==
    /\ wire \in Seq(Texts \cup {EndOfLine})
    /\ buffer \in Seq(Texts)
    /\ lines \in Seq(Seq(Texts))

\* A text of T has arrived: on the wire, in the line under way, in a whole line.
OnWire(T)   == \E i \in DOMAIN wire : wire[i] \in T
InBuffer(T) == \E k \in DOMAIN buffer : buffer[k] \in T
InLines(T)  == \E i \in DOMAIN lines : \E k \in DOMAIN lines[i] : lines[i][k] \in T
Pending(T)  == OnWire(T) \/ InBuffer(T) \/ InLines(T)

\* No text of `later` comes after one of `first`, the texts of one line apart.
Fresh(first, later) ==
    /\ \A i, j \in DOMAIN wire : i < j /\ wire[i] \in first => wire[j] \notin later
    /\ InBuffer(first) => ~OnWire(later)
    /\ InLines(first) => ~OnWire(later) /\ ~InBuffer(later)

\* A text of T is the last of its line.
Ends(T) ==
    /\ \A i \in DOMAIN wire : wire[i] \in T => i < Len(wire) /\ wire[i + 1] = EndOfLine
    /\ InBuffer(T) => wire # <<>> /\ wire[1] = EndOfLine

-----------------------------------------------------------------------------
LEMMA SeqOfSymbols ==
  ASSUME NEW text \in Texts, NEW symbols \in {<<>>, <<text>>, <<text, EndOfLine>>}
  PROVE  symbols \in Seq(Texts \cup {EndOfLine})
<1>1. <<>> \in Seq(Texts \cup {EndOfLine})
  OBVIOUS
<1>2. <<text>> \in Seq(Texts \cup {EndOfLine})
  OBVIOUS
<1>3. <<text, EndOfLine>> \in Seq(Texts \cup {EndOfLine})
  OBVIOUS
<1>4. QED BY <1>1, <1>2, <1>3

\* The types of the stream: what comes in is texts and ends of line.
LEMMA StreamReceive ==
  ASSUME StreamOK, NEW text \in Texts, NEW symbols \in {<<>>, <<text>>, <<text, EndOfLine>>},
         Receive(symbols), UNCHANGED <<buffer, lines>>
  PROVE  StreamOK'
<1>1. symbols \in Seq(Texts \cup {EndOfLine})
  BY SeqOfSymbols
<1>2. QED BY <1>1 DEF StreamOK, Receive

\* What the reader moves are texts.
LEMMA StreamReader ==
  ASSUME StreamOK, Reader
  PROVE  StreamOK'
<1>1. CASE ReadsSymbol
  <2>1. Head(wire) \in Texts \cup {EndOfLine} /\ Tail(wire) \in Seq(Texts \cup {EndOfLine})
    BY <1>1 DEF StreamOK, ReadsSymbol
  <2>2. Head(wire) # EndOfLine => Appended(Head(wire)) \in Seq(Texts)
    BY <2>1 DEF StreamOK, Appended
  <2>3. Append(lines, buffer) \in Seq(Seq(Texts))
    BY DEF StreamOK
  <2>4. CASE Head(wire) # EndOfLine
    BY <1>1, <2>1, <2>2, <2>4 DEF StreamOK, ReadsSymbol
  <2>5. CASE Head(wire) = EndOfLine
    <3>1. lines' \in Seq(Seq(Texts)) /\ buffer' = <<>> /\ wire' = Tail(wire)
      BY <1>1, <2>3, <2>5 DEF StreamOK, ReadsSymbol
    <3>2. <<>> \in Seq(Texts)
      OBVIOUS
    <3>3. QED BY <2>1, <3>1, <3>2 DEF StreamOK
  <2>6. QED BY <2>4, <2>5
<1>2. QED BY <1>1 DEF Reader, ReaderTests, ReadsNothing, StreamOK

\* What comes in is at the end of the wire.
LEMMA ReceivedLast ==
  ASSUME StreamOK, NEW text, NEW symbols \in {<<>>, <<text>>, <<text, EndOfLine>>},
         Receive(symbols)
  PROVE  /\ Len(wire') >= Len(wire) /\ DOMAIN wire \subseteq DOMAIN wire'
         /\ \A i \in DOMAIN wire : wire'[i] = wire[i]
         /\ \A i \in DOMAIN wire' \ DOMAIN wire :
               /\ i > Len(wire) /\ wire'[i] \in {text, EndOfLine}
               /\ wire'[i] = text =>
                     \/ symbols = <<text>> \/ text = EndOfLine
                     \/ i < Len(wire') /\ wire'[i + 1] = EndOfLine
<1>1. CASE symbols = <<>> \/ ~handle
  BY <1>1 DEF Receive, StreamOK
<1>2. CASE symbols = <<text>> /\ handle
  BY <1>2 DEF Receive, StreamOK
<1>3. CASE symbols = <<text, EndOfLine>> /\ handle
  BY <1>3 DEF Receive, StreamOK
<1>4. QED BY <1>1, <1>2, <1>3

-----------------------------------------------------------------------------
\* What is pending after a text has come in was so before, but for that text.
LEMMA PendingReceive ==
  ASSUME StreamOK, NEW T, EndOfLine \notin T,
         NEW text, NEW symbols \in {<<>>, <<text>>, <<text, EndOfLine>>},
         Receive(symbols), UNCHANGED <<buffer, lines>>,
         Pending(T)', text \notin T
  PROVE  Pending(T)
<1>1. CASE OnWire(T)'
  <2>1. PICK i \in DOMAIN wire' : wire'[i] \in T
    BY <1>1 DEF OnWire
  <2>2. i \in DOMAIN wire /\ wire'[i] = wire[i]
    BY <2>1, ReceivedLast
  <2>3. QED BY <2>1, <2>2 DEF Pending, OnWire
<1>2. QED BY <1>1 DEF Pending, InBuffer, InLines

\* A text that comes in leaves the order as it is, unless one of `first` is before it.
LEMMA FreshReceive ==
  ASSUME StreamOK, NEW F, NEW S, EndOfLine \notin F, EndOfLine \notin S,
         NEW text, NEW symbols \in {<<>>, <<text>>, <<text, EndOfLine>>},
         Receive(symbols), UNCHANGED <<buffer, lines>>,
         Fresh(F, S), text \notin S \/ ~Pending(F)
  PROVE  Fresh(F, S)'
<1>1. ASSUME NEW j \in DOMAIN wire', wire'[j] \in S
      PROVE  \/ j \in DOMAIN wire /\ wire[j] \in S
             \/ ~Pending(F) /\ j > Len(wire)
  BY <1>1, ReceivedLast
<1>2. ASSUME NEW i \in DOMAIN wire', NEW j \in DOMAIN wire', i < j,
             wire'[i] \in F, wire'[j] \in S
      PROVE  FALSE
  <2>1. CASE j \in DOMAIN wire /\ wire[j] \in S
    <3>1. i \in DOMAIN wire
      BY <1>2, <2>1 DEF StreamOK, Receive
    <3>2. wire[i] \in F
      BY <1>2, <3>1, ReceivedLast
    <3>3. QED BY <1>2, <2>1, <3>1, <3>2 DEF Fresh
  <2>2. CASE ~Pending(F) /\ j > Len(wire)
    <3>1. i \notin DOMAIN wire
      BY <1>2, <2>2, ReceivedLast DEF Pending, OnWire
    <3>2. wire'[i] = text /\ wire'[j] = text
      <4>1. j \notin DOMAIN wire
        BY <2>2 DEF StreamOK
      <4>2. wire'[i] \in {text, EndOfLine} /\ wire'[j] \in {text, EndOfLine}
        BY <3>1, <4>1, ReceivedLast
      <4>3. QED BY <1>2, <4>2
    <3>3. Len(wire') <= Len(wire) + 2 /\ i > Len(wire) /\ wire'[Len(wire) + 2] # text
      BY <1>2, <3>1, <3>2, ReceivedLast DEF StreamOK, Receive
    <3>4. QED BY <1>2, <2>2, <3>1, <3>2, <3>3 DEF StreamOK, Receive
  <2>3. QED BY <1>1, <1>2, <2>1, <2>2
<1>3. OnWire(S)' => OnWire(S) \/ ~Pending(F)
  BY <1>1 DEF OnWire
<1>4. QED BY <1>2, <1>3 DEF Fresh, Pending, InBuffer, InLines

\* A text of T comes in with its end of line.
LEMMA EndsReceive ==
  ASSUME StreamOK, NEW T, EndOfLine \notin T,
         NEW text, NEW symbols \in {<<>>, <<text>>, <<text, EndOfLine>>},
         Receive(symbols), UNCHANGED <<buffer, lines>>,
         Ends(T), text \notin T \/ symbols # <<text>>
  PROVE  Ends(T)'
<1>1. ASSUME NEW i \in DOMAIN wire', wire'[i] \in T
      PROVE  i < Len(wire') /\ wire'[i + 1] = EndOfLine
  <2>1. CASE i \in DOMAIN wire
    <3>1. wire[i] \in T
      BY <1>1, <2>1, ReceivedLast
    <3>2. i < Len(wire) /\ wire[i + 1] = EndOfLine
      BY <2>1, <3>1 DEF Ends
    <3>3. i + 1 \in DOMAIN wire /\ Len(wire') >= Len(wire)
      <4>1. Len(wire') >= Len(wire)
        BY ReceivedLast
      <4>2. DOMAIN wire = 1..Len(wire) /\ Len(wire) \in Nat
        BY DEF StreamOK
      <4>3. QED BY <2>1, <3>2, <4>1, <4>2
    <3>4. wire'[i + 1] = wire[i + 1]
      BY <3>3, ReceivedLast
    <3>5. Len(wire') \in Nat /\ Len(wire) \in Nat /\ i \in Nat
      BY <2>1 DEF StreamOK, Receive
    <3>6. QED BY <3>2, <3>3, <3>4, <3>5
  <2>2. CASE i \notin DOMAIN wire
    BY <1>1, <2>2, ReceivedLast
  <2>3. QED BY <2>1, <2>2
<1>2. InBuffer(T)' => wire' # <<>> /\ wire'[1] = EndOfLine
  <2>1. InBuffer(T)' => wire # <<>> /\ wire[1] = EndOfLine
    BY DEF InBuffer, Ends
  <2>2. wire # <<>> => 1 \in DOMAIN wire
    BY DEF StreamOK
  <2>3. 1 \in DOMAIN wire => wire'[1] = wire[1] /\ 1 \in DOMAIN wire'
    BY ReceivedLast
  <2>4. 1 \in DOMAIN wire' => wire' # <<>>
    OBVIOUS
  <2>5. QED BY <2>1, <2>2, <2>3, <2>4
<1>3. QED BY <1>1, <1>2 DEF Ends

-----------------------------------------------------------------------------
\* Where the reader puts the symbol it reads.
LEMMA ReadWhere ==
  ASSUME StreamOK, ReadsSymbol
  PROVE  /\ Len(wire) \in Nat \ {0} /\ Len(wire') = Len(wire) - 1
         /\ \A i \in DOMAIN wire' : i + 1 \in DOMAIN wire /\ wire'[i] = wire[i + 1]
         /\ wire[1] = EndOfLine =>
               /\ \A T : ~InBuffer(T)'
               /\ \A T : InLines(T)' => InLines(T) \/ InBuffer(T)
         /\ wire[1] # EndOfLine =>
               /\ \A T : InBuffer(T)' => InBuffer(T) \/ wire[1] \in T
               /\ lines' = lines
<1>1. Len(wire) \in Nat \ {0} /\ Len(wire') = Len(wire) - 1
      /\ Head(wire) = wire[1]
  BY DEF StreamOK, ReadsSymbol
<1>2. \A i \in DOMAIN wire' : i + 1 \in DOMAIN wire /\ wire'[i] = wire[i + 1]
  BY DEF StreamOK, ReadsSymbol
<1>3. ASSUME wire[1] = EndOfLine, NEW T
      PROVE  ~InBuffer(T)' /\ (InLines(T)' => InLines(T) \/ InBuffer(T))
  <2>1. buffer' = <<>> /\ lines' \in {lines, Append(lines, buffer)}
    BY <1>1, <1>3 DEF ReadsSymbol
  <2>2. ~InBuffer(T)'
    BY <2>1 DEF InBuffer
  <2>3. ASSUME lines' = Append(lines, buffer), NEW i \in DOMAIN lines', NEW k \in DOMAIN lines'[i],
               lines'[i][k] \in T
        PROVE  InLines(T) \/ InBuffer(T)
    <3>1. (i \in DOMAIN lines /\ lines'[i] = lines[i]) \/ lines'[i] = buffer
      BY <2>3 DEF StreamOK
    <3>2. QED BY <2>3, <3>1 DEF InLines, InBuffer
  <2>4. QED BY <2>1, <2>2, <2>3 DEF InLines
<1>4. ASSUME wire[1] # EndOfLine, NEW T
      PROVE  (InBuffer(T)' => InBuffer(T) \/ wire[1] \in T) /\ lines' = lines
  <2>1. buffer' \in {<<>>, Append(buffer, wire[1])} /\ lines' = lines
    BY <1>1, <1>4 DEF ReadsSymbol, Appended
  <2>2. ASSUME buffer' = Append(buffer, wire[1]), NEW k \in DOMAIN buffer', buffer'[k] \in T
        PROVE  InBuffer(T) \/ wire[1] \in T
    <3>1. (k \in DOMAIN buffer /\ buffer'[k] = buffer[k]) \/ buffer'[k] = wire[1]
      BY <2>2 DEF StreamOK
    <3>2. QED BY <2>2, <3>1 DEF InBuffer
  <2>3. QED BY <2>1, <2>2 DEF InBuffer
<1>5. QED BY <1>1, <1>2, <1>3, <1>4

\* The reader moves what is pending, and may drop some of it.
LEMMA PendingReader ==
  ASSUME StreamOK, NEW T, Reader, Pending(T)'
  PROVE  Pending(T)
<1>1. CASE ReadsSymbol
  <2>1. OnWire(T)' => OnWire(T)
    BY <1>1, ReadWhere DEF OnWire
  <2>2. wire[1] \in T => OnWire(T)
    <3>1. 1 \in DOMAIN wire
      BY <1>1, ReadWhere DEF StreamOK
    <3>2. QED BY <3>1 DEF OnWire
  <2>3. (InBuffer(T) \/ InLines(T))' => InBuffer(T) \/ InLines(T) \/ wire[1] \in T
    <3>1. CASE wire[1] = EndOfLine
      BY <1>1, <3>1, ReadWhere
    <3>2. CASE wire[1] # EndOfLine
      <4>1. InLines(T)' => InLines(T)
        BY <1>1, <3>2, ReadWhere DEF InLines
      <4>2. QED BY <1>1, <3>2, <4>1, ReadWhere
    <3>3. QED BY <3>1, <3>2
  <2>4. QED BY <2>1, <2>2, <2>3 DEF Pending
<1>2. CASE UNCHANGED <<wire, buffer, lines>>
  BY <1>2 DEF Pending, OnWire, InBuffer, InLines
<1>3. QED BY <1>1, <1>2 DEF Reader, ReaderTests, ReadsNothing

\* The reader keeps the order.
LEMMA FreshReader ==
  ASSUME StreamOK, NEW F, NEW S, Reader, Fresh(F, S)
  PROVE  Fresh(F, S)'
<1>1. CASE ReadsSymbol
  <2>1. \A i, j \in DOMAIN wire' : i < j /\ wire'[i] \in F => wire'[j] \notin S
    <3>1. SUFFICES ASSUME NEW i \in DOMAIN wire', NEW j \in DOMAIN wire', i < j,
                          wire'[i] \in F, wire'[j] \in S
                   PROVE  FALSE
      OBVIOUS
    <3>2. i + 1 \in DOMAIN wire /\ j + 1 \in DOMAIN wire
          /\ wire[i + 1] \in F /\ wire[j + 1] \in S
      BY <1>1, <3>1, ReadWhere
    <3>3. i + 1 < j + 1
      BY <3>1 DEF StreamOK, ReadsSymbol
    <3>4. QED BY <3>2, <3>3 DEF Fresh
  <2>2. OnWire(S)' => OnWire(S)
    BY <1>1, ReadWhere DEF OnWire
  <2>3. wire[1] \in F => ~OnWire(S)'
    <3>1. SUFFICES ASSUME wire[1] \in F, NEW i \in DOMAIN wire', wire'[i] \in S
                   PROVE  FALSE
      BY DEF OnWire
    <3>2. i + 1 \in DOMAIN wire /\ wire[i + 1] \in S
      BY <1>1, <3>1, ReadWhere
    <3>3. 1 \in DOMAIN wire /\ 1 < i + 1
      BY <1>1, <3>1, ReadWhere DEF StreamOK, ReadsSymbol
    <3>4. QED BY <3>1, <3>2, <3>3 DEF Fresh
  <2>4. wire[1] \in S => OnWire(S)
    <3>1. 1 \in DOMAIN wire
      BY <1>1, ReadWhere DEF StreamOK
    <3>2. QED BY <3>1 DEF OnWire
  <2>5. CASE wire[1] = EndOfLine
    <3>1. ~InBuffer(F)' /\ ~InBuffer(S)' /\ (InLines(F)' => InLines(F) \/ InBuffer(F))
      BY <1>1, <2>5, ReadWhere
    <3>2. QED BY <2>1, <2>2, <3>1 DEF Fresh
  <2>6. CASE wire[1] # EndOfLine
    <3>1. /\ InBuffer(F)' => InBuffer(F) \/ wire[1] \in F
          /\ InBuffer(S)' => InBuffer(S) \/ wire[1] \in S
      BY <1>1, <2>6, ReadWhere
    <3>2. InLines(F)' => InLines(F)
      BY <1>1, <2>6, ReadWhere DEF InLines
    <3>3. QED BY <2>1, <2>2, <2>3, <2>4, <3>1, <3>2 DEF Fresh
  <2>7. QED BY <2>5, <2>6
<1>2. CASE UNCHANGED <<wire, buffer, lines>>
  BY <1>2 DEF Fresh, OnWire, InBuffer, InLines
<1>3. QED BY <1>1, <1>2 DEF Reader, ReaderTests, ReadsNothing

\* The reader takes a text and leaves the end of its line next.
LEMMA EndsReader ==
  ASSUME StreamOK, NEW T, EndOfLine \notin T, Reader, Ends(T)
  PROVE  Ends(T)'
<1>1. CASE ReadsSymbol
  <2>1. ASSUME NEW i \in DOMAIN wire', wire'[i] \in T
        PROVE  i < Len(wire') /\ wire'[i + 1] = EndOfLine
    <3>1. i + 1 \in DOMAIN wire /\ wire[i + 1] \in T
      BY <1>1, <2>1, ReadWhere
    <3>2. i + 1 < Len(wire) /\ wire[i + 2] = EndOfLine
      <4>1. i + 1 < Len(wire) /\ wire[(i + 1) + 1] = EndOfLine
        BY <3>1 DEF Ends
      <4>2. i \in Nat
        BY <2>1, StreamReader DEF StreamOK
      <4>3. (i + 1) + 1 = i + 2
        BY <4>2
      <4>4. QED BY <4>1, <4>3
    <3>3. Len(wire') = Len(wire) - 1 /\ Len(wire) \in Nat
      BY <1>1, ReadWhere
    <3>4. i < Len(wire') /\ i + 1 \in DOMAIN wire'
      BY <1>1, <2>1, <3>2, <3>3 DEF ReadsSymbol, StreamOK
    <3>5. wire'[i + 1] = wire[i + 2]
      BY <1>1, <2>1, <3>4, ReadWhere DEF StreamOK, ReadsSymbol
    <3>6. QED BY <3>2, <3>4, <3>5
  <2>2. InBuffer(T)' => wire' # <<>> /\ wire'[1] = EndOfLine
    <3>1. CASE wire[1] = EndOfLine
      BY <1>1, <3>1, ReadWhere
    <3>2. CASE wire[1] # EndOfLine
      <4>1. InBuffer(T)' => wire[1] \in T
        BY <1>1, <3>2, ReadWhere DEF Ends
      <4>2. 1 \in DOMAIN wire
        BY <1>1, ReadWhere DEF StreamOK
      <4>3. wire[1] \in T => 1 < Len(wire) /\ wire[2] = EndOfLine
        BY <4>2 DEF Ends, StreamOK
      <4>4. wire[1] \in T => 1 \in DOMAIN wire'
        BY <1>1, <4>3, ReadWhere DEF StreamOK, ReadsSymbol
      <4>5. 1 \in DOMAIN wire' => wire'[1] = wire[2] /\ wire' # <<>>
        BY <1>1, ReadWhere
      <4>6. QED BY <4>1, <4>3, <4>4, <4>5
    <3>3. QED BY <3>1, <3>2
  <2>3. QED BY <2>1, <2>2 DEF Ends
<1>2. CASE UNCHANGED <<wire, buffer, lines>>
  BY <1>2 DEF Ends, InBuffer
<1>3. QED BY <1>1, <1>2 DEF Reader, ReaderTests, ReadsNothing

-----------------------------------------------------------------------------
\* Draining keeps the order, and leaves nothing of `later` if one of `first` was
\* drained.
LEMMA Drained ==
  ASSUME Drain, NEW F, NEW S
  PROVE  /\ Pending(F)' => Pending(F)
         /\ Fresh(F, S) => Fresh(F, S)'
         /\ Fresh(F, S) /\ InLines(F) => ~Pending(S)'
         /\ wire = <<>> /\ Ends(F) => ~Pending(F)'
         /\ Ends(F) => Ends(F)'
<1>1. ~InLines(F)' /\ ~InLines(S)'
  BY DEF Drain, InLines
<1>2. (OnWire(F)' <=> OnWire(F)) /\ (OnWire(S)' <=> OnWire(S))
      /\ (InBuffer(F)' <=> InBuffer(F)) /\ (InBuffer(S)' <=> InBuffer(S)) /\ wire' = wire
  BY DEF Drain, OnWire, InBuffer
<1>3. wire = <<>> => ~OnWire(F)
  BY DEF OnWire
<1>4. Fresh(F, S) => Fresh(F, S)'
  BY <1>1, <1>2 DEF Fresh
<1>5. Ends(F) => Ends(F)'
  BY <1>2 DEF Ends
<1>6. wire = <<>> /\ Ends(F) => ~Pending(F)'
  BY <1>1, <1>2, <1>3 DEF Ends, Pending
<1>7. Fresh(F, S) /\ InLines(F) => ~Pending(S)'
  BY <1>1, <1>2 DEF Fresh, Pending
<1>8. Pending(F)' => Pending(F)
  BY <1>1, <1>2 DEF Pending
<1>9. QED BY <1>4, <1>5, <1>6, <1>7, <1>8

-----------------------------------------------------------------------------
(* The bounds: no line is longer than MaxLine.                             *)

LEMMA SerialReader ==
  ASSUME SerialTypeOK, Reader
  PROVE  SerialTypeOK'
<1>0. StreamOK' /\ Len(wire) \in Nat /\ Len(buffer) \in Nat
  <2>1. StreamOK
    BY DEF SerialTypeOK, StreamOK, Lines
  <2>2. QED BY <2>1, StreamReader DEF StreamOK
<1>1. CASE ReadsSymbol
  <2>1. Len(wire') <= WireSize
    <3>1. Len(wire') = Len(wire) - 1
      BY <1>1 DEF ReadsSymbol, SerialTypeOK
    <3>2. QED BY <1>0, <3>1, SerialAssumption DEF SerialTypeOK
  <2>2. Len(buffer') <= MaxLine
    <3>1. CASE buffer' = <<>>
      BY <3>1, SerialAssumption
    <3>2. CASE Len(buffer) < MaxLine /\ buffer' = Append(buffer, Head(wire))
      BY <1>0, <3>2, SerialAssumption DEF SerialTypeOK
    <3>3. QED BY <1>0, <1>1, <3>1, <3>2, SerialAssumption DEF ReadsSymbol, Appended
  <2>3. lines' \in Seq(Lines) /\ \A i \in DOMAIN lines' : Len(lines'[i]) <= MaxLine
    <3>1. CASE lines' = lines
      BY <3>1 DEF SerialTypeOK
    <3>2. CASE buffer # <<>> /\ lines' = Append(lines, buffer)
      <4>1. buffer \in Lines
        BY <3>2 DEF SerialTypeOK, Lines
      <4>2. lines' \in Seq(Lines)
        BY <3>2, <4>1 DEF SerialTypeOK
      <4>3. \A i \in DOMAIN lines' : (i \in DOMAIN lines /\ lines'[i] = lines[i]) \/ lines'[i] = buffer
        BY <3>2, <4>1 DEF SerialTypeOK
      <4>4. QED BY <4>2, <4>3 DEF SerialTypeOK
    <3>3. QED BY <1>1, <3>1, <3>2 DEF ReadsSymbol
  <2>4. QED BY <1>0, <1>1, <2>1, <2>2, <2>3 DEF SerialTypeOK, StreamOK, ReadsSymbol, ReaderStates
<1>2. CASE ReaderTests \/ ReadsNothing
  BY <1>2 DEF ReaderTests, ReadsNothing, SerialTypeOK, ReaderStates
<1>3. QED BY <1>1, <1>2 DEF Reader

LEMMA SerialReceive ==
  ASSUME SerialTypeOK, NEW text \in Texts, NEW symbols \in {<<>>, <<text>>, <<text, EndOfLine>>},
         Receive(symbols), UNCHANGED <<handle, mRunning, reader, buffer, lines>>
  PROVE  SerialTypeOK'
<1>1. StreamOK
  BY DEF SerialTypeOK, StreamOK, Lines
<1>2. wire' \in Seq(Texts \cup {EndOfLine})
  BY <1>1, StreamReceive DEF StreamOK
<1>3. symbols \in Seq(Texts \cup {EndOfLine})
  BY SeqOfSymbols
<1>4. Len(wire') <= WireSize
  <2>1. wire' = wire \/ wire' = wire \o symbols
    BY DEF Receive
  <2>2. wire' = wire \o symbols => Len(wire') = Len(wire) + Len(symbols)
    BY <1>3 DEF SerialTypeOK
  <2>3. QED BY <2>1, <2>2 DEF Receive, SerialTypeOK
<1>5. QED BY <1>2, <1>4 DEF SerialTypeOK

LEMMA SerialTaken ==
  ASSUME SerialTypeOK,
         Open \/ Drain \/ CloseStops \/ CloseJoins \/ CloseClears \/ UNCHANGED serialVars
  PROVE  SerialTypeOK'
<1>1. /\ wire' \in {wire, <<>>} /\ buffer' \in {buffer, <<>>} /\ lines' \in {lines, <<>>}
      /\ handle' \in BOOLEAN /\ mRunning' \in BOOLEAN /\ reader' \in ReaderStates
  BY DEF Open, Drain, CloseStops, CloseJoins, CloseClears, serialVars, SerialTypeOK, ReaderStates
<1>2. /\ <<>> \in Seq(Texts \cup {EndOfLine}) /\ <<>> \in Seq(Texts) /\ <<>> \in Seq(Lines)
      /\ Len(<<>>) = 0 /\ DOMAIN <<>> = {}
  OBVIOUS
<1>3. wire' \in Seq(Texts \cup {EndOfLine}) /\ Len(wire') <= WireSize
  <2>1. wire' = <<>> => Len(wire') = 0 /\ 0 <= WireSize
    BY <1>2, SerialAssumption
  <2>2. wire' = <<>> => wire' \in Seq(Texts \cup {EndOfLine})
    BY <1>2
  <2>3. QED BY <1>1, <2>1, <2>2 DEF SerialTypeOK
<1>4. buffer' \in Seq(Texts) /\ Len(buffer') <= MaxLine
  <2>1. buffer' = <<>> => Len(buffer') = 0 /\ 0 <= MaxLine
    BY <1>2, SerialAssumption
  <2>2. buffer' = <<>> => buffer' \in Seq(Texts)
    BY <1>2
  <2>3. QED BY <1>1, <2>1, <2>2 DEF SerialTypeOK
<1>5. lines' \in Seq(Lines) /\ \A i \in DOMAIN lines' : Len(lines'[i]) <= MaxLine
  <2>1. CASE lines' = lines
    BY <2>1 DEF SerialTypeOK
  <2>2. CASE lines' = <<>>
    BY <1>2, <2>2
  <2>3. QED BY <1>1, <2>1, <2>2
<1>6. QED BY <1>1, <1>3, <1>4, <1>5 DEF SerialTypeOK
=============================================================================
