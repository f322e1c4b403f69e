----------------------------- MODULE SlideSerial -----------------------------
(***************************************************************************)
(* Core/slide_serial.{hpp,cpp}: the serial client of the slide stage, with *)
(* its reader thread.  One thread at a time opens, writes, drains and      *)
(* closes; the reader runs beside it.                                      *)
(*                                                                         *)
(* What arrives is a sequence of symbols: a text (a reply, or any other    *)
(* piece of text) or EndOfLine.  A line is the sequence of its texts.      *)
(***************************************************************************)
EXTENDS Naturals, Sequences

CONSTANTS
    Texts, EndOfLine,
    MaxLine,        \* kMaxLineLength, counted in texts
    WireSize        \* bound: symbols on their way to the reader

ASSUME SerialAssumption == /\ EndOfLine \notin Texts
                           /\ MaxLine \in Nat \ {0}
                           /\ WireSize \in Nat

VARIABLES
    wire,       \* received by the port, not yet read
    handle,     \* mHandle is not null
    mRunning,
    reader,     \* the reader thread
    buffer,     \* mBuffer
    lines       \* mLines

serialVars == <<wire, handle, mRunning, reader, buffer, lines>>

ReaderStates == {"none", "test", "read", "gone"}
Lines == Seq(Texts) \ {<<>>}

SerialTypeOK ==
    /\ wire \in Seq(Texts \cup {EndOfLine}) /\ Len(wire) <= WireSize
    /\ handle \in BOOLEAN /\ mRunning \in BOOLEAN
    /\ reader \in ReaderStates
    /\ buffer \in Seq(Texts) /\ Len(buffer) <= MaxLine
    /\ lines \in Seq(Lines) /\ \A i \in DOMAIN lines : Len(lines[i]) <= MaxLine

SerialInit ==
    /\ wire = <<>> /\ handle = FALSE /\ mRunning = FALSE
    /\ reader = "none" /\ buffer = <<>> /\ lines = <<>>

\* Symbols that come in; a port that is not open takes none.
Receive(symbols) ==
    /\ Len(wire) + Len(symbols) <= WireSize
    /\ wire' = IF handle THEN wire \o symbols ELSE wire

-----------------------------------------------------------------------------
(* Open and Close.                                                         *)

\* Open, after its Close: the port may be missing or refuse its settings.
Open ==
    /\ UNCHANGED <<wire, buffer, lines>>
    /\ \/ handle' = TRUE /\ mRunning' = TRUE /\ reader' = "test"
       \/ UNCHANGED <<handle, mRunning, reader>>

CloseStops ==
    /\ mRunning' = FALSE
    /\ UNCHANGED <<wire, handle, reader, buffer, lines>>

\* join, and then CloseHandle: what was not read is gone.
CloseJoins ==
    /\ reader \in {"none", "gone"}
    /\ reader' = "none" /\ handle' = FALSE /\ wire' = <<>>
    /\ UNCHANGED <<mRunning, buffer, lines>>

CloseKeepsBuffer ==     \* mutant: the line under way is kept
    /\ lines' = <<>>
    /\ UNCHANGED <<wire, handle, mRunning, reader, buffer>>

CloseClears ==
    /\ lines' = <<>> /\ buffer' = <<>>
    /\ UNCHANGED <<wire, handle, mRunning, reader>>

\* DrainLines empties the queue; the line under way stays in the buffer.
Drain ==
    /\ lines' = <<>>
    /\ UNCHANGED <<wire, handle, mRunning, reader, buffer>>

-----------------------------------------------------------------------------
(* readerLoop.                                                             *)

ReaderTests ==
    /\ reader = "test"
    /\ reader' = IF mRunning /\ handle THEN "read" ELSE "gone"
    /\ UNCHANGED <<wire, handle, mRunning, buffer, lines>>

\* ReadFile failed, or returned after its timeout with nothing.
ReadsNothing ==
    /\ reader = "read" /\ reader' = "test"
    /\ UNCHANGED <<wire, handle, mRunning, buffer, lines>>

AppendedUnbounded(text) == Append(buffer, text)     \* mutant: no limit

\* A line that is too long is dropped together with the text that came too much;
\* what follows starts a line.
Appended(text) == IF Len(buffer) >= MaxLine THEN <<>> ELSE Append(buffer, text)

\* ReadFile returned a symbol (a longer read is several of these); an empty line is
\* none.
ReadsSymbol ==
    /\ reader = "read" /\ wire # <<>>
    /\ reader' = "test"
    /\ wire' = Tail(wire)
    /\ IF Head(wire) # EndOfLine
       THEN buffer' = Appended(Head(wire)) /\ UNCHANGED lines
       ELSE /\ lines' = IF buffer = <<>> THEN lines ELSE Append(lines, buffer)
            /\ buffer' = <<>>
    /\ UNCHANGED <<handle, mRunning>>

Reader == ReaderTests \/ ReadsNothing \/ ReadsSymbol
=============================================================================
