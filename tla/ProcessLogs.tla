----------------------------- MODULE ProcessLogs -----------------------------
(***************************************************************************)
(* The output of a child process: the ring of its last lines with its      *)
(* followers (core/logring), the handler that prints the ring and then      *)
(* follows it (functions/admin.go, handleLogs), and the writer that turns   *)
(* the same output into log entries (services/cloudlogging/functionlog.go). *)
(* The child writes chunks that end anywhere; each call on the ring is one  *)
(* step under its lock.                                                    *)
(*                                                                         *)
(* A chunk is the lengths of the lines it completes and the length of what  *)
(* follows the last newline: <<2, 0>> is "xx\n".  A line is identified by   *)
(* its number.                                                             *)
(***************************************************************************)
EXTENDS Integers, Sequences, FiniteSets, SequencesExt

CONSTANTS Readers,       \* requests for the log
          Chunks,        \* what one write of the child can hold
          MaxWrites,     \* bound on writes
          RingLines,     \* the lines the ring keeps
          ChannelLines,  \* a follower's buffer: 256 in the code
          MaxLineBytes   \* the longest line held for its newline

VARIABLES lines,     \* Ring.lines: line numbers
          ended,     \* ghost: lines ended so far
          reader,    \* reader[r]: [at, sub, channel, shown]
          lost,      \* ghost: the readers whose channel was full for a line
          buf,       \* lineWriter.buf: bytes held
          emitted,   \* ghost: bytes the lineWriter has emitted
          written,   \* ghost: bytes written, newlines not counted
          writes

vars == <<lines, ended, reader, lost, buf, emitted, written, writes>>

Init ==
    /\ lines = <<>> /\ ended = 0
    /\ reader = [r \in Readers |-> [at |-> 1, sub |-> FALSE, channel |-> <<>>, shown |-> <<>>]]
    /\ lost = {}
    /\ buf = 0 /\ emitted = 0 /\ written = 0 /\ writes = 0

LastLines(s, n) == IF Len(s) > n THEN SubSeq(s, Len(s) - n + 1, Len(s)) ELSE s

\* The channels in Ring.subs.
Subscribed == {r \in Readers : reader[r].sub}
Smaller(a, b) == IF a < b THEN a ELSE b
Total(s) == FoldSeq(LAMBDA a, b : a + b, 0, s)

\* appendLine for the lines a chunk completes, one after the other: a channel
\* takes what fits and the rest is lost to its reader.
appendLines(new) ==
    /\ lines' = LastLines(lines \o new, RingLines)
    /\ reader' = [r \in Readers |->
           IF r \in Subscribed
           THEN [reader[r] EXCEPT !.channel =
                    @ \o SubSeq(new, 1, Smaller(ChannelLines - Len(@), Len(new)))]
           ELSE reader[r]]
    /\ lost' = lost \cup {r \in Subscribed : Len(reader[r].channel) + Len(new) > ChannelLines}

\* The lines a chunk completes, the first with what was held for it, and what
\* is held after it.
Whole(chunk) == IF Len(chunk) = 1 THEN <<>> ELSE <<buf + chunk[1]>> \o SubSeq(chunk, 2, Len(chunk) - 1)
Rest(chunk) == IF Len(chunk) = 1 THEN buf + chunk[1] ELSE Last(chunk)

\* lineWriter.Write: every non-empty line is an entry, and what is held for a
\* newline is emitted in pieces once it reaches MaxLineBytes.
lineWriter(chunk) ==
    /\ emitted' = emitted + Total(Whole(chunk)) + (Rest(chunk) \div MaxLineBytes) * MaxLineBytes
    /\ buf' = Rest(chunk) % MaxLineBytes

\* Ring.Write and lineWriter.Write of one chunk of the child's output.
Write(chunk) ==
    /\ writes < MaxWrites
    /\ writes' = writes + 1
    /\ ended' = ended + Len(chunk) - 1
    /\ appendLines([k \in 1..(Len(chunk) - 1) |-> ended + k])
    /\ lineWriter(chunk)
    /\ written' = written + Total(chunk)

-----------------------------------------------------------------------------
\* Mutant: the snapshot is written first.
handleLogsPrintsFirst == <<"snapshot", "follow">>

\* handleLogs subscribes, then writes the lines the ring holds.
handleLogs == <<"follow", "snapshot">>

Prepare(r) ==
    /\ reader[r].at \in DOMAIN handleLogs
    /\ reader' = [reader EXCEPT ![r] =
           IF handleLogs[reader[r].at] = "follow"
           THEN [@ EXCEPT !.at = @ + 1, !.sub = TRUE]
           ELSE [@ EXCEPT !.at = @ + 1, !.shown = lines]]
    /\ UNCHANGED <<lines, ended, lost, buf, emitted, written, writes>>

Following(r) == reader[r].at = 3

\* Then it writes what arrives on the channel.
Stream(r) ==
    /\ Following(r)
    /\ reader[r].channel # <<>>
    /\ reader' = [reader EXCEPT ![r].channel = Tail(@), ![r].shown = Append(@, Head(reader[r].channel))]
    /\ UNCHANGED <<lines, ended, lost, buf, emitted, written, writes>>

\* The request ends: the channel leaves Ring.subs, and only then is closed.
Stop(r) ==
    /\ Following(r)
    /\ reader' = [reader EXCEPT ![r] = [at |-> 4, sub |-> FALSE, channel |-> <<>>, shown |-> <<>>]]
    /\ UNCHANGED <<lines, ended, lost, buf, emitted, written, writes>>

Next ==
    \/ \E c \in Chunks : Write(c)
    \/ \E r \in Readers : Prepare(r) \/ Stream(r) \/ Stop(r)

Spec == Init /\ [][Next]_vars

-----------------------------------------------------------------------------
\* The shapes of the ring and of its readers.
TypeOK ==
    /\ Len(lines) <= RingLines
    /\ \A r \in Readers : Len(reader[r].channel) <= ChannelLines /\ reader[r].at \in 1..4

\* "Subscribe before writing the snapshot, so a line produced in between is
\* streamed rather than lost" (functions/admin.go): what a follower has shown
\* and has waiting runs on without a gap from the first line it showed to the
\* last line ended, unless its own channel overflowed.  And every byte written
\* is in a log entry or held for its newline, with less than a line's limit
\* held.
NoOutputLost ==
    /\ \A r \in Readers \ lost :
           Following(r) =>
               LET seen == ToSet(reader[r].shown \o reader[r].channel)
               IN  /\ \A n \in 1..ended : n + 1 <= ended /\ n \in seen => n + 1 \in seen
                   /\ lines # <<>> => seen # {}
    /\ emitted + buf = written
    /\ buf < MaxLineBytes
=============================================================================
