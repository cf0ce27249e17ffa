------------------------------- MODULE Reports -------------------------------
(***************************************************************************)
(* The way of the reports over one TCP connection: server::send_raport and *)
(* the writes of class connection on one side, do_read_tcp_message and     *)
(* do_write_to_STDOUT of the client on the other.  TCP is a stream: a      *)
(* write sends as much as there is room for and a read returns what        *)
(* happens to be there, cut anywhere, also inside a line.                  *)
(*                                                                         *)
(* The stream consists of cells, each a character: a newline, one of the   *)
(* text of a line, or the line with the id of the client (a cell, as no    *)
(* read acts on a part of it).  A report is a newline and then a line for  *)
(* every client; what matters of it is its shape.                          *)
(***************************************************************************)
EXTENDS Integers, Sequences, Functions, SequencesExt

CONSTANTS
    ReadSize,       \* cells one read can return
    SendBuffer,     \* cells the TCP connection can hold
    Shapes          \* the kinds of the cells of the lines, report by report

(* The connection holds what is written first, the line with the id, and   *)
(* the first character of a report behind it.                              *)
ASSUME ReportsAssumption ==
    /\ {ReadSize, SendBuffer} \subseteq Nat
    /\ ReadSize >= 1 /\ SendBuffer >= 3
    /\ Shapes \subseteq Seq({"newline", "text"})

VARIABLES
    raport,         \* raport_, which the writes under way point into
    writes,         \* async_writes under way: positions next .. last of raport_
    wire,           \* cells written and not yet read
    memory,         \* what was ever read into raport_buffer_; zeros follow
    size,           \* raport_buffer_.size(): the cells at its front still unread
    dropped,        \* what was dropped while a read was under way that had
                    \* been given it to search: the length of the buffer
    ids,            \* history: the ids read
    output,         \* history: what was written to stderr
    reports,        \* history: the reports
    whole,          \* history: every read ended before a newline
    alone,          \* history: no report was built while one was written
    fresh           \* history: nothing was left behind what was printed

serverVars == << raport, writes, reports, alone >>
clientVars == << memory, size, dropped, ids, output, whole, fresh >>
vars       == << serverVars, wire, clientVars >>

Newline     == [kind |-> "newline", report |-> 0, at |-> 0]
Id          == [kind |-> "id", report |-> 0, at |-> 0]
Text(r, at) == [kind |-> "text", report |-> r, at |-> at]
Garbage     == [kind |-> "garbage", report |-> 0, at |-> 0]

TextOf(c)    == IF c.kind \in {"text", "garbage"} THEN << c >> ELSE << >>
Texts(cells) == FlattenSeq([i \in DOMAIN cells |-> TextOf(cells[i])])
printed      == Texts(output)

(* connection::start has written the id, which fits the empty buffer.      *)
Init ==
    /\ raport = << >>
    /\ writes = << >>
    /\ wire = << Id, Newline >>
    /\ memory = << >>
    /\ size = 0
    /\ dropped = 0
    /\ ids = 0
    /\ output = << >>
    /\ reports = << >>
    /\ whole = TRUE /\ alone = TRUE /\ fresh = TRUE

-----------------------------------------------------------------------------
(* The server *)

Smallest(a, b) == IF a < b THEN a ELSE b

(* server::send_raport, lines of the given shape.  A cell of text knows    *)
(* which report it is from and where it stands in it.                      *)
NewRaport(shape) ==
    [i \in 1 .. Len(shape) + 1 |->
        IF i > 1 /\ shape[i - 1] = "text" THEN Text(Len(reports) + 1, i)
                                         ELSE Newline]

(* What one async_write_some of a write sends.                             *)
Piece(text, w) ==
    LET n == Smallest(SendBuffer - Len(wire), w.last - w.next + 1)
    IN  [i \in 1 .. n |-> IF ~w.dangling /\ w.next + i - 1 \in DOMAIN text
                          THEN text[w.next + i - 1] ELSE Garbage]

(* Deviation: a write is over once something was sent.                     *)
RequeuedNever(queue, w, sent) ==
    IF sent > 0 THEN queue ELSE Append(queue, w)

(* Deviation: a write that is not done starts over.                        *)
RequeuedWhole(queue, w, sent) ==
    IF w.next + sent > w.last THEN queue ELSE Append(queue, w)

(* The writes after it: one that is not done queues up behind the others.  *)
Requeued(queue, w, sent) ==
    IF w.next + sent > w.last THEN queue
    ELSE Append(queue, [w EXCEPT !.next = @ + sent])

(* send_raport and connection::do_write_raport: the buffer of the writes   *)
(* under way is built anew, in its old storage or in a new one, and a      *)
(* write is started, which sends at once what fits unless it has to wait   *)
(* for others.                                                             *)
SendRaport(shape) ==
    LET w == [next |-> 1, last |-> Len(shape) + 1, dangling |-> FALSE]
    IN  /\ raport' = NewRaport(shape)
        /\ \/ /\ writes = << >>
              /\ wire' = wire \o Piece(raport', w)
              /\ writes' = Requeued(<< >>, w, Len(Piece(raport', w)))
           \/ /\ writes # << >>
              /\ wire' = wire
              /\ \E moved \in BOOLEAN :
                     writes' = Append([i \in DOMAIN writes |->
                         [writes[i] EXCEPT !.dangling = @ \/ moved]], w)
        /\ reports' = Append(reports, raport')
        /\ alone' = (alone /\ writes = << >>)
        /\ UNCHANGED clientVars

(* There is room again: the first write under way goes on.                 *)
ContinueWrite ==
    /\ writes # << >>
    /\ Len(wire) < SendBuffer
    /\ LET piece == Piece(raport, Head(writes))
       IN  /\ wire' = wire \o piece
           /\ writes' = Requeued(Tail(writes), Head(writes), Len(piece))
    /\ UNCHANGED << raport, reports, alone, clientVars >>

-----------------------------------------------------------------------------
(* The client *)

(* do_write_to_STDOUT: a newline and the buffer as a C string, that is     *)
(* with what longer reads left in memory behind it.                        *)
WriteToStdout(rest, stale) ==
    /\ output' = output \o << Newline >> \o rest \o stale
    /\ fresh' = (fresh /\ Texts(stale) = << >>)

(* The handler of async_read_until, once the buffer holds a newline.  The  *)
(* line with the id starts the next read, which searches the rest of the   *)
(* buffer, and then drops that rest.  Any other line, or what is left of a *)
(* line that a read has cut, is dropped, and the rest is printed.          *)
EndOfLine(buffer) == CHOOSE i \in DOMAIN buffer :
    buffer[i] = Newline /\ \A j \in 1 .. i - 1 : buffer[j] # Newline

TakeOrPrint(buffer, stale) ==
    LET rest == SubSeq(buffer, EndOfLine(buffer) + 1, Len(buffer))
    IN  IF buffer[1] = Id
        THEN /\ ids' = ids + 1
             /\ dropped' = IF rest = << >> THEN 0 ELSE Len(buffer)
             /\ UNCHANGED << output, fresh >>
        ELSE /\ WriteToStdout(rest, stale)
             /\ UNCHANGED << ids, dropped >>

(* Deviation: what was printed stays in the buffer.                        *)
HandleLineKeeps(buffer, stale) ==
    TakeOrPrint(buffer, stale) /\ size' = Len(buffer)

HandleLine(buffer, stale) ==
    TakeOrPrint(buffer, stale) /\ size' = 0

(* A read returned n cells, which are put behind the ones still unread.    *)
Read(n) ==
    LET buffer == SubSeq(memory, 1, size) \o SubSeq(wire, 1, n)
        stale  == SubSeq(memory, Len(buffer) + 1, Len(memory))
    IN  /\ dropped = 0
        /\ n \in 1 .. Smallest(ReadSize, Len(wire))
        /\ memory' = buffer \o stale
        /\ wire' = SubSeq(wire, n + 1, Len(wire))
        /\ \/ /\ Newline \in Range(buffer)
              /\ HandleLine(buffer, stale)
           \/ /\ Newline \notin Range(buffer)
              /\ size' = Len(buffer)
              /\ UNCHANGED << dropped, ids, output, fresh >>
        /\ whole' = (/\ whole
                     /\ buffer[1] = Id => buffer = << Id, Newline >>
                     /\ wire' # << >> => wire'[1] = Newline
                     /\ wire' = << >> => writes = << >>)
        /\ UNCHANGED serverVars

(* The read that was started before the rest was dropped has found the     *)
(* newline a report begins with: it ends without reading, and its handler  *)
(* prints the buffer, which is empty.                                      *)
ReadDropped ==
    /\ dropped > 0
    /\ dropped' = 0
    /\ WriteToStdout(<< >>, SubSeq(memory, dropped + 1, Len(memory)))
    /\ UNCHANGED << serverVars, wire, memory, size, ids, whole >>

Next ==
    \/ \E shape \in Shapes : SendRaport(shape)
    \/ ContinueWrite
    \/ \E n \in 1 .. ReadSize : Read(n)
    \/ ReadDropped

Spec == Init /\ [][Next]_vars

-----------------------------------------------------------------------------
(* Types; the buffer never counts more unread cells than were ever read    *)
(* (raport_buffer_, client.cc:134-193).                                    *)
TypeOK ==
    /\ \A i \in DOMAIN writes : /\ writes[i].next \in 1 .. writes[i].last
                                /\ writes[i].dangling \in BOOLEAN
    /\ Len(wire) \in 0 .. SendBuffer
    /\ size \in 0 .. Len(memory) /\ dropped \in 0 .. Len(memory)
    /\ ids \in 0 .. 1
    /\ {whole, alone, fresh} \subseteq BOOLEAN

ToCome(w) == SubSeq(raport, w.next, w.last)
Coming    == Texts(SubSeq(memory, 1, size) \o wire
                       \o FlattenSeq([i \in DOMAIN writes |-> ToCome(writes[i])]))

Before(a, b) == \/ a.report < b.report
                \/ a.report = b.report /\ a.at < b.at

(* Every text stands behind what it stands behind in its report.           *)
InPlace(cells) ==
    \A k \in 2 .. Len(cells) : TextOf(cells[k]) # << >> =>
        LET c == cells[k]
        IN  /\ c.report \in 1 .. Len(reports)
            /\ c.at \in 2 .. Len(reports[c.report])
            /\ cells[k - 1] = reports[c.report][c.at - 1]

(* Reads and writes may cut the stream anywhere, inside a line too; what   *)
(* is left of a line that a read has cut is dropped, so that lines lose    *)
(* their ends, or are lost.  But as long as no report was built over one   *)
(* under way and no read was shorter than an earlier one, nothing is       *)
(* printed twice or out of order, every line on the terminal begins where  *)
(* a line of a report begins and has no hole, and no two lines are run     *)
(* together (client.cc:145, client.cc:167-171, client.cc:188,              *)
(* connection.cc:57).                                                      *)
LinesInOrder == alone /\ fresh =>
    /\ \A i \in 1 .. Len(printed) - 1 : Before(printed[i], printed[i + 1])
    /\ \A t \in Range(printed) : t \in Range(reports[t.report])
    /\ InPlace(output)

(* If besides every read ended before a newline, not only at the end of a  *)
(* report, everything the reports said has been printed or is on its way   *)
(* (server.cc:460-471, client.cc:185-193).                                 *)
ReportsIntact == alone /\ fresh /\ whole =>
    printed \o Coming = Texts(FlattenSeq(reports))

=============================================================================
