------------------------------- MODULE Paging -------------------------------
(***************************************************************************)
(* read_file on a large file (tools/builtin/fs.py, _StreamLines and        *)
(* _format_stream_lines): a window of lines is cut out of a stream that is *)
(* read in chunks, with a \r\n or a long line possibly split between two   *)
(* of them, and the page says whether anything follows it.                 *)
(*                                                                         *)
(* A file is a sequence of "x" (a character), "r" and "n"; a line is the   *)
(* number of its characters kept and of those clipped. Decoding and the    *)
(* refusal of binary files are left out.                                   *)
(***************************************************************************)
EXTENDS Naturals, Sequences, FiniteSets, FiniteSetsExt, Subsequences

CONSTANTS
  Files,    \* files that are read
  Chunks,   \* sizes of a chunk
  Widths,   \* values of max_line_chars
  Windows   \* [first, last] line asked for

VARIABLES
  file, chunk, width, window,
  read,     \* characters of the file that are decoded
  pos,      \* ... and consumed
  eof,
  line,     \* the line that is being read
  started,  \* it has characters
  total,    \* lines read
  page,     \* number -> line, those in the window
  status    \* "reading" | "peeking" | "page" | "page, more" | "empty" | "past"

input == <<file, chunk, width, window>>
vars == <<input, read, pos, eof, line, started, total, page, status>>

Blank == [kept |-> 0, dropped |-> 0]

\* ---- _StreamLines ---------------------------------------------------------------

Breaks == {i \in pos + 1 .. read : file[i] # "x"}
Break == Min(Breaks)

\* A \r at the end of the buffer may be half of a \r\n.
SplitNever == FALSE
Split == Breaks # {} /\ file[Break] = "r" /\ Break = read /\ ~eof

BreakEnd ==
  IF file[Break] = "r" /\ Break < read /\ file[Break + 1] = "n" THEN Break + 1 ELSE Break

Absorb(n) ==
  LET room == IF line.dropped > 0 THEN 0 ELSE Min({n, width - line.kept})
  IN [kept |-> line.kept + room, dropped |-> line.dropped + n - room]

\* The line is complete; the window may be, too.
Emit(finished) ==
  /\ total' = total + 1 /\ line' = Blank /\ started' = FALSE
  /\ page' = IF total' >= window.first THEN [i \in DOMAIN page \cup {total'} |->
                                               IF i = total' THEN finished ELSE page[i]]
             ELSE page
  /\ status' = IF total' = window.last THEN "peeking" ELSE status

EndLine ==
  /\ status = "reading" /\ Breaks # {} /\ ~Split
  /\ Emit(Absorb(Break - 1 - pos)) /\ pos' = BreakEnd
  /\ UNCHANGED <<input, read, eof>>

Fill ==
  /\ read' = Min({Len(file), read + chunk})
  /\ eof' = (eof \/ read = Len(file))

\* What has no break yet is absorbed and the next chunk is read.
ReadOn ==
  /\ status = "reading" /\ (Breaks = {} \/ Split) /\ ~eof
  /\ LET stop == IF Split THEN read - 1 ELSE read
     IN line' = Absorb(stop - pos) /\ started' = (started \/ stop > pos) /\ pos' = stop
  /\ Fill
  /\ UNCHANGED <<input, total, page, status>>

\* A last line without a break; then the file is over.
LastLine ==
  /\ status = "reading" /\ eof /\ Breaks = {} /\ (started \/ pos < read)
  /\ Emit(Absorb(read - pos)) /\ pos' = read
  /\ UNCHANGED <<input, read, eof>>

OutOfLines ==
  /\ status = "reading" /\ eof /\ pos = read /\ ~started
  /\ status' = IF DOMAIN page # {} THEN "page" ELSE IF total = 0 THEN "empty" ELSE "past"
  /\ UNCHANGED <<input, read, pos, eof, line, started, total, page>>

\* ---- has_more ---------------------------------------------------------------------

Peek ==
  /\ status = "peeking" /\ pos = read /\ ~eof /\ Fill
  /\ UNCHANGED <<input, pos, line, started, total, page, status>>

Peeked ==
  /\ status = "peeking" /\ (pos < read \/ eof)
  /\ status' = IF pos < read THEN "page, more" ELSE "page"
  /\ UNCHANGED <<input, read, pos, eof, line, started, total, page>>

Init ==
  /\ file \in Files /\ chunk \in Chunks /\ width \in Widths /\ window \in Windows
  /\ read = 0 /\ pos = 0 /\ eof = FALSE /\ line = Blank /\ started = FALSE
  /\ total = 0 /\ page = <<>> /\ status = "reading"

Next == EndLine \/ ReadOn \/ LastLine \/ OutOfLines \/ Peek \/ Peeked

Spec == Init /\ [][Next]_vars

\* ---- the same window of the whole text: str.splitlines, _format_lines --------------

Length == Len(file)

\* A line ends with a break and where the text does.
Ends == {i \in 1 .. Length : i = Length \/ file[i] = "n" \/ (file[i] = "r" /\ file[i + 1] # "n")}
LineEnds == InOrder(Ends)

Characters(k) ==
  Cardinality({i \in 1 .. LineEnds[k] : file[i] = "x" /\ (k = 1 \/ i > LineEnds[k - 1])})

Whole(k) ==
  LET n == Characters(k)
  IN IF n > width THEN [kept |-> width, dropped |-> n - width] ELSE [kept |-> n, dropped |-> 0]

Expected ==
  LET all == Len(LineEnds)
      last == Min({all, window.last})
  IN IF all = 0 THEN <<"empty", {}>>
     ELSE IF window.first > all THEN <<"past", {}>>
     ELSE <<IF last < all THEN "page, more" ELSE "page",
            {<<k, Whole(k)>> : k \in window.first .. last}>>

\* ---- properties ---------------------------------------------------------------------

\* However the chunks fall, a page of a streamed file has the lines, numbers,
\* clipping and remainder marker that the same window of the text in memory
\* has, so that paging through a file neither loses nor repeats a line and the
\* size of a file does not change its numbering (fs.py:123-125, :128-135).
PagesMatchTheText ==
  status \notin {"reading", "peeking"} =>
    <<status, {<<k, page[k]>> : k \in DOMAIN page}>> = Expected

=============================================================================
