-------------------------------- MODULE Patch --------------------------------
(***************************************************************************)
(* patch_file (tools/builtin/patch.py): the hunks of a unified diff are    *)
(* checked for order and overlap and applied to the lines of a file from   *)
(* the last to the first, with allowances for the line ends of the file    *)
(* and for a last line without one.                                        *)
(*                                                                         *)
(* A line is [text, end]; end "crlf" stands for any convention other than  *)
(* "lf". A diff is a sequence of hunks [start, old, new] and always has    *)
(* "lf" lines, but for its very last line, which may have no end.          *)
(***************************************************************************)
EXTENDS Naturals, Integers, Sequences, FiniteSets, SequencesExt

CONSTANTS
  Files,  \* sequences of lines
  Diffs   \* sequences of hunks

VARIABLES
  file, diff,
  lines,  \* with the hunks applied that follow the next one
  left,   \* hunks to be applied
  status  \* "parsed" | "applying" | "rejected" | "patched"

vars == <<file, diff, lines, left, status>>

Index(h) == IF h.old = <<>> THEN h.start ELSE h.start - 1
End(h) == Index(h) + Len(h.old)

\* ---- _validate_hunk_ranges --------------------------------------------------------

Placed(hunks) == \A i \in DOMAIN hunks : Index(hunks[i]) >= 0

InPlace(hunks) ==
  /\ Placed(hunks)
  /\ \A i \in 1 .. Len(hunks) - 1 : Index(hunks[i + 1]) >= End(hunks[i])

Ordered(hunks) ==
  /\ InPlace(hunks)
  /\ \A i \in 1 .. Len(hunks) - 1 :
       ~ /\ hunks[i].old = <<>> /\ hunks[i + 1].old = <<>>
         /\ Index(hunks[i]) = Index(hunks[i + 1])

\* ---- _apply -----------------------------------------------------------------------

\* Only the last line of the file may differ in its end.
Match(actual, expected, atEnd) ==
  /\ Len(actual) = Len(expected)
  /\ \A i \in DOMAIN actual :
       \/ actual[i] = expected[i]
       \/ atEnd /\ i = Len(actual) /\ actual[i].text = expected[i].text

Convention == IF \E i \in DOMAIN file : file[i].end = "crlf" THEN "crlf" ELSE "lf"

Adapted(new) == [i \in DOMAIN new |-> [new[i] EXCEPT !.end = IF @ = "lf" THEN Convention ELSE @]]

\* What a hunk puts in the place of its lines: nothing if they do not match.
Fitting(h) ==
  LET actual == SubSeq(lines, Index(h) + 1, End(h))
      atEnd == End(h) = Len(lines)
  IN IF End(h) > Len(lines) THEN {}
     ELSE IF Match(actual, h.old, atEnd) THEN {h.new}
     ELSE {n \in {Adapted(h.new)} : Match(actual, Adapted(h.old), atEnd)}

Validate ==
  /\ status = "parsed"
  /\ status' = IF diff # <<>> /\ Ordered(diff) THEN "applying" ELSE "rejected"
  /\ UNCHANGED <<file, diff, lines, left>>

Applying == status = "applying" /\ left # <<>>

ApplyHunk ==
  /\ Applying
  /\ LET h == Last(left)
     IN \E new \in Fitting(h) :
          lines' = SubSeq(lines, 1, Index(h)) \o new \o SubSeq(lines, End(h) + 1, Len(lines))
  /\ left' = Front(left)
  /\ UNCHANGED <<file, diff, status>>

Reject ==
  /\ Applying
  /\ Fitting(Last(left)) = {}
  /\ status' = "rejected"
  /\ UNCHANGED <<file, diff, lines, left>>

Terminated(seq) == seq # <<>> /\ Last(seq).end # "none"

\* The file keeps its last line end, or the lack of it.
Restored ==
  IF lines = <<>> \/ Terminated(file) = Terminated(lines) THEN lines
  ELSE [lines EXCEPT ![Len(lines)].end = IF Terminated(file) THEN Convention ELSE "none"]

Save ==
  /\ status = "applying" /\ left = <<>>
  /\ lines' = Restored /\ status' = "patched"
  /\ UNCHANGED <<file, diff, left>>

Init ==
  /\ file \in Files /\ diff \in Diffs
  /\ lines = file /\ left = diff /\ status = "parsed"

Next == Validate \/ ApplyHunk \/ Reject \/ Save

Spec == Init /\ [][Next]_vars

\* ---- the patched file, without an order of application ------------------------------

\* How far a hunk moves what follows it, with the hunks before it.
Shift ==
  LET shift[n \in 0 .. Len(diff)] ==
        IF n = 0 THEN 0 ELSE shift[n - 1] + (Len(diff[n].new) - Len(diff[n].old))
  IN shift

\* A line stands at i: only the last line of a file may have got another end.
Stands(i, line, ends) ==
  /\ i \in DOMAIN lines /\ lines[i].text = line.text
  /\ i < Len(lines) => lines[i].end \in {line.end} \cup ends

HunksStand ==
  \A n \in DOMAIN diff : \A k \in DOMAIN diff[n].new :
    Stands(Index(diff[n]) + Shift[n - 1] + k, diff[n].new[k], {Convention})

\* The lines of the file behind n hunks and before the next one.
Between(n) ==
  {p \in DOMAIN file : /\ n > 0 => End(diff[n]) < p
                       /\ n < Len(diff) => p <= Index(diff[n + 1])}

OthersStand ==
  \A n \in 0 .. Len(diff) : \A p \in Between(n) : Stands(p + Shift[n], file[p], {})

LinesAreWhole == \A i \in 1 .. Len(lines) - 1 : lines[i].end # "none"

\* The diff ends with a line end and inserts nothing behind a last line that
\* has none.
Regular ==
  /\ \A n \in DOMAIN diff : \A i \in DOMAIN diff[n].new : diff[n].new[i].end # "none"
  /\ \A n \in DOMAIN diff : diff[n].old = <<>> /\ Index(diff[n]) = Len(file) =>
       file = <<>> \/ Terminated(file)

Verbatim ==
  \A n \in DOMAIN diff : LET h == diff[n] IN
    End(h) <= Len(file) /\ SubSeq(file, Index(h) + 1, End(h)) = h.old

\* ---- properties -----------------------------------------------------------------------

\* A diff is applied to exactly the lines it names or not at all: in the patched
\* file the lines of every hunk stand where they belong, moved by the hunks
\* before it; so does every line no hunk takes, with its own end; there is no
\* other line, no two are joined, and the file ends as it did. And a diff in
\* order that matches word for word is never rejected (patch.py, _apply,
\* _validate_hunk_ranges).
PatchIsExact ==
  /\ status = "patched" =>
       /\ Len(lines) = Len(file) + Shift[Len(diff)]
       /\ HunksStand /\ OthersStand
       /\ lines # <<>> => Terminated(lines) = Terminated(file)
       /\ Regular => LinesAreWhole
  /\ status = "rejected" => diff = <<>> \/ ~(Ordered(diff) /\ Verbatim)

\* patch.py:123-125: diff lines always have a line end, and only the last line
\* of the file needs to be seen to - a line the diff adds stays a line.
AddedLinesStayLines == status = "patched" => LinesAreWhole

=============================================================================
