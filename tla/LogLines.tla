------------------------------- MODULE LogLines -------------------------------
(***************************************************************************)
(* Lines of the logs: the writer that turns the core's output, cut into    *)
(* chunks anywhere, into log records (logging/capture.go), and the reader  *)
(* of the export, which sees the file in pieces of its buffer              *)
(* (logging/export_json.go). Both cap the length of a line.                *)
(***************************************************************************)
EXTENDS Integers, Sequences, SequencesExt, FiniteSets

CONSTANTS LineCap,      \* MaxCaptureLineBytes
          RecordCap,    \* MaxExportRecordBytes
          ReadBuffer,   \* exportReadBufferBytes
          MaxBytes,     \* bound on the bytes the core writes
          MaxChunk,     \* bound on the bytes of one WriteChunk
          MaxFlushes    \* bound on calls of FlushCapture

\* A byte is a letter, the two halves of a two-byte rune, a newline or a return.
LogBytes == {"a", "lead", "tail", "nl", "cr"}

VARIABLES stream,   \* the bytes the core has written
          cuts,     \* stream positions at which the writer was flushed
          capture,  \* lineCaptureWriter: [buf, trunc, drop]
          said,     \* records logged: [text, truncated, invalid]
          captureClosed

llVars == <<stream, cuts, capture, said, captureClosed>>

UptoByte(s, n) == SubSeq(s, 1, n)
FromByte(s, n) == SubSeq(s, n + 1, Len(s))
IndexNL(s) == SelectInSeq(s, LAMBDA b : b = "nl")  \* 0 when there is none
WithoutReturn(s) == IF s # <<>> /\ Last(s) = "cr" THEN Front(s) ELSE s

\* A replacement rune takes the three bytes of U+FFFD.
Weight(s) == Len(s) + 2 * Len(SelectSeq(s, LAMBDA b : b = "bad"))

\* sanitizeUTF8: what is no rune becomes a replacement.
RECURSIVE Sanitized(_)
Sanitized(s) ==
  IF s = <<>> THEN <<>>
  ELSE IF s[1] = "lead" /\ Len(s) > 1 /\ s[2] = "tail"
       THEN <<"lead", "tail">> \o Sanitized(FromByte(s, 2))
  ELSE <<IF s[1] \in {"lead", "tail"} THEN "bad" ELSE s[1]>> \o Sanitized(FromByte(s, 1))

\* A line that was cut may end in the first half of a rune, which is dropped.
WithoutHalf(s) == IF s # <<>> /\ Last(s) = "lead" THEN Front(s) ELSE s

\* The longest prefix of whole runes that fits.
Fitting(s) ==
  IF Weight(s) <= LineCap THEN s
  ELSE LET whole(n) == n = Len(s) \/ s[n + 1] # "tail"
           ok == {n \in 0..Len(s) : whole(n) /\ Weight(UptoByte(s, n)) <= LineCap}
       IN  UptoByte(s, CHOOSE n \in ok : \A k \in ok : k <= n)

\* emitLine of a buffer
LineRecord(buf, trunc) ==
  LET line == IF trunc THEN WithoutHalf(WithoutReturn(buf)) ELSE WithoutReturn(buf)
      text == Sanitized(line)
  IN  [text |-> Fitting(text), truncated |-> trunc \/ Weight(text) > LineCap,
       invalid |-> text # line]

EmptyLine == [buf |-> <<>>, trunc |-> FALSE, drop |-> FALSE]

DropKept(w, out) ==
  [w |-> [EmptyLine EXCEPT !.drop = w.drop], out |-> Append(out, LineRecord(w.buf, w.trunc))]

Emitted(w, out) == [w |-> EmptyLine, out |-> Append(out, LineRecord(w.buf, w.trunc))]

\* consume: a writer w, what it logged so far, and the rest of a chunk
RECURSIVE Consume(_, _, _)
Consume(w, out, p) ==
  LET i == IndexNL(p)
      chunk == IF i = 0 THEN p ELSE UptoByte(p, i - 1)
      rest == FromByte(p, i)
      room == LineCap - Len(w.buf)
      over == Len(chunk) > room
      kept == [w EXCEPT !.buf = @ \o (IF over THEN UptoByte(chunk, room) ELSE chunk),
                        !.trunc = @ \/ over, !.drop = over]
      line(x) == LET e == Emitted(x, out) IN Consume(e.w, e.out, rest)
  IN  IF p = <<>> THEN [w |-> w, out |-> out]
      ELSE IF w.drop THEN IF i = 0 THEN [w |-> w, out |-> out] ELSE line(w)
      ELSE IF i = 0 THEN [w |-> kept, out |-> out] ELSE line(kept)

(***************************************************************************)
(* The writer                                                              *)
(***************************************************************************)

WriteChunk(p) ==
  /\ ~captureClosed /\ Len(stream) + Len(p) <= MaxBytes
  /\ stream' = stream \o p
  /\ LET r == Consume(capture, said, p) IN capture' = r.w /\ said' = r.out
  /\ UNCHANGED <<cuts, captureClosed>>

\* emitPartial
Partial ==
  IF capture.buf = <<>> /\ ~capture.trunc
  THEN capture' = [capture EXCEPT !.drop = FALSE] /\ UNCHANGED said
  ELSE LET e == Emitted(capture, said) IN capture' = e.w /\ said' = e.out

FlushCapture ==
  /\ ~captureClosed /\ Cardinality(cuts) < MaxFlushes
  /\ Partial
  /\ cuts' = cuts \cup {Len(stream)}
  /\ UNCHANGED <<stream, captureClosed>>

CloseCapture ==
  /\ ~captureClosed /\ captureClosed' = TRUE
  /\ Partial
  /\ cuts' = cuts \cup {Len(stream)}
  /\ UNCHANGED stream

LogChunks == UNION {[1..n -> LogBytes] : n \in 1..MaxChunk}

LlInit ==
  /\ stream = <<>> /\ cuts = {} /\ said = <<>> /\ captureClosed = FALSE
  /\ capture = EmptyLine

LlNext == (\E p \in LogChunks : WriteChunk(p)) \/ FlushCapture \/ CloseCapture

(***************************************************************************)
(* The export's reader                                                     *)
(***************************************************************************)

\* One fragment of ReadSlice joins the line, which stays overlong once it is.
Joined(line, fragment, over) ==
  IF over THEN [line |-> line, over |-> TRUE]
  ELSE IF Len(line) + Len(fragment) > RecordCap THEN [line |-> <<>>, over |-> TRUE]
  ELSE [line |-> line \o fragment, over |-> FALSE]

TooLong == <<"long">>

\* boundedLineReader.Next, called until EOF: the lines, TooLong for one it skipped.
RECURSIVE NextLines(_, _, _)
NextLines(rest, line, over) ==
  LET window == UptoByte(rest, IF Len(rest) < ReadBuffer THEN Len(rest) ELSE ReadBuffer)
      i == IndexNL(window)
      fragment == IF i = 0 THEN window ELSE UptoByte(window, i - 1)
      j == Joined(line, fragment, over)
      result == IF j.over THEN TooLong ELSE j.line
  IN  IF i # 0 THEN <<result>> \o NextLines(FromByte(rest, i), <<>>, FALSE)
      ELSE IF Len(window) = ReadBuffer THEN NextLines(FromByte(rest, ReadBuffer), j.line, j.over)
      ELSE IF fragment = <<>> /\ j.line = <<>> /\ ~j.over THEN <<>> ELSE <<result>>

\* exportJSON: the records written to the archive and the count of lines skipped,
\* which are too long, no text, broken by a return, or no record at all.
Exported(bytes) ==
  LET all == NextLines(bytes, <<>>, FALSE)
      payload(l) == WithoutReturn(l)
      decodes(l) == /\ l # TooLong /\ payload(l) # <<>>
                    /\ Sanitized(payload(l)) = payload(l)
                    /\ \A i \in DOMAIN payload(l) : payload(l)[i] # "cr"
      good == SelectSeq(all, decodes)
  IN  [records |-> [i \in DOMAIN good |-> payload(good[i])], skipped |-> Len(all) - Len(good)]

-----------------------------------------------------------------------------
(* Properties *)

\* A line in progress and a record of a line keep within the cap, in bytes, also when
\* replacements have made the text longer than what was read.
LlTypeOK ==
  /\ Len(stream) <= MaxBytes /\ cuts \subseteq 0..Len(stream)
  /\ Len(capture.buf) <= LineCap
  /\ \A i \in DOMAIN said : Weight(said[i].text) <= LineCap

\* The lines of the stream by definition: each ends at a newline, or where the
\* writer was flushed if it has begun there.
LinesWritten ==
  LET pushed(acc, i) == IF i \in cuts /\ acc.cur # <<>>
                        THEN [done |-> Append(acc.done, acc.cur), cur |-> <<>>] ELSE acc
      byte(acc, i) == IF stream[i] = "nl" THEN [done |-> Append(acc.done, acc.cur), cur |-> <<>>]
                      ELSE [acc EXCEPT !.cur = Append(@, stream[i])]
      at[i \in 0..Len(stream)] ==
        IF i = 0 THEN [done |-> <<>>, cur |-> <<>>] ELSE pushed(byte(at[i - 1], i), i)
  IN  at[Len(stream)].done

\* Whatever chunks the core's output arrives in (capture.go consume), one record is logged
\* per line: its text, or the beginning of it marked as truncated if it was too long.
LinesAsWritten ==
  LET lines == LinesWritten
  IN  /\ Len(said) = Len(lines)
      /\ \A i \in DOMAIN lines :
           LET whole == Sanitized(WithoutReturn(lines[i]))
           IN  IF Len(lines[i]) <= LineCap /\ Weight(whole) <= LineCap
               THEN said[i].text = whole /\ ~said[i].truncated
               ELSE IsPrefix(said[i].text, Sanitized(lines[i])) /\ said[i].truncated

\* The cap never makes bad text of good: a line that is text is not labelled invalid
\* because emitLine cut it inside a rune.
CutNotInvalid ==
  LET lines == LinesWritten
  IN  \A i \in DOMAIN lines : Sanitized(lines[i]) = lines[i] => ~said[i].invalid

\* The export (export_json.go) counts every physical line once whatever the pieces it
\* reads, also the last one without a newline, and writes only whole lines.
ExportWhole ==
  LET ends == {i \in 1..Len(stream) : stream[i] = "nl"} \cup {Len(stream) + 1}
      from(i) == Max({0} \cup {j \in ends : j < i})
      text(i) == SubSeq(stream, from(i) + 1, i - 1)
      lines == {i \in ends : i <= Len(stream) \/ text(i) # <<>>}
      e == Exported(stream)
  IN  /\ Len(e.records) + e.skipped = Cardinality(lines)
      /\ \A r \in DOMAIN e.records : \E i \in lines :
           Len(text(i)) <= RecordCap /\ e.records[r] = WithoutReturn(text(i))

\* Everything above that a reachable state promises.
LlSafe == LlTypeOK /\ LinesAsWritten /\ CutNotInvalid /\ ExportWhole
=============================================================================
