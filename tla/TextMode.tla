------------------------------- MODULE TextMode -------------------------------
(***************************************************************************)
(* Text mode of the low-level I/O: _read_nolock with                       *)
(* translate_text_mode_nolock (read.cpp), _write_nolock with               *)
(* write_text_ansi_nolock and write_text_utf16le_nolock (write.cpp), and   *)
(* _lseeki64_nolock (lseek.cpp).                                           *)
(*                                                                         *)
(* One handle, held by one thread at a time (Lowio).  It is a file that    *)
(* can be sought, or a pipe, where the character after a CR cannot be put  *)
(* back and is kept for the next read.  The two loops take one step for    *)
(* every turn.                                                             *)
(***************************************************************************)
EXTENDS Integers, Sequences, SequencesExt, FiniteSetsExt

CONSTANTS
    CR, LF, CtrlZ,
    Letters,    \* the other characters
    LowLF,      \* those whose first byte in UTF-16 is that of LF, as U+010A
    Handles,    \* kinds of handle: "file", "pipe"
    Modes,      \* text modes: "ansi", "utf16le"
    BufSize,    \* BUF_SIZE, the characters of the translation buffer
    MaxDisk,    \* bound: characters of the file, at first
    MaxFile,    \*   and after writing
    MaxRead,    \* bound: characters asked for in a read
    MaxWrite    \* bound: characters given to a write

ASSUME TextModeAssumption ==
    /\ LowLF \subseteq Letters
    /\ BufSize \in Nat /\ BufSize >= 2
    /\ MaxDisk \in Nat /\ MaxFile \in Nat /\ MaxRead \in Nat /\ MaxWrite \in Nat

Chars == {CR, LF, CtrlZ} \cup Letters

Texts(n) == UNION {[1..k -> Chars] : k \in 0..n}

VARIABLES
    kind, mode, \* what the handle is
    disk,       \* the characters of the file or pipe
    pos,        \* how many are read or written over
    eof,        \* FEOFLAG
    look,       \* _pipe_lookahead: LF when empty
    pc,         \* the step of the call
    head,       \* a character in the buffer that is not translated
    source,     \* what the loop has still to translate
    out,        \* what it has translated; of a write: char_count of it is written
    lf_count,   \* of a write
    got,        \* the result of the last call: <<characters>>, or <<-1>>
    from,       \* history: where reading began
    text,       \*   what was read since,
    late,       \*   and whether a character of the lookahead came with it
    sent        \* history: the buffer of a write

io   == <<disk, pos, eof, look>>
vars == <<kind, mode, io, pc, head, source, out, lf_count, got, from, text, late, sent>>

Init ==
    /\ kind \in Handles /\ mode \in Modes
    /\ disk \in Texts(MaxDisk)
    /\ pos = 0
    /\ eof = FALSE
    /\ look = LF
    /\ pc = "idle"
    /\ head = << >> /\ source = << >> /\ out = << >>
    /\ lf_count = 0
    /\ got = << >>
    /\ from = 0 /\ text = << >> /\ late = FALSE
    /\ sent = << >>

-----------------------------------------------------------------------------
(* _read_nolock *)

\* ReadFile: a file gives what is asked for, a pipe what has arrived.
Reads(n) ==
    LET left == Len(disk) - pos
    IN  IF kind = "file" THEN {IF n < left THEN n ELSE left}
        ELSE {k \in 0..n : k <= left /\ (k = 0 => n = 0)}

\* The flag is set: a read finds the end.
ReadAtEof(n) ==
    /\ pc = "idle" /\ n > 0
    /\ eof
    /\ got' = <<0>>
    /\ UNCHANGED <<kind, mode, io, pc, head, source, out, lf_count, from, text, late, sent>>

(***************************************************************************)
(* A character was looked ahead.  The test is on its first byte, for which *)
(* LF says that there is none.                                             *)
(***************************************************************************)
LookedAhead == kind = "pipe" /\ look # LF /\ ~(mode = "utf16le" /\ look \in LowLF)

\* A read of n characters.
Read(n) ==
    /\ pc = "idle" /\ n > 0
    /\ ~eof
    /\ ~LookedAhead
    /\ late' = (late \/ look # LF)
    /\ \E k \in Reads(n) :
           /\ source' = SubSeq(disk, pos + 1, pos + k)
           /\ pos' = pos + k
    /\ pc' = "translate"
    /\ got' = << >>
    /\ UNCHANGED <<kind, mode, disk, eof, look, head, out, lf_count, from, text, sent>>

(***************************************************************************)
(* The character that the last read looked ahead is the first one.  In the *)
(* ANSI mode internal_buffer is advanced over it, bytes_read counts it:    *)
(* the translation begins after it and ends one character late, with what  *)
(* the buffer happens to hold there.                                       *)
(***************************************************************************)
ReadLookahead(n) ==
    /\ pc = "idle" /\ n > 0
    /\ ~eof
    /\ LookedAhead
    /\ look' = LF
    /\ late' = TRUE
    /\ \E k \in Reads(n - 1), stale \in Chars :
           /\ pos' = pos + k
           /\ LET data == SubSeq(disk, pos + 1, pos + k)
              IN  IF mode = "ansi"
                  THEN head' = <<look>> /\ source' = Append(data, stale)
                  ELSE head' = << >> /\ source' = <<look>> \o data
    /\ pc' = "translate"
    /\ got' = << >>
    /\ UNCHANGED <<kind, mode, disk, eof, out, lf_count, from, text, sent>>

(***************************************************************************)
(* ReadFile fails: with ERROR_BROKEN_PIPE all data is read and 0 returned, *)
(* otherwise -1.  What was looked ahead is in the buffer by then.          *)
(***************************************************************************)
ReadFails(n) ==
    /\ pc = "idle" /\ n > 0
    /\ ~eof
    /\ got' \in {<<-1>>} \cup IF kind = "pipe" /\ pos = Len(disk) THEN {<<0>>} ELSE {}
    /\ look' = IF LookedAhead THEN LF ELSE look
    /\ late' = (late \/ look # LF)
    /\ UNCHANGED <<kind, mode, disk, pos, eof, pc, head, source, out, lf_count, from, text, sent>>

-----------------------------------------------------------------------------
(* translate_text_mode_nolock *)

\* One turn of the loop: k characters of the source become s.
Turn(k, s) ==
    /\ source' = SubSeq(source, k + 1, Len(source))
    /\ out' = out \o s
    /\ UNCHANGED <<kind, mode, disk, pc, head, lf_count, got, from, text, late, sent>>

Translating == pc = "translate" /\ source # << >>

\* Ctrl-Z ends the file, and the loop.
StopAtCtrlZ ==
    /\ Translating /\ source[1] = CtrlZ
    /\ eof' = TRUE
    /\ source' = << >>
    /\ UNCHANGED <<kind, mode, disk, pos, look, pc, head, out, lf_count, got, from, text, late, sent>>

\* A character that is not a CR, or a CR before another character.
Copy ==
    /\ Translating /\ source[1] # CtrlZ
    /\ source[1] = CR => Len(source) > 1 /\ source[2] # LF
    /\ Turn(1, <<source[1]>>)
    /\ UNCHANGED <<pos, eof, look>>

CrLf ==
    /\ Translating /\ source[1] = CR
    /\ Len(source) > 1 /\ source[2] = LF
    /\ Turn(2, <<LF>>)
    /\ UNCHANGED <<pos, eof, look>>

LastCr == Translating /\ source = <<CR>>

\* There is nothing to peek at.
PeekFails ==
    /\ LastCr /\ pos = Len(disk)
    /\ Turn(1, <<CR>>)
    /\ UNCHANGED <<pos, eof, look>>

\* On a pipe the peeked character is translated or kept.
PeekPipe ==
    /\ LastCr /\ pos < Len(disk) /\ kind = "pipe"
    /\ pos' = pos + 1
    /\ IF disk[pos + 1] = LF
       THEN Turn(1, <<LF>>) /\ UNCHANGED look
       ELSE Turn(1, <<CR>>) /\ look' = disk[pos + 1]
    /\ UNCHANGED eof

\* Mutant: a read of one character gives nothing.
PeekFile_NoProgress ==
    /\ LastCr /\ pos < Len(disk) /\ kind = "file"
    /\ Turn(1, IF disk[pos + 1] = LF THEN << >> ELSE <<CR>>)
    /\ eof' = FALSE
    /\ UNCHANGED <<pos, look>>

(***************************************************************************)
(* On a file the peeked character is read again, but for an LF that would  *)
(* leave the read with no character at all.  The seek clears FEOFLAG.      *)
(***************************************************************************)
PeekFile ==
    /\ LastCr /\ pos < Len(disk) /\ kind = "file"
    /\ IF disk[pos + 1] = LF /\ out = << >>
       THEN /\ Turn(1, <<LF>>)
            /\ pos' = pos + 1
            /\ UNCHANGED eof
       ELSE /\ Turn(1, IF disk[pos + 1] = LF THEN << >> ELSE <<CR>>)
            /\ eof' = FALSE
            /\ UNCHANGED pos
    /\ UNCHANGED look

\* The loop is over: as many characters are returned as were translated.
Return ==
    /\ pc = "translate" /\ source = << >>
    /\ pc' = "idle"
    /\ text' = text \o SubSeq(head \o out, 1, Len(out))
    /\ got' = <<Len(out)>>
    /\ head' = << >> /\ out' = << >>
    /\ UNCHANGED <<kind, mode, io, source, lf_count, from, late, sent>>

-----------------------------------------------------------------------------
(* _lseeki64_nolock and _write_nolock *)

Seek(p) ==
    /\ pc = "idle" /\ kind = "file"
    /\ pos' = p
    /\ eof' = FALSE
    /\ from' = p /\ text' = << >>
    /\ got' = << >>
    /\ UNCHANGED <<kind, mode, disk, look, pc, head, source, out, lf_count, late, sent>>

\* A write to a file that is open for appending: the seek to the end first.
Write(s) ==
    /\ pc = "idle" /\ kind = "file" /\ s # << >>
    /\ Len(disk) + 2 * Len(s) <= MaxFile
    /\ pos' = Len(disk)
    /\ eof' = FALSE
    /\ pc' = "write"
    /\ source' = s
    /\ sent' = s
    /\ text' = << >>
    /\ got' = << >>
    /\ UNCHANGED <<kind, mode, disk, look, head, out, lf_count, from, late>>

\* Mutant: an LF that has its CR gets no other.
Expand_Once(s) ==
    FlattenSeq([i \in 1..Len(s) |->
        IF s[i] = LF /\ (i = 1 \/ s[i - 1] # CR) THEN <<CR, LF>> ELSE <<s[i]>>])

\* LF => CR LF
Expand(s) == FlattenSeq([i \in 1..Len(s) |-> IF s[i] = LF THEN <<CR, LF>> ELSE <<s[i]>>])

\* How many characters of the source the translation buffer takes.
Chunk(s) ==
    CHOOSE k \in 1..Len(s) :
        /\ k = Len(s) \/ Len(Expand(SubSeq(s, 1, k))) >= BufSize - 1
        /\ \A j \in 1..(k - 1) : Len(Expand(SubSeq(s, 1, j))) < BufSize - 1

LFs(s) == Len(SelectSeq(s, LAMBDA c : c = LF))

(***************************************************************************)
(* One turn: a chunk is translated and written, whole or in part.  A short *)
(* write ends the loop; the LFs of the chunk are counted all the same.     *)
(***************************************************************************)
WriteChunk ==
    /\ pc = "write" /\ source # << >>
    /\ LET k     == Chunk(source)
           lfbuf == Expand(SubSeq(source, 1, k))
       IN  /\ lf_count' = lf_count + LFs(SubSeq(source, 1, k))
           /\ \E written \in 0..Len(lfbuf) :
                  /\ disk' = disk \o SubSeq(lfbuf, 1, written)
                  /\ pos' = pos + written
                  /\ out' = out \o SubSeq(lfbuf, 1, written)
                  /\ source' = IF written < Len(lfbuf) THEN << >>
                               ELSE SubSeq(source, k + 1, Len(source))
    /\ UNCHANGED <<kind, mode, eof, look, pc, head, got, from, text, late, sent>>

\* WriteFile fails.
WriteFails ==
    /\ pc = "write" /\ source # << >>
    /\ lf_count' = lf_count + LFs(SubSeq(source, 1, Chunk(source)))
    /\ source' = << >>
    /\ UNCHANGED <<kind, mode, io, pc, head, out, got, from, text, late, sent>>

\* char_count - lf_count, or -1 with an error if nothing was written.
Written ==
    /\ pc = "write" /\ source = << >>
    /\ pc' = "idle"
    /\ got' = <<IF out = << >> THEN -1 ELSE Len(out) - lf_count>>
    /\ out' = << >> /\ lf_count' = 0
    /\ from' = pos
    /\ sent' = << >>
    /\ UNCHANGED <<kind, mode, io, head, source, text, late>>

Next ==
    \/ \E n \in 1..MaxRead : ReadAtEof(n) \/ Read(n) \/ ReadLookahead(n) \/ ReadFails(n)
    \/ StopAtCtrlZ \/ Copy \/ CrLf \/ PeekFails \/ PeekPipe \/ PeekFile \/ Return
    \/ \E p \in 0..Len(disk) : Seek(p)
    \/ \E s \in Texts(MaxWrite) : Write(s)
    \/ WriteChunk \/ WriteFails \/ Written

Spec == Init /\ [][Next]_vars

-----------------------------------------------------------------------------
(* Properties *)

(***************************************************************************)
(* What the text mode is for, said in one go: the file ends before the     *)
(* first Ctrl-Z, and a CR before an LF is left out.                        *)
(***************************************************************************)
UpToCtrlZ(s) ==
    LET z == SelectInSeq(s, LAMBDA c : c = CtrlZ)
    IN  IF z = 0 THEN s ELSE SubSeq(s, 1, z - 1)

TextOf(s) ==
    LET t    == UpToCtrlZ(s)
        kept == {i \in 1..Len(t) : ~(t[i] = CR /\ i < Len(t) /\ t[i + 1] = LF)}
        ord  == SetToSortSeq(kept, <)
    IN  [j \in 1..Len(ord) |-> t[ord[j]]]

\* The reads since the last seek gave the text, and 0 is the end of it.
TextIsRead ==
    LET whole == TextOf(SubSeq(disk, from + 1, Len(disk)))
    IN  /\ IsPrefix(text, whole)
        /\ got = <<0>> => text = whole

(***************************************************************************)
(* However a program cuts a text into reads, and wherever a read ends in a *)
(* CR LF, the characters it gets are those of the text; a read returns 0   *)
(* only at its end.  So it is for files, and for pipes as long as no       *)
(* character looked ahead by one read is handed out by the next.           *)
(***************************************************************************)
ReadsText == kind = "file" \/ ~late => TextIsRead

\* The characters of the buffer whose translation is on the disk.
Landed == Max({k \in 0..Len(sent) : IsPrefix(Expand(SubSeq(sent, 1, k)), out)})

(***************************************************************************)
(* A write that is complete returns the length of its buffer, and reading  *)
(* it back gives the buffer, CRs of its own included.  One that is cut     *)
(* short at any character never returns more than what is on the disk.     *)
(***************************************************************************)
WritesText ==
    [][pc = "write" /\ pc' = "idle" =>
         /\ got'[1] <= Landed
         /\ Landed = Len(sent) => /\ got'[1] = Len(sent)
                                  /\ TextOf(out) = UpToCtrlZ(sent)]_vars
=============================================================================
