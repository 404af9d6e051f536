---------------------------- MODULE LogSanitizer ----------------------------
(***************************************************************************)
(* What leaves the logs surface: the bytes a guest wrote, read in chunks   *)
(* that end anywhere, decoded chunk by chunk, and filtered by one          *)
(* TerminalSanitizer per stream that lets text and SGR colour through and  *)
(* replaces every other sequence by one U+FFFD.  A character is its class: *)
(* what the filter can tell apart.                                         *)
(***************************************************************************)
EXTENDS Naturals, Sequences, SequencesExt

CONSTANTS
    MaxLen,         \* bytes the guest writes
    MaxChunk,       \* LOG_FOLLOW_CHUNK_BYTES
    MaxParameters   \* MAX_CSI_PARAMETER_BYTES

VARIABLES
    written,    \* the bytes of the log
    offset,     \* how many were read
    state, parameters,  \* the sanitizer
    out,        \* what the client received
    decoded,    \* history: the characters given to the sanitizer
    split,      \* history: a chunk ended inside a character
    ended       \* the stream is over

vars == <<written, offset, state, parameters, out, decoded, split, ended>>

\* A two-byte character is Lead and Cont; Wide is its decoded form.
ESC == "ESC"
REPLACEMENT == "U+FFFD"
Controls == {"NL", "BEL", ESC}
Bytes == Controls \cup {"a", "m", "[", "]", "backslash", "1", "?", "space", "Lead", "Cont"}
Finals == {"a", "m", "[", "]", "backslash"}     \* 0x40 to 0x7e
Intermediates == {"space"}                      \* 0x20 to 0x2f
Parameter == {"1"}                              \* digits and the semicolon
Init ==
    /\ written = <<>> /\ offset = 0 /\ state = "Text" /\ parameters = 0
    /\ out = <<>> /\ decoded = <<>> /\ split = FALSE /\ ended = FALSE

-----------------------------------------------------------------------------
(* The sanitizer: a step takes [state, parameters, out] and a character.   *)

Goto(s, st) == [s EXCEPT !.state = st, !.parameters = 0]
Emit(s, c) == [s EXCEPT !.out = Append(@, c)]
Replace(s) == Emit(Goto(s, "Text"), REPLACEMENT)

\* step_text.
StepText(s, c) ==
    IF c = ESC THEN Goto(s, "Esc")
    ELSE IF c \in Controls \ {"NL"} THEN Emit(s, REPLACEMENT)
    ELSE Emit(s, c)

\* The end of a sequence by a control character, which is then text.
Abort(s, c) == StepText(Replace(s), c)

\* step_escape.
StepEscape(s, c) ==
    CASE c = ESC -> Emit(s, REPLACEMENT)
      [] c = "[" -> Goto(s, "Csi")
      [] c = "]" -> Goto(s, "StringBody")
      [] c \in Intermediates -> Goto(s, "EscIntermediate")
      [] c \in Controls \ {ESC} -> Abort(s, c)
      [] OTHER -> Replace(s)

Sgr(n) == <<ESC, "[">> \o [i \in 1..n |-> "1"] \o <<"m">>

\* step_csi, discard_csi.
StepCsi(s, c) ==
    CASE c \in Parameter /\ s.parameters < MaxParameters -> [s EXCEPT !.parameters = @ + 1]
      [] c = "m" -> [Goto(s, "Text") EXCEPT !.out = @ \o Sgr(s.parameters)]
      [] c \in Finals \ {"m"} -> Replace(s)
      [] c = ESC -> Goto(Emit(s, REPLACEMENT), "Esc")
      [] c \in Controls \ {ESC} -> Abort(s, c)
      [] OTHER -> Goto(s, "CsiDiscard")

\* step_csi_discard.
StepCsiDiscard(s, c) ==
    CASE c \in Finals -> Replace(s)
      [] c = ESC -> Goto(Emit(s, REPLACEMENT), "Esc")
      [] c \in Controls \ {ESC} -> Abort(s, c)
      [] OTHER -> s

\* step_escape_intermediate.
StepEscapeIntermediate(s, c) ==
    CASE c \in Intermediates -> s
      [] c = ESC -> Goto(Emit(s, REPLACEMENT), "Esc")
      [] c \in Controls \ {ESC} -> Abort(s, c)
      [] OTHER -> Replace(s)

\* step_string_body.
StepStringBody(s, c) ==
    CASE c = "BEL" -> Replace(s)
      [] c = ESC -> Goto(s, "StringEsc")
      [] c \in Controls \ {ESC, "BEL"} -> Abort(s, c)
      [] OTHER -> s

\* step_string_escape.
StepStringEscape(s, c) ==
    CASE c = "backslash" -> Replace(s)
      [] c = ESC -> s
      [] c \in Controls \ {ESC} -> Abort(s, c)
      [] OTHER -> Goto(s, "StringBody")

\* step.
Step(s, c) ==
    CASE s.state = "Text" -> StepText(s, c)
      [] s.state = "Esc" -> StepEscape(s, c)
      [] s.state = "Csi" -> StepCsi(s, c)
      [] s.state = "CsiDiscard" -> StepCsiDiscard(s, c)
      [] s.state = "EscIntermediate" -> StepEscapeIntermediate(s, c)
      [] s.state = "StringBody" -> StepStringBody(s, c)
      [] s.state = "StringEsc" -> StepStringEscape(s, c)

\* push.
Push(s, chars) == FoldLeft(Step, s, chars)

\* finish: nothing is held back, nothing leaks.
Finish(s) == IF s.state = "Text" THEN s ELSE Replace(s)

-----------------------------------------------------------------------------
(* The log and the stream.                                                 *)

\* String::from_utf8_lossy of one chunk.
Lossy(bytes) ==
    LET n == Len(bytes)
        First(i) == bytes[i] = "Lead" /\ i < n /\ bytes[i + 1] = "Cont"
        Second(i) == bytes[i] = "Cont" /\ i > 1 /\ bytes[i - 1] = "Lead"
        Char(i) == IF First(i) THEN "Wide" ELSE IF bytes[i] \in {"Lead", "Cont"} THEN REPLACEMENT ELSE bytes[i]
        kept == SelectSeq([i \in 1..n |-> i], LAMBDA i : ~Second(i))
    IN  [k \in DOMAIN kept |-> Char(kept[k])]

\* The guest writes whole characters, though not always in one write.
GuestWrites ==
    /\ ~ended /\ Len(written) < MaxLen
    /\ \E b \in Bytes :
          /\ (b = "Cont") = (written # <<>> /\ Last(written) = "Lead")
          /\ written' = Append(written, b)
    /\ UNCHANGED <<offset, state, parameters, out, decoded, split, ended>>

Sanitizer == [state |-> state, parameters |-> parameters, out |-> out]

\* One Output event of a follow, through logs_response or text_stream_response.
Chunk ==
    /\ ~ended /\ \E n \in 1..MaxChunk :
          /\ offset + n <= Len(written)
          /\ LET bytes == SubSeq(written, offset + 1, offset + n)
                 chars == Lossy(bytes)
                 s == Push(Sanitizer, chars)
             IN  /\ state' = s.state /\ parameters' = s.parameters /\ out' = s.out
                 /\ decoded' = decoded \o chars
                 /\ split' = (split \/ Last(bytes) = "Lead")
          /\ offset' = offset + n
    /\ UNCHANGED <<written, ended>>

\* The dispatcher's channel closes.
End ==
    /\ ~ended /\ offset = Len(written) /\ ended' = TRUE
    /\ LET s == Finish(Sanitizer) IN state' = s.state /\ parameters' = s.parameters /\ out' = s.out
    /\ UNCHANGED <<written, offset, decoded, split>>

Next == GuestWrites \/ Chunk \/ End

Spec == Init /\ [][Next]_vars

-----------------------------------------------------------------------------
Characters == (Bytes \ {"Lead", "Cont"}) \cup {"Wide", REPLACEMENT}
Count(s, c) == Len(SelectSeq(s, LAMBDA x : x \in c))

\* The filter's states and its parameter count stay within their limits, and it emits only
\* characters (TerminalSanitizer).
TypeOK ==
    /\ offset \in 0..Len(written) /\ parameters \in 0..MaxParameters
    /\ state \in {"Text", "Esc", "Csi", "CsiDiscard", "EscIntermediate", "StringBody", "StringEsc"}
    /\ ToSet(out) \subseteq Characters /\ ToSet(decoded) \subseteq Characters

\* An escape leaves the server only as a whole SGR sequence within the limit, and
\* no other control but a newline leaves it: however the chunks fell, the client's
\* terminal can be painted and nothing else.
OnlyColour ==
    /\ "BEL" \notin ToSet(out)
    /\ \A i \in DOMAIN out : out[i] = ESC =>
          \E n \in 0..MaxParameters :
              i + n + 2 <= Len(out) /\ SubSeq(out, i, i + n + 2) = Sgr(n)

\* No sequence, open or not, swallows a line end: the log's lines are all there,
\* and a new line starts as text.
LinesAreKept ==
    /\ Count(out, {"NL"}) = Count(decoded, {"NL"})
    /\ decoded # <<>> /\ Last(decoded) = "NL" => state = "Text"

\* A sequence that is destroyed leaves one mark, not several and not its body:
\* marks never exceed the controls read, and a stream of one string sequence
\* is one mark.
OneMarkEach ==
    /\ Count(out, {REPLACEMENT}) <= Count(decoded, {ESC, "BEL", REPLACEMENT})
    /\ ended /\ Len(decoded) > 1 /\ SubSeq(decoded, 1, 2) = <<ESC, "]">> /\ Count(decoded, {"NL", "BEL"}) = 0
          /\ Count(decoded, {ESC}) = 1 => out = <<REPLACEMENT>>
    /\ ended /\ Len(decoded) > 3 /\ SubSeq(decoded, 1, 2) = <<ESC, "]">>
          /\ SubSeq(decoded, Len(decoded) - 1, Len(decoded)) = <<ESC, "backslash">>
          /\ Count(decoded, {"NL", "BEL"}) = 0 /\ Count(decoded, {ESC}) = 2 => out = <<REPLACEMENT>>

\* Where nothing is destroyed nothing is changed: text, lines and colour arrive as
\* the guest wrote them, unless a chunk ended inside a character.
CleanIsVerbatim ==
    ended /\ ~split /\ Count(out, {REPLACEMENT}) = 0 => out = decoded

=============================================================================
