----------------------------- MODULE TextOutput -----------------------------
(***************************************************************************)
(* The text console (proto/console/text/output.rs): fmt::Write::write_str   *)
(* through its buffer on the stack, the iterator over text modes, and the   *)
(* test runner's use of both (proto/console/stdout.rs).                     *)
(***************************************************************************)
EXTENDS Integers, Sequences, SequencesExt, FiniteSetsExt

CONSTANTS
    BUF_SIZE,       \* 128 in the code
    MaxText,        \* longest string written
    MaxTextMode     \* most modes a console has

VARIABLES
    console,    \* what the device shows, how it answered, its modes, the current one
    out,        \* write_str: the text, what is left of it, buf, the result
    stdout      \* the test: its next step, the panic it ended in

outvars == <<console, out, stdout>>

\* "x" is an ordinary character, "astral" one that UCS-2 has not.
Chars == {"x", "\n", "nul", "astral"}
Texts == UNION {[1 .. n -> Chars] : n \in 0 .. MaxText}
NoText == [text |-> <<>>, rest |-> <<>>, buf |-> <<>>, ret |-> "idle"]

TextOutputInit ==
    /\ \E max \in 0 .. MaxTextMode : \E good \in SUBSET (0 .. max - 1) : \E mode \in {-1} \union good :
        console = [screen |-> <<>>, said |-> "ok", max |-> max, good |-> good, mode |-> mode]
    /\ out = NoText /\ stdout = [step |-> 1, panic |-> "no"]

(***************************************************************************)
(* write_str.  A flush terminates the buffer, checks it for an interior     *)
(* NUL and hands it to output_string; a warning is an error as well, though *)
(* the text has appeared.                                                   *)
(***************************************************************************)
Flushed_warned(buf, screen, ret) ==
    /\ "nul" \notin Range(buf) /\ screen = console.screen \o buf /\ ret = "ok"
    /\ console' = [console EXCEPT !.screen = screen, !.said = "warning"]
Flushed(buf, screen, ret) ==
    \/ /\ "nul" \in Range(buf)
       /\ screen = console.screen /\ ret = "error" /\ console' = console
    \/ /\ "nul" \notin Range(buf)
       /\ \/ screen = console.screen \o buf /\ ret = "ok" /\ console' = [console EXCEPT !.screen = screen]
          \/ screen = console.screen \o buf /\ ret = "error"
             /\ console' = [console EXCEPT !.screen = screen, !.said = "warning"]
          \/ screen = console.screen /\ ret = "error" /\ console' = [console EXCEPT !.said = "error"]

\* '\n' becomes two characters, each of which may fill the buffer.
Added(ch) == IF ch = "\n" THEN <<<<"\r">>, <<"\n">>>> ELSE <<<<ch>>>>

write_str(text) ==
    /\ out.ret = "idle" /\ stdout.step = 5
    /\ out' = [text |-> text, buf |-> <<>>, ret |-> "running",
               rest |-> FlattenSeq([k \in DOMAIN text |-> Added(text[k])])]
    /\ console' = [console EXCEPT !.screen = <<>>, !.said = "ok"]
    /\ UNCHANGED stdout

add_char ==
    LET buf == out.buf \o Head(out.rest)
        advanced == [out EXCEPT !.buf = buf, !.rest = Tail(@)] IN
    /\ out.ret = "running" /\ out.rest # <<>>
    /\ IF "astral" \in Range(buf)
       THEN out' = [out EXCEPT !.ret = "error"] /\ UNCHANGED console
       ELSE IF Len(buf) # BUF_SIZE
       THEN out' = advanced /\ UNCHANGED console
       ELSE \E ret \in {"ok", "error"}, screen \in {console.screen, console.screen \o buf} :
                /\ Flushed(buf, screen, ret)
                /\ out' = [advanced EXCEPT !.buf = <<>>, !.ret = IF ret = "ok" THEN "running" ELSE "error"]
    /\ UNCHANGED stdout

flush_buffer ==
    /\ out.ret = "running" /\ out.rest = <<>>
    /\ \E ret \in {"ok", "error"}, screen \in {console.screen, console.screen \o out.buf} :
        /\ Flushed(out.buf, screen, ret)
        /\ out' = [out EXCEPT !.buf = <<>>, !.ret = ret]
    /\ UNCHANGED stdout

WriteReturns ==
    /\ out.ret \in {"ok", "error"}
    /\ out' = NoText /\ console' = [console EXCEPT !.screen = <<>>, !.said = "ok"]
    /\ UNCHANGED stdout

(***************************************************************************)
(* Modes.  A mode whose query fails is passed over.                         *)
(***************************************************************************)
next(current) == {m \in console.good : m >= current /\ \A k \in current .. m - 1 : k \notin console.good}

text_modes ==
    LET at[k \in 0 .. console.max] ==
        IF k >= console.max \/ next(k) = {} THEN <<>>
        ELSE LET m == CHOOSE m \in next(k) : TRUE IN <<m>> \o at[m + 1] IN
    at[0]

Passes == stdout' = [stdout EXCEPT !.step = @ + 1]
Panics(why) == stdout' = [step |-> 7, panic |-> why]

\* -1 is a console without a mode; another mode is queried, and an error panics.
current_mode ==
    /\ stdout.step = 1
    /\ Passes \/ (console.mode # -1 /\ Panics("refused"))
    /\ UNCHANGED <<console, out>>

change_text_mode ==
    /\ stdout.step = 2 /\ out.ret = "idle"
    /\ IF text_modes = <<>> THEN Panics("no mode") /\ UNCHANGED console
       ELSE \/ Passes /\ console' = [console EXCEPT !.mode = Last(text_modes)]
            \/ Panics("refused") /\ UNCHANGED console
    /\ UNCHANGED out

\* change_color, the two halves of center_text, reset: each may be refused.
Refusable ==
    /\ stdout.step \in 3 .. 6 /\ out.ret = "idle"
    /\ Passes \/ Panics("refused")
    /\ UNCHANGED <<console, out>>

TextOutputNext ==
    \/ \E text \in Texts : write_str(text)
    \/ add_char \/ flush_buffer \/ WriteReturns
    \/ current_mode \/ change_text_mode \/ Refusable

TextOutputTypeOK ==
    /\ out.ret \in {"idle", "running", "ok", "error"}
    /\ stdout.step \in 1 .. 7 /\ stdout.panic \in {"no", "no mode", "refused"}

\* What the device should show for a text.
Crlf(text) == FlattenSeq([k \in DOMAIN text |-> IF text[k] = "\n" THEN <<"\r", "\n">> ELSE <<text[k]>>])

\* write_str shows a prefix of its text with "\r\n" line ends, in order and
\* once; all of it if it returns Ok; and it fails only if the device did, or
\* the text has a character that cannot be shown.  Its buffer always has room
\* for the terminator, also when a line feed is split over two flushes.
WriteExact ==
    LET want == Crlf(out.text) IN
    /\ Len(out.buf) < BUF_SIZE
    /\ out.ret # "idle" => IsPrefix(console.screen, want)
    /\ out.ret = "ok" => console.screen = want
    /\ console.said = "warning" => out.ret = "error"
    /\ out.ret = "error" => console.said # "ok" \/ Range(out.text) \intersect {"nul", "astral"} # {}

\* The test picks the highest mode the device supports, beyond modes whose
\* query fails, and finds no mode only on a device without one.
BestModeSet ==
    /\ stdout.step \in 3 .. 6 /\ stdout.panic = "no" => console.mode = Max(console.good)
    /\ stdout.panic = "no mode" => console.good = {}
=============================================================================
