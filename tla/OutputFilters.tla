---------------------------- MODULE OutputFilters ----------------------------
(***************************************************************************)
(* What the supervisor and the console client make of a guest's output,     *)
(* byte by byte: escapeFilter (cmd/invirtio/console.go) for a terminal, and *)
(* lineLogger (run.go) for the journal.  A byte is one of the classes that  *)
(* they, UTF-8 and the terminal tell apart.                                 *)
(***************************************************************************)
EXTENDS Naturals, Sequences

CONSTANT MaxLogLine     \* bytes of a line, where the code has 1024

(* A line takes the longest character. *)
MaxLogLineAssumption == MaxLogLine \in Nat /\ MaxLogLine >= 3
ASSUME MaxLogLineAssumption

(* C0 controls, and DEL *)
Controls == {"ESC", "BEL", "CAN", "NL", "TAB", "CTL", "DEL"}
Opening == {"opener"}               \* after ESC, opens a string
Intermediates == {"percent", "paren"}      \* "paren" is one of those that designate a set
Finals == {"bracket", "backslash", "digit", "letter"} \cup Opening
Ascii == Controls \cup Intermediates \cup Finals
C1 == {"c1", "c1Opener", "c1ST"}     \* 0x80 to 0x9f, as bytes and as characters
Continuations == C1 \cup {"cont"}
Leads == {"c2", "lead2", "lead3"}    \* 0xc2 leads a C1 in UTF-8
Bytes == Ascii \cup Continuations \cup Leads \cup {"bad"}

VARIABLES
    state, pending, rest,       \* the filter: rest is what it has yet to feed
    screen,                     \* the state of the terminal
    size, logPending, logRest,  \* the logger's line, in bytes
    escape, csi,
    journal                     \* "plain" until a control goes to a line

filter == <<state, pending, rest, screen>>
logger == <<size, logPending, logRest, escape, csi, journal>>
filterVars == <<filter, logger>>

FilterInit ==
    /\ state = "text" /\ pending = <<>> /\ rest = <<>> /\ screen = "ground"
    /\ size = 0 /\ logPending = <<>> /\ logRest = <<>> /\ escape = FALSE /\ csi = FALSE
    /\ journal = "plain"

-----------------------------------------------------------------------------
(* utf8.FullRune and utf8.DecodeRune: what the bytes begin with, and how      *)
(* many bytes of them that is.                                               *)
Found(rune, bytes) == [rune |-> rune, bytes |-> bytes]
Width(b) == CASE b \in {"c2", "lead2"} -> 2 [] b = "lead3" -> 3 [] OTHER -> 1

Decode(p) ==
    LET valid == \A i \in 2 .. Len(p) : i <= Width(p[1]) => p[i] \in Continuations
    IN  IF p[1] \notin Leads \/ ~valid THEN Found("invalid", 1)
        ELSE IF Len(p) < Width(p[1]) THEN Found("partial", 0)
        ELSE Found(IF p[1] = "c2" /\ p[2] \in C1 THEN p[2] ELSE "text", Width(p[1]))

After(p, n) == SubSeq(p, n + 1, Len(p))

-----------------------------------------------------------------------------
(* A terminal: the states that it may be in after a character.  It takes ESC *)
(* and a disallowed intermediate for anything, such as the end of UTF-8.    *)
Shows(s, c) ==
    IF s \in {"string", "legacy"} THEN {s}
    ELSE IF c \in C1 THEN {"string"}
    ELSE IF c = "ESC" THEN {"escape"}
    ELSE IF c = "CAN" THEN {"ground"}
    ELSE IF c \in Controls THEN {s}
    ELSE CASE s = "ground" -> {"ground"}
           [] s = "escape" ->
                CASE c \in Opening -> {"string"}
                  [] c = "bracket" -> {"csi"}
                  [] c = "paren" -> {"charset"}
                  [] c = "percent" -> {"legacy"}
                  [] OTHER -> {"ground"}
           [] s = "charset" -> IF c \in Intermediates THEN {"charset"} ELSE {"ground"}
           [] s = "csi" ->
                IF c = "text" THEN {"csi", "ground"}
                ELSE IF c \in Intermediates \cup {"digit"} THEN {"csi"} ELSE {"ground"}

(* The filter goes on in st with what pends and what it has yet to feed, and *)
(* writes at most two characters.                                           *)
Emits(st, pend, more, out) ==
    /\ state' = st /\ pending' = pend /\ rest' = more
    /\ CASE Len(out) = 0 -> UNCHANGED screen
         [] Len(out) = 1 -> screen' \in Shows(screen, out[1])
         [] OTHER -> \E s \in Shows(screen, out[1]) : screen' \in Shows(s, out[2])

(* escapeFilter.text *)
FilterText(b, more) ==
    IF pending = <<>> /\ b \in Ascii
    THEN IF b = "ESC" THEN Emits("escape", <<>>, more, <<>>)
         ELSE Emits("text", <<>>, more, <<b>>)
    ELSE LET p == Append(pending, b)
             d == Decode(p)
             left == After(p, d.bytes) \o more
         IN  CASE d.rune = "partial" -> Emits("text", p, more, <<>>)
               [] d.rune = "invalid" ->
                    Emits(IF p[1] = "c1Opener" THEN "string" ELSE "text", <<>>, left, <<>>)
               [] d.rune \in C1 ->
                    Emits(IF d.rune = "c1Opener" THEN "string" ELSE "text", <<>>, left, <<>>)
               [] OTHER -> Emits("text", <<>>, left, <<"text">>)

FilterString(b, more) ==
    LET ends == b \in {"BEL", "c1ST"} \/ (state = "stringEscape" /\ b = "backslash")
    IN  Emits(IF ends THEN "text" ELSE IF b = "ESC" THEN "stringEscape" ELSE "string",
              pending, more, <<>>)

(* Mutant: every intermediate byte passes. *)
FilterEscapeAll(b, more) ==
    CASE b \in {"ESC", "DEL"} -> Emits("escape", pending, more, <<>>)
      [] b = "CAN" -> Emits("text", pending, more, <<b>>)
      [] b \in Controls \ {"ESC", "DEL", "CAN"} -> Emits("escape", pending, more, <<b>>)
      [] b \notin Ascii -> FilterText(b, more)
      [] b \in Opening -> Emits("string", pending, more, <<>>)
      [] OTHER -> Emits("text", pending, more, <<"ESC", b>>)

(* ESC waits for the byte that follows it: C0 controls run at once, strings  *)
(* and disallowed intermediates are dropped.                                *)
FilterEscape(b, more) ==
    CASE b \in {"ESC", "DEL"} -> Emits("escape", pending, more, <<>>)
      [] b = "CAN" -> Emits("text", pending, more, <<b>>)
      [] b \in Controls \ {"ESC", "DEL", "CAN"} -> Emits("escape", pending, more, <<b>>)
      [] b \notin Ascii -> FilterText(b, more)
      [] b \in Opening -> Emits("string", pending, more, <<>>)
      [] b = "percent" -> Emits("drop", pending, more, <<>>)
      [] OTHER -> Emits("text", pending, more, <<"ESC", b>>)

FilterDrop(b, more) ==
    CASE b = "ESC" -> Emits("escape", pending, more, <<>>)
      [] b = "CAN" -> Emits("text", pending, more, <<b>>)
      [] b \in Controls \ {"ESC", "DEL", "CAN"} -> Emits("drop", pending, more, <<b>>)
      [] b \in Finals -> Emits("text", pending, more, <<>>)
      [] b \notin Ascii -> FilterText(b, more)
      [] OTHER -> Emits("drop", pending, more, <<>>)

(* escapeFilter.feed *)
FilterFeed(b, more) ==
    CASE state \in {"string", "stringEscape"} -> FilterString(b, more)
      [] state = "escape" -> FilterEscape(b, more)
      [] state = "drop" -> FilterDrop(b, more)
      [] state = "text" -> FilterText(b, more)

-----------------------------------------------------------------------------
(* lineLogger.feed *)
Adds(n, c) ==
    /\ size' = (IF size + n > MaxLogLine THEN n ELSE size + n)
    /\ journal' = (IF c \in (C1 \cup Controls) \ {"TAB"} THEN "control" ELSE journal)

LogRune(b, more) ==
    LET p == Append(logPending, b)
        d == Decode(p)
    IN  /\ UNCHANGED <<escape, csi>>
        /\ IF d.rune = "partial"
           THEN logPending' = p /\ logRest' = more /\ UNCHANGED <<size, journal>>
           ELSE /\ logPending' = <<>> /\ logRest' = After(p, d.bytes) \o more
                /\ IF d.rune = "text" THEN Adds(d.bytes, "text") ELSE UNCHANGED <<size, journal>>

LogByte(b, more) ==
    /\ logRest' = more /\ UNCHANGED logPending
    /\ csi' = (IF csi THEN b \notin Finals \ {"digit"} ELSE escape /\ b = "bracket")
    /\ escape' = (~csi /\ ~escape /\ b = "ESC")
    /\ IF csi \/ escape THEN UNCHANGED <<size, journal>>
       ELSE IF b = "NL" THEN size' = 0 /\ UNCHANGED journal
       ELSE IF b \in {"TAB"} \cup Intermediates \cup Finals THEN Adds(1, b)
       ELSE UNCHANGED <<size, journal>>

LogFeed(b, more) ==
    IF logPending # <<>> \/ (b \notin Ascii /\ ~escape /\ ~csi) THEN LogRune(b, more)
    ELSE LogByte(b, more)

-----------------------------------------------------------------------------
(* Both take every byte, and feed what an invalid sequence leaves first.     *)
GuestWrites(b) == rest = <<>> /\ logRest = <<>> /\ FilterFeed(b, <<>>) /\ LogFeed(b, <<>>)
FilterAgain == rest # <<>> /\ FilterFeed(Head(rest), Tail(rest)) /\ UNCHANGED logger
LogAgain == logRest # <<>> /\ LogFeed(Head(logRest), Tail(logRest)) /\ UNCHANGED filter

FilterNext == (\E b \in Bytes : GuestWrites(b)) \/ FilterAgain \/ LogAgain

FilterSpec == FilterInit /\ [][FilterNext]_filterVars

(* However sequences are split, nested and cut off, no string and nothing    *)
(* that changes how the terminal reads text reaches it, and a line of the   *)
(* journal holds no control character and stays within its length.          *)
OutputPlain ==
    /\ screen \notin {"string", "legacy"}
    /\ journal = "plain" /\ size <= MaxLogLine
=============================================================================
