---------------------------- MODULE ConsoleClient ----------------------------
(***************************************************************************)
(* invirtio console (cmdConsole in cmd/invirtio/console.go): the main       *)
(* goroutine, the goroutines for signals, output and input, the supervisor  *)
(* at the other end of the connection, and the user's terminal.             *)
(* ConsoleServer models the other end.                                      *)
(***************************************************************************)
EXTENDS Naturals

VARIABLES
    step,      \* where the main goroutine is
    terminal,  \* "cooked", "raw", or "reset": restored
    late,      \* did the guest's output reach a terminal that was restored?
    sigs,      \* signals that wait for the goroutine that takes one
    done,      \* how many of the goroutines have sent to done, up to 3
    outputs,   \* the output goroutine
    inputs,    \* the input goroutine
    line,      \* the connection: "open", "hungup" and read to its end, "closed"
    taken      \* does the supervisor take input, which the guest must read?

vars == <<step, terminal, late, sigs, done, outputs, inputs, line, taken>>

Over == step \in {"exited", "killed"}

Init ==
    /\ step = "dial" /\ terminal = "cooked" /\ late = FALSE /\ sigs = "none" /\ done = 0
    /\ outputs = "none" /\ inputs = "none" /\ line = "open" /\ taken = TRUE

Goes(from, to) == step = from /\ step' = to
Sends == done' = done + 1

-----------------------------------------------------------------------------
(* The main goroutine.  Dial, the header and MakeRaw may each fail. *)
Dial ==
    /\ step = "dial" /\ step' \in {"raw", "exited"}
    /\ UNCHANGED <<terminal, late, sigs, done, outputs, inputs, line, taken>>

MakeRaw ==
    /\ \/ Goes("raw", "exited") /\ UNCHANGED terminal
       \/ Goes("raw", "notify") /\ terminal' \in {"raw", "cooked"}
    /\ UNCHANGED <<late, sigs, done, outputs, inputs, line, taken>>

StartGoroutines ==
    /\ Goes("notify", "wait") /\ sigs' = "wait" /\ outputs' = "read" /\ inputs' = "read"
    /\ UNCHANGED <<terminal, late, done, line, taken>>

(* Mutant: the connection is closed after the wait for the output. *)
ReceiveStaysOpen ==
    /\ Goes("wait", "output") /\ done > 0 /\ done' = done - 1
    /\ UNCHANGED <<terminal, late, sigs, outputs, inputs, line, taken>>

Receive ==
    /\ Goes("wait", "output") /\ done > 0 /\ done' = done - 1 /\ line' = "closed"
    /\ UNCHANGED <<terminal, late, sigs, outputs, inputs, taken>>

Restores == terminal' = IF terminal = "raw" THEN "reset" ELSE terminal

(* "The guest's output stops before the terminal is reset." *)
Restore ==
    /\ Goes("output", "exit") /\ outputs = "done" /\ Restores
    /\ UNCHANGED <<late, sigs, done, outputs, inputs, line, taken>>

Exit ==
    /\ Goes("exit", "exited")
    /\ UNCHANGED <<terminal, late, sigs, done, outputs, inputs, line, taken>>

Main == Dial \/ MakeRaw \/ StartGoroutines \/ Receive \/ Restore \/ Exit

-----------------------------------------------------------------------------
(* The goroutines. *)
TakeSignal ==
    /\ ~Over /\ sigs = "signal" /\ sigs' = "done" /\ Sends
    /\ UNCHANGED <<step, terminal, late, outputs, inputs, line, taken>>

CopyRead ==
    /\ ~Over /\ outputs = "read" /\ UNCHANGED <<step, terminal, late, sigs, inputs, line, taken>>
    /\ \/ line = "open" /\ outputs' = "write" /\ UNCHANGED done
       \/ line # "open" /\ outputs' = "done" /\ Sends

CopyWrite ==
    /\ ~Over /\ outputs = "write" /\ outputs' = "read" /\ late' = (late \/ terminal = "reset")
    /\ UNCHANGED <<step, terminal, sigs, done, inputs, line, taken>>

(* What the user types: text, text with the detach key in it, or the end.    *)
ReadInput ==
    /\ ~Over /\ inputs = "read" /\ UNCHANGED <<step, terminal, late, sigs, outputs, line, taken>>
    /\ \/ inputs' \in {"write", "detach"} /\ UNCHANGED done
       \/ inputs' = "done" /\ Sends

(* A write waits for the supervisor, and fails once the connection is gone.  *)
WriteInput ==
    /\ ~Over /\ UNCHANGED <<step, terminal, late, sigs, outputs, line, taken>>
    /\ \/ inputs = "write" /\ line = "open" /\ taken /\ inputs' = "read" /\ UNCHANGED done
       \/ inputs = "write" /\ line # "open" /\ inputs' = "done" /\ Sends
       \/ inputs = "detach" /\ (taken \/ line # "open") /\ inputs' = "done" /\ Sends

-----------------------------------------------------------------------------
(* A signal before Notify kills the client; the channel holds one signal.    *)
Signal ==
    /\ ~Over
    /\ IF step \in {"dial", "raw", "notify"} THEN step' = "killed" /\ UNCHANGED sigs
       ELSE sigs' = (IF sigs = "wait" THEN "signal" ELSE sigs) /\ UNCHANGED step
    /\ UNCHANGED <<terminal, late, done, outputs, inputs, line, taken>>

HangUp ==
    /\ line = "open" /\ line' = "hungup"
    /\ UNCHANGED <<step, terminal, late, sigs, done, outputs, inputs, taken>>

TakesInput ==
    /\ ~Over /\ line = "open" /\ taken' = ~taken
    /\ UNCHANGED <<step, terminal, late, sigs, done, outputs, inputs, line>>

Next == Main \/ TakeSignal \/ CopyRead \/ CopyWrite \/ ReadInput \/ WriteInput
           \/ Signal \/ HangUp \/ TakesInput

(* The goroutines run, and stdout takes what is written; the user need not   *)
(* type, and the supervisor need not take it.                               *)
Spec ==
    /\ Init /\ [][Next]_vars
    /\ WF_vars(Main) /\ WF_vars(TakeSignal) /\ WF_vars(CopyRead \/ CopyWrite) /\ WF_vars(WriteInput)

-----------------------------------------------------------------------------
(* A client ends after a signal, a hang-up by the supervisor or the end of   *)
(* its input, and after the detach key unless the guest takes no input.     *)
ClientEnds ==
    /\ (sigs = "signal" \/ (line = "hungup" /\ step = "wait") \/ done > 0) ~> Over
    /\ inputs = "detach" ~> (Over \/ ~taken)

(* "The guest's output stops before the terminal is reset, so that none of   *)
(* it lands after the reset", and a client that has exited did the reset.   *)
RestoredLast == ~late /\ (step = "exited" => terminal # "raw") /\ done <= 3
=============================================================================
