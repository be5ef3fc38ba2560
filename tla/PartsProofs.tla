----------------------------- MODULE PartsProofs -----------------------------
(***************************************************************************)
(* Proofs about the parts that keep to themselves: DeviceBinding, for any    *)
(* set of commands on the device, and OutputFilters, for lines of any        *)
(* length and whatever a guest writes.                                      *)
(***************************************************************************)
EXTENDS DeviceBinding, OutputFilters, TLAPS

(* A command that ran by itself since its start still does. *)
AloneInv ==
    \A c \in Callers : ~Idle(c) /\ ~mixed[c] => \A o \in Callers \ {c} : Idle(o)

Written == {"reread", "unbind", "probe", "check"}

(* A bind that runs by itself: once it has written the override, that stays, *)
(* so that no probe gives back to the host a device that it has unbound.    *)
BindAt(c) ==
    c \in Binders /\ ~mixed[c] =>
        /\ at[c] \in Written => override
        /\ at[c] \in {"probe", "check"} /\ cur[c] # "none" => driver # "host"

(* An unbind that runs by itself: once it has cleared the override, that     *)
(* stays, and every probe gives the device to the host.  If it takes the    *)
(* device for unbound, then it is, except that a platform device may have   *)
(* been probed since the command read that.                                 *)
Unseen(c) == kind = "platform" /\ cur[c] = "none"
UnbindAt(c) ==
    c \in Unbinds /\ ~mixed[c] =>
        /\ at[c] \in Written => ~override
        /\ at[c] = "unbind" /\ cur[c] = "none" => driver # "vfio" \/ Unseen(c)
        /\ at[c] = "probe" => driver # "vfio" \/ Unseen(c)
        /\ at[c] = "check" => driver = "host" \/ Unseen(c)

IInv == BindingTypeOK /\ AloneInv /\ \A c \in Callers : BindAt(c) /\ UnbindAt(c)

-----------------------------------------------------------------------------
(* A device on which no command runs satisfies the invariant. *)
LEMMA InitInv == BindingInit => IInv
  <1> SUFFICES ASSUME BindingInit PROVE IInv
    OBVIOUS
  <1>1. BindingTypeOK
    BY DEF BindingInit, BindingTypeOK, Drivers, Places
  <1>2. AloneInv
    BY DEF BindingInit, AloneInv, Idle
  <1>3. ASSUME NEW c \in Callers PROVE BindAt(c) /\ UnbindAt(c)
    BY DEF BindingInit, BindAt, UnbindAt, Written
  <1> QED BY <1>1, <1>2, <1>3 DEF IInv

(* A command that starts: those that run are no longer by themselves. *)
LEMMA BeginKeeps ==
    ASSUME IInv, NEW c \in Callers, NEW place \in {"load", "override", "clear", "bound", "done"},
           Begin(c, place), UNCHANGED <<device, driver, override>>
    PROVE  AloneInv' /\ \A d \in Callers : BindAt(d)' /\ UnbindAt(d)'
  <1> USE DEF Begin, Idle
  <1>1. /\ \A d \in Callers \ {c} : at'[d] = at[d] /\ cur'[d] = cur[d]
        /\ at'[c] = place
    BY DEF IInv, BindingTypeOK
  <1>2. \A d \in Callers \ {c} : ~mixed'[d] => at[d] \in {"idle", "done"}
    OBVIOUS
  <1>3. ~mixed'[c] => \A o \in Callers \ {c} : at[o] \in {"idle", "done"}
    OBVIOUS
  <1>4. AloneInv'
    BY <1>1, <1>2, <1>3 DEF AloneInv
  <1>5. ASSUME NEW d \in Callers PROVE BindAt(d)' /\ UnbindAt(d)'
    <2>1. ~mixed'[d] => at'[d] \notin Written
      BY <1>1, <1>2 DEF Written
    <2> QED BY <2>1 DEF BindAt, UnbindAt, Written
  <1> QED BY <1>4, <1>5

(* A command that goes on: no other one is by itself. *)
LEMMA MoveKeeps ==
    ASSUME IInv, NEW c \in Callers, ~Idle(c), NEW place, Moves(c, place),
           \A d \in Callers \ {c} : cur'[d] = cur[d]
    PROVE  AloneInv' /\ \A d \in Callers \ {c} : BindAt(d)' /\ UnbindAt(d)'
  <1> USE DEF Moves, Idle
  <1>1. /\ mixed' = mixed
        /\ \A d \in Callers \ {c} : at'[d] = at[d]
    BY DEF IInv, BindingTypeOK
  <1>2. \A d \in Callers \ {c} : ~mixed[d] => at[d] \in {"idle", "done"}
    BY DEF IInv, AloneInv
  <1>3. AloneInv'
    BY <1>1, <1>2 DEF IInv, AloneInv
  <1>4. ASSUME NEW d \in Callers \ {c} PROVE BindAt(d)' /\ UnbindAt(d)'
    <2>1. ~mixed'[d] => at'[d] \notin Written
      BY <1>1, <1>2 DEF Written
    <2> QED BY <2>1 DEF BindAt, UnbindAt, Written
  <1> QED BY <1>3, <1>4

(* The start of a bind, of an unbind, or of a bind that is refused. *)
BeginActs(c) == BeginBind(c) \/ BindRefused(c) \/ BeginUnbind(c)

LEMMA BeginActsKeep ==
    ASSUME IInv, NEW c \in Callers, BeginActs(c)
    PROVE  IInv'
  <1>1. PICK place \in {"load", "override", "clear", "bound", "done"} : Begin(c, place)
    BY DEF BeginActs, BeginBind, BindRefused, BeginUnbind
  <1>2. UNCHANGED <<device, driver, override, module, held>>
    BY DEF BeginActs, BeginBind, BindRefused, BeginUnbind
  <1>3. want' \in [Callers -> {"Y", "N"}]
    BY DEF BeginActs, BeginBind, BindRefused, BeginUnbind, IInv, BindingTypeOK
  <1>4. BindingTypeOK'
    BY <1>1, <1>2, <1>3 DEF Begin, device, IInv, BindingTypeOK, Places
  <1>5. AloneInv' /\ \A d \in Callers : BindAt(d)' /\ UnbindAt(d)'
    BY <1>1, <1>2, BeginKeeps
  <1> QED BY <1>4, <1>5 DEF IInv

(* A step of a running command keeps the invariant if it keeps the types and *)
(* what is said of that command.                                            *)
LEMMA StepKeeps ==
    ASSUME IInv, NEW c \in Callers, ~Idle(c), NEW place, Moves(c, place),
           \A d \in Callers \ {c} : cur'[d] = cur[d],
           BindingTypeOK', BindAt(c)', UnbindAt(c)'
    PROVE  IInv'
  BY MoveKeeps DEF IInv

(* The steps that only a bind takes. *)
BindActs(c) == LoadModule(c) \/ Override(c) \/ Check(c) \/ OpenGroup(c) \/ Bound(c)

LEMMA BindActsKeep ==
    ASSUME IInv, NEW c \in Callers, BindActs(c)
    PROVE  IInv'
  <1> USE DEF IInv, BindingTypeOK, Places, Idle, Moves, Reports, device
  <1>1. c \in Binders /\ c \notin Unbinds /\ ~Idle(c) /\ cur' = cur
    BY DEF BindActs, LoadModule, Override, Check, OpenGroup, Bound, Binders, Binds, Unbinds
  <1>2. UnbindAt(c)'
    BY <1>1 DEF UnbindAt, Unbinds
  <1>3. CASE LoadModule(c)
    <2>1. PICK place \in {"load", "override", "done"} : Moves(c, place)
      BY <1>3 DEF LoadModule
    <2>2. BindingTypeOK'
      BY <1>3 DEF LoadModule
    <2>3. BindAt(c)'
      BY <2>1 DEF BindAt, Written
    <2> QED BY <1>1, <1>2, <2>1, <2>2, <2>3, StepKeeps
  <1>4. CASE Override(c)
    <2>1. PICK place \in {"reread", "unbind"} : Moves(c, place)
      BY <1>4 DEF Override, Overridden
    <2>2. BindingTypeOK'
      BY <1>4, <2>1 DEF Override
    <2>3. BindAt(c)'
      BY <1>4, <2>1 DEF Override, BindAt
    <2> QED BY <1>1, <1>2, <2>1, <2>2, <2>3, StepKeeps
  <1>5. CASE Check(c) \/ OpenGroup(c) \/ Bound(c)
    <2>1. PICK place \in {"bound", "done"} : Moves(c, place)
      BY <1>5 DEF Check, OpenGroup, Bound
    <2>2. BindingTypeOK'
      BY <1>5 DEF Check, OpenGroup, Bound
    <2>3. BindAt(c)'
      BY <2>1 DEF BindAt, Written
    <2> QED BY <1>1, <1>2, <2>1, <2>2, <2>3, StepKeeps
  <1> QED BY <1>3, <1>4, <1>5 DEF BindActs

(* The steps that only an unbind takes, and a command's end by a signal. *)
UnbindActs(c) == ClearOverride(c) \/ Unbound(c) \/ Killed(c)

LEMMA UnbindActsKeep ==
    ASSUME IInv, NEW c \in Callers, UnbindActs(c)
    PROVE  IInv'
  <1> USE DEF IInv, BindingTypeOK, Places, Idle, Moves, Reports, device
  <1>1. CASE ClearOverride(c)
    <2>1. PICK place \in {"reread", "unbind"} : Moves(c, place) /\ place = Overridden(c)
      BY <1>1 DEF ClearOverride, Overridden
    <2>2. BindingTypeOK'
      BY <1>1, <2>1 DEF ClearOverride
    <2>3. BindAt(c)'
      BY <1>1 DEF ClearOverride, BindAt, Binders, Unbinds
    <2>4. place = "unbind" => kind = "platform"
      BY <1>1, <2>1 DEF ClearOverride, Overridden, Unbinds
    <2>5. UnbindAt(c)'
      BY <1>1, <2>1, <2>4 DEF ClearOverride, UnbindAt, Unseen
    <2> QED BY <1>1, <2>1, <2>2, <2>3, <2>5, StepKeeps DEF ClearOverride
  <1>2. CASE Unbound(c) \/ Killed(c)
    <2>1. PICK place \in {"idle", "done"} : Moves(c, place)
      BY <1>2 DEF Unbound, Killed
    <2>2. BindingTypeOK'
      BY <1>2 DEF Unbound, Killed
    <2>3. BindAt(c)' /\ UnbindAt(c)'
      BY <2>1 DEF BindAt, UnbindAt, Written
    <2>4. ~Idle(c) /\ cur' = cur
      BY <1>2 DEF Unbound, Killed
    <2> QED BY <2>1, <2>2, <2>3, <2>4, StepKeeps
  <1> QED BY <1>1, <1>2 DEF UnbindActs

(* The driver is read once more, with the override as the command set it. *)
LEMMA RereadKeeps ==
    ASSUME IInv, NEW c \in Callers, Reread(c)
    PROVE  IInv'
  <1> USE DEF IInv, BindingTypeOK, Places, Idle, Moves, Reread, device
  <1>1. BindingTypeOK'
    OBVIOUS
  <1>2. BindAt(c)'
    BY DEF BindAt, Written, Binders
  <1>3. UnbindAt(c)'
    BY DEF UnbindAt, Written, Unbinds, Unseen
  <1> QED BY <1>1, <1>2, <1>3, StepKeeps

(* A device that is unbound has no driver. *)
LEMMA UnbindKeeps ==
    ASSUME IInv, NEW c \in Callers, Unbind(c)
    PROVE  IInv'
  <1> USE DEF IInv, BindingTypeOK, Places, Drivers, Idle, Moves, Unbind, device
  <1>1. PICK place \in {"probe", "done"} : Moves(c, place)
    OBVIOUS
  <1>2. BindingTypeOK'
    OBVIOUS
  <1>3. BindAt(c)'
    BY DEF BindAt, Written, Binders
  <1>4. UnbindAt(c)'
    BY DEF UnbindAt, Written, Unbinds, Unseen
  <1> QED BY <1>1, <1>2, <1>3, <1>4, StepKeeps

(* A probe goes by the override, which is still as the command set it. *)
LEMMA ProbeKeeps ==
    ASSUME IInv, NEW c \in Callers, Probe(c)
    PROVE  IInv'
  <1> USE DEF IInv, BindingTypeOK, Places, Drivers, Idle, Moves, Probe, Matching, device
  <1>1. BindingTypeOK'
    OBVIOUS
  <1>2. BindAt(c)'
    BY DEF BindAt, Written, Binders
  <1>3. UnbindAt(c)'
    BY DEF UnbindAt, Written, Unbinds, Unseen
  <1> QED BY <1>1, <1>2, <1>3, StepKeeps

(* A guest's exit leaves the binding alone, and the host's probe does what a  *)
(* command's would.                                                         *)
LEMMA OutsideKeeps ==
    ASSUME IInv, GuestExits \/ HostProbes
    PROVE  IInv'
  <1> USE DEF IInv, device
  <1>1. UNCHANGED <<kind, override, at, cur, mixed>>
    BY DEF GuestExits, HostProbes
  <1>2. driver' = driver \/ (driver = "none" /\ driver' = Matching)
    BY DEF GuestExits, HostProbes
  <1>3. BindingTypeOK'
    BY DEF BindingTypeOK, GuestExits, HostProbes, Matching, Drivers
  <1>4. AloneInv'
    BY <1>1 DEF AloneInv, Idle
  <1>5. ASSUME NEW c \in Callers PROVE BindAt(c)' /\ UnbindAt(c)'
    <2>1. BindAt(c)'
      BY <1>1, <1>2 DEF BindAt, Written, Binders, Matching
    <2>2. UnbindAt(c)'
      BY <1>1, <1>2 DEF UnbindAt, Written, Unbinds, Unseen, Matching
    <2> QED BY <2>1, <2>2
  <1> QED BY <1>3, <1>4, <1>5

-----------------------------------------------------------------------------
(* Every step keeps the invariant. *)
LEMMA NextInv == IInv /\ [BindingNext]_bindingVars => IInv'
  <1> SUFFICES ASSUME IInv, [BindingNext]_bindingVars PROVE IInv'
    OBVIOUS
  <1>1. ASSUME NEW c \in Callers, Step(c) PROVE IInv'
    <2>1. \/ BeginActs(c) \/ BindActs(c) \/ UnbindActs(c)
          \/ Reread(c) \/ Unbind(c) \/ Probe(c)
      BY <1>1 DEF Step, BeginActs, BindActs, UnbindActs
    <2> QED BY <2>1, BeginActsKeep, BindActsKeep, UnbindActsKeep, RereadKeeps, UnbindKeeps,
               ProbeKeeps
  <1>2. CASE UNCHANGED bindingVars
    BY <1>2 DEF bindingVars, device, IInv, BindingTypeOK, AloneInv, Idle, BindAt, UnbindAt,
                Unseen, Written
  <1> QED BY <1>1, <1>2, OutsideKeeps DEF BindingNext

(* The invariant holds whatever commands run on the device, and however they  *)
(* interleave with each other, guests and the host.                         *)
THEOREM Invariance == BindingSpec => []IInv
  BY InitInv, NextInv, PTL DEF BindingSpec

(* Every variable of the binding keeps its type. *)
THEOREM TypeCorrect == BindingSpec => []BindingTypeOK
  <1>1. IInv => BindingTypeOK
    BY DEF IInv
  <1> QED BY <1>1, Invariance, PTL

(* A bind that no other command disturbs never finds a device that it unbound *)
(* back at its host driver, and an unbind that none disturbs leaves the      *)
(* device there and without an override (bind_to_vfio, BindVFIO, BindNative, *)
(* platform-bind, platform-unbind).                                         *)
THEOREM BindsAndUnbinds == BindingSpec => []BindingHolds
  <1>1. IInv => BindingHolds
    <2> SUFFICES ASSUME IInv PROVE BindingHolds
      OBVIOUS
    <2>1. NotBackToHost
      BY DEF IInv, BindAt, NotBackToHost, Binders
    <2>2. ReturnedToHost
      BY DEF IInv, UnbindAt, Unseen, Written, ReturnedToHost, Unbinds
    <2> QED BY <2>1, <2>2 DEF BindingHolds
  <1> QED BY <1>1, Invariance, PTL

-----------------------------------------------------------------------------
(* What the filter has let through leaves the terminal with the next byte to *)
(* show, in a control sequence, or in the choice of a character set.  Only   *)
(* ESC and the byte after it, which pass together, could lead elsewhere.     *)
States == {"text", "escape", "drop", "string", "stringEscape"}
Plain == {"ground", "csi", "charset"}

FilterInv == state \in States /\ screen \in Plain

(* No line of the journal has a control, or is too long. *)
LogInv == journal = "plain" /\ size \in 0..MaxLogLine

(* A character that neither starts a sequence nor is a C1 control keeps the  *)
(* terminal plain.                                                          *)
LEMMA ShowsPlain ==
    ASSUME NEW s \in Plain, NEW c \in {"text"} \cup (Ascii \ {"ESC"})
    PROVE  Shows(s, c) \subseteq Plain
  BY DEF Plain, Shows, Ascii, Controls, Intermediates, Finals, Opening, C1

(* So does an escape sequence, unless its first byte opens a string or is an *)
(* intermediate that designates no character set.                           *)
LEMMA EscapePlain ==
    ASSUME NEW s \in Plain,
           NEW b \in Ascii \ (Controls \cup Opening \cup {"percent"})
    PROVE  \A t \in Shows(s, "ESC") : Shows(t, b) \subseteq Plain
  <1>1. Shows(s, "ESC") = {"escape"}
    BY DEF Plain, Shows, Controls, C1
  <1>2. Shows("escape", b) \subseteq Plain
    BY DEF Plain, Shows, Ascii, Controls, Intermediates, Finals, Opening, C1
  <1> QED BY <1>1, <1>2

(* What the filter may write: nothing, one such character, or one such pair. *)
Harmless(out) ==
    \/ out = <<>>
    \/ \E c \in {"text"} \cup (Ascii \ {"ESC"}) : out = <<c>>
    \/ \E b \in Ascii \ (Controls \cup Opening \cup {"percent"}) : out = <<"ESC", b>>

LEMMA EmitsKeeps ==
    ASSUME FilterInv, NEW st \in States, NEW pend, NEW more, NEW out, Harmless(out),
           Emits(st, pend, more, out)
    PROVE  FilterInv'
  <1>1. state' \in States
    BY DEF Emits
  <1>2. screen' \in Plain
    <2>1. CASE out = <<>>
      <3>1. Len(out) = 0
        BY <2>1
      <3> QED BY <3>1 DEF Emits, FilterInv
    <2>2. ASSUME NEW c \in {"text"} \cup (Ascii \ {"ESC"}), out = <<c>>
          PROVE  screen' \in Plain
      <3>1. Len(out) = 1 /\ out[1] = c
        BY <2>2
      <3>2. screen' \in Shows(screen, c)
        BY <3>1 DEF Emits
      <3> QED BY <3>2, ShowsPlain DEF FilterInv
    <2>3. ASSUME NEW b \in Ascii \ (Controls \cup Opening \cup {"percent"}), out = <<"ESC", b>>
          PROVE  screen' \in Plain
      <3>1. Len(out) = 2 /\ out[1] = "ESC" /\ out[2] = b
        BY <2>3
      <3>2. PICK t \in Shows(screen, "ESC") : screen' \in Shows(t, b)
        BY <3>1 DEF Emits
      <3> QED BY <3>2, EscapePlain DEF FilterInv
    <2> QED BY <2>1, <2>2, <2>3 DEF Harmless
  <1> QED BY <1>1, <1>2 DEF FilterInv

(* Decode finds text only where it finds no control, and at most a character. *)
LEMMA Decoded ==
    ASSUME NEW p
    PROVE  /\ Decode(p).rune \in {"invalid", "partial", "text"} \cup C1
           /\ Decode(p).bytes \in 0..3
  <1>1. Width(p[1]) \in 1..3
    BY DEF Width
  <1> QED BY <1>1 DEF Decode, Found, C1

LEMMA TextKeeps ==
    ASSUME FilterInv, NEW b, NEW more, FilterText(b, more)
    PROVE  FilterInv'
  <1> USE DEF States
  <1>1. CASE pending = <<>> /\ b \in Ascii
    <2>1. CASE b = "ESC"
      BY <1>1, <2>1, EmitsKeeps DEF FilterText, Harmless
    <2>2. CASE b # "ESC"
      <3>1. Harmless(<<b>>)
        BY <1>1, <2>2 DEF Harmless
      <3>2. Emits("text", <<>>, more, <<b>>)
        BY <1>1, <2>2 DEF FilterText
      <3> QED BY <3>1, <3>2, EmitsKeeps
    <2> QED BY <2>1, <2>2
  <1>2. CASE ~(pending = <<>> /\ b \in Ascii)
    <2> DEFINE p == Append(pending, b)
               d == Decode(p)
               left == After(p, d.bytes) \o more
    <2>1. \/ Emits("text", p, more, <<>>)
          \/ \E st \in {"string", "text"} : Emits(st, <<>>, left, <<>>)
          \/ Emits("text", <<>>, left, <<"text">>)
      BY <1>2 DEF FilterText
    <2>2. Harmless(<<>>) /\ Harmless(<<"text">>)
      BY DEF Harmless
    <2> HIDE DEF p, d, left
    <2> QED BY <2>1, <2>2, EmitsKeeps
  <1> QED BY <1>1, <1>2

(* A string passes nothing, however it ends. *)
LEMMA StringKeeps ==
    ASSUME FilterInv, NEW b, NEW more, FilterString(b, more)
    PROVE  FilterInv'
  <1>1. PICK st \in States : Emits(st, pending, more, <<>>)
    BY DEF FilterString, States
  <1> QED BY <1>1, EmitsKeeps DEF Harmless

(* ESC passes with the byte after it, unless that opens a string or is the   *)
(* intermediate that ends UTF-8; a control passes by itself.                *)
LEMMA EscapeKeeps ==
    ASSUME FilterInv, NEW b, NEW more, FilterEscape(b, more)
    PROVE  FilterInv'
  <1> DEFINE Emitted(out) == \E st \in States : Emits(st, pending, more, out)
  <1>1. \/ Emitted(<<>>)
        \/ FilterText(b, more)
        \/ b \in Ascii \ {"ESC"} /\ Emitted(<<b>>)
        \/ b \in Ascii \ (Controls \cup Opening \cup {"percent"}) /\ Emitted(<<"ESC", b>>)
    BY DEF FilterEscape, States, Ascii, Controls
  <1>2. \A out : Harmless(out) /\ Emitted(out) => FilterInv'
    BY EmitsKeeps
  <1>3. /\ Harmless(<<>>)
        /\ b \in Ascii \ {"ESC"} => Harmless(<<b>>)
        /\ b \in Ascii \ (Controls \cup Opening \cup {"percent"}) => Harmless(<<"ESC", b>>)
    BY DEF Harmless
  <1> HIDE DEF Emitted
  <1> QED BY <1>1, <1>2, <1>3, TextKeeps

(* What is left of a dropped sequence does not pass either. *)
LEMMA DropKeeps ==
    ASSUME FilterInv, NEW b, NEW more, FilterDrop(b, more)
    PROVE  FilterInv'
  <1> DEFINE Emitted(out) == \E st \in States : Emits(st, pending, more, out)
  <1>1. \/ Emitted(<<>>)
        \/ FilterText(b, more)
        \/ b \in Ascii \ {"ESC"} /\ Emitted(<<b>>)
    BY DEF FilterDrop, States, Ascii, Controls
  <1>2. \A out : Harmless(out) /\ Emitted(out) => FilterInv'
    BY EmitsKeeps
  <1>3. Harmless(<<>>) /\ (b \in Ascii \ {"ESC"} => Harmless(<<b>>))
    BY DEF Harmless
  <1> HIDE DEF Emitted
  <1> QED BY <1>1, <1>2, <1>3, TextKeeps

LEMMA FeedKeeps ==
    ASSUME FilterInv, NEW b, NEW more, FilterFeed(b, more)
    PROVE  FilterInv'
  <1>1. FilterString(b, more) \/ FilterEscape(b, more) \/ FilterDrop(b, more) \/ FilterText(b, more)
    BY DEF FilterFeed, FilterInv, States
  <1> QED BY <1>1, StringKeeps, EscapeKeeps, DropKeeps, TextKeeps

-----------------------------------------------------------------------------
(* A line takes at most a character more, or starts with it. *)
LEMMA AddsKeeps ==
    ASSUME LogInv, NEW n \in 0..3, NEW c \in {"text", "TAB"} \cup Intermediates \cup Finals,
           Adds(n, c)
    PROVE  LogInv'
  <1>1. size' \in 0..MaxLogLine
    BY MaxLogLineAssumption DEF MaxLogLineAssumption, Adds, LogInv
  <1>2. c \notin (C1 \cup Controls) \ {"TAB"}
    BY DEF C1, Controls, Intermediates, Finals, Opening
  <1> QED BY <1>1, <1>2 DEF Adds, LogInv

LEMMA LogKeeps ==
    ASSUME LogInv, NEW b, NEW more, LogFeed(b, more)
    PROVE  LogInv'
  <1>1. CASE LogRune(b, more)
    <2> DEFINE d == Decode(Append(logPending, b))
    <2>1. UNCHANGED <<size, journal>> \/ Adds(d.bytes, "text")
      BY <1>1 DEF LogRune
    <2>2. d.bytes \in 0..3
      BY Decoded
    <2> HIDE DEF d
    <2> QED BY <2>1, <2>2, AddsKeeps DEF LogInv
  <1>2. CASE LogByte(b, more)
    <2>1. \/ UNCHANGED <<size, journal>>
          \/ size' = 0 /\ UNCHANGED journal
          \/ b \in {"TAB"} \cup Intermediates \cup Finals /\ Adds(1, b)
      BY <1>2 DEF LogByte
    <2>2. CASE UNCHANGED <<size, journal>> \/ (size' = 0 /\ UNCHANGED journal)
      BY <2>2, MaxLogLineAssumption DEF MaxLogLineAssumption, LogInv
    <2>3. CASE b \in {"TAB"} \cup Intermediates \cup Finals /\ Adds(1, b)
      <3>1. 1 \in 0..3
        OBVIOUS
      <3> QED BY <2>3, <3>1, AddsKeeps
    <2> QED BY <2>1, <2>2, <2>3
  <1> QED BY <1>1, <1>2 DEF LogFeed

(* Whatever a guest writes, and however it splits, nests or cuts off its      *)
(* sequences, no string and nothing that changes how a terminal reads text   *)
(* reaches the terminal, and every line of the journal is free of controls   *)
(* and within its length (escapeFilter, lineLogger).                        *)
THEOREM OutputIsPlain == FilterSpec => []OutputPlain
  <1>1. FilterInit => FilterInv /\ LogInv
    BY MaxLogLineAssumption DEF MaxLogLineAssumption, FilterInit, FilterInv, LogInv, States, Plain
  <1>2. FilterInv /\ LogInv /\ [FilterNext]_filterVars => FilterInv' /\ LogInv'
    <2> SUFFICES ASSUME FilterInv, LogInv, [FilterNext]_filterVars
                 PROVE  FilterInv' /\ LogInv'
      OBVIOUS
    <2>1. ASSUME NEW b \in Bytes, GuestWrites(b) PROVE FilterInv' /\ LogInv'
      BY <2>1, FeedKeeps, LogKeeps DEF GuestWrites
    <2>2. CASE FilterAgain
      BY <2>2, FeedKeeps DEF FilterAgain, logger, LogInv
    <2>3. CASE LogAgain
      BY <2>3, LogKeeps DEF LogAgain, filter, FilterInv
    <2>4. CASE UNCHANGED filterVars
      BY <2>4 DEF filterVars, filter, logger, FilterInv, LogInv
    <2> QED BY <2>1, <2>2, <2>3, <2>4 DEF FilterNext
  <1>3. FilterInv /\ LogInv => OutputPlain
    BY MaxLogLineAssumption DEF MaxLogLineAssumption, FilterInv, LogInv, OutputPlain, Plain
  <1> QED BY <1>1, <1>2, <1>3, PTL DEF FilterSpec
=============================================================================
