---------------------------- MODULE ModeTracker ----------------------------
(* The mode tracker of one session (mode_tracker.rs): a byte-at-a-time        *)
(* parser of the escape sequences in the PTY's output, the modes it keeps,    *)
(* and the sequences it writes for a client that attaches to a live session.  *)
(*                                                                            *)
(* A number is one byte that carries its value, so "digits" holds numbers and *)
(* semicolons are dropped. The modes of DECSET are those of their own, the     *)
(* mouse events and the mouse formats; one bit stands for the five kitty       *)
(* keyboard flags.                                                             *)
EXTENDS Naturals, Sequences

CONSTANTS
    PlainModes,  \* the modes that exclude no other
    OnByDefault, \* those of them that are on at first
    MouseEvents, MouseFormats, \* of each at most one is on
    Emitted,     \* all of them in the order of generate_rehydrate_sequences
    Reads,       \* what one read of the PTY may hold, cut anywhere
    MaxSeqLen,   \* MAX_ESC_BUFFER_SIZE
    MaxStack,    \* length of kitty_keyboard_stack
    MaxReads     \* reads of the PTY (a bound of the model)

Modes == PlainModes \cup MouseEvents \cup MouseFormats

ASSUME TrackerAssumption ==
    /\ OnByDefault \subseteq PlainModes
    /\ PlainModes \cap (MouseEvents \cup MouseFormats) = {}
    /\ MouseEvents \cap MouseFormats = {}
    /\ Modes \cap {"h", "l", "m", "n", "u", ";"} = {}
    /\ Emitted \in Seq(Modes) /\ \A mode \in Modes : \E i \in 1..Len(Emitted) : Emitted[i] = mode
    /\ \A data \in Reads : data \in Seq(STRING)
    /\ MaxStack \in Nat \ {0}

DefaultModes ==
    [set |-> [mode \in Modes |-> mode \in OnByDefault], modifyOtherKeys |-> FALSE, kitty |-> 0]

VARIABLES
    tracker,    \* ModeTracker
    unlimited,  \* the same parser without the limit on the sequence's length
    modesReads  \* how many reads were processed

modesVars == <<tracker, unlimited, modesReads>>

(* ModeTracker::new *)
NewModeTracker ==
    [state |-> "Normal", digits |-> <<>>, prefix |-> "none", seqLen |-> 0,
     osc |-> <<>>, content |-> "none", cwd |-> "none", stack |-> <<>>,
     modes |-> DefaultModes]

(* The buffers that reset_state leaves are cleared before they are read again. *)
ResetState(t) ==
    [t EXCEPT !.state = "Normal", !.prefix = "none", !.seqLen = 0,
              !.digits = <<>>, !.osc = <<>>, !.content = "none"]

(* set_mouse_event_mode and set_mouse_format_mode: at most one of a group.    *)
GroupOf(mode) ==
    CASE mode \in MouseEvents  -> MouseEvents
      [] mode \in MouseFormats -> MouseFormats
      [] OTHER                 -> {mode}
AloneOf(mode) == {mode}  \* (a slip)
Cleared(mode) == GroupOf(mode)

SetMode(modes, mode, enabled) ==
    [modes EXCEPT !.set = [m \in Modes |->
        IF m = mode THEN enabled ELSE IF m \in Cleared(mode) THEN FALSE ELSE @[m]]]

(* apply_modes: each number of the list; one that is not tracked is ignored.  *)
ApplyModes(t, enabled) ==
    LET after[i \in 0..Len(t.digits)] ==
            IF i = 0 THEN t.modes
            ELSE IF t.digits[i] \in Modes THEN SetMode(after[i - 1], t.digits[i], enabled)
            ELSE after[i - 1]
    IN  [t EXCEPT !.digits = <<>>, !.modes = after[Len(t.digits)]]

PushKitty(t, flags) ==
    [t EXCEPT !.stack = IF Len(@) < MaxStack THEN Append(@, t.modes.kitty) ELSE @,
              !.modes.kitty = flags]

(* pop_kitty_keyboard: a count of at least the stack's length empties it.     *)
PopKitty(t, count) ==
    IF count = 0 THEN t
    ELSE IF count >= MaxStack \/ count > Len(t.stack)
    THEN [t EXCEPT !.stack = <<>>, !.modes.kitty = 0]
    ELSE [t EXCEPT !.stack = SubSeq(@, 1, Len(@) - count),
                   !.modes.kitty = t.stack[Len(t.stack) - count + 1]]

(* apply_prefixed_csi, with the defaults of the parameters that are missing.  *)
Numbers == {"1", "2", "3", "4", "7"}
ValueOf(number) ==
    CASE number = "1" -> 1 [] number = "2" -> 2 [] number = "3" -> 3 [] number = "4" -> 4
      [] number = "7" -> 7 [] OTHER -> 25
Param(t, i, default) == IF i > Len(t.digits) THEN default ELSE ValueOf(t.digits[i])
FlagsOf(n) == IF n > 0 THEN 1 ELSE 0
ApplyPrefixedCsi(t, final) ==
    CASE t.prefix = ">" /\ final = "u" -> PushKitty(t, FlagsOf(Param(t, 1, 0)))
      [] t.prefix = "=" /\ final = "u" ->
            LET flags == FlagsOf(Param(t, 1, 0)) IN
            [t EXCEPT !.modes.kitty = CASE Param(t, 2, 1) = 1 -> flags
                                        [] Param(t, 2, 1) = 2 -> (IF flags = 1 THEN 1 ELSE @)
                                        [] Param(t, 2, 1) = 3 -> IF flags = 1 THEN 0 ELSE @
                                        [] OTHER -> @]
      [] t.prefix = "<" /\ final = "u" -> PopKitty(t, Param(t, 1, 1))
      [] t.prefix = ">" /\ final = "m" ->
            [t EXCEPT !.modes.modifyOtherKeys = Param(t, 1, 0) = 4 /\ Param(t, 2, 0) = 2]
      [] t.prefix = ">" /\ final = "n" -> [t EXCEPT !.modes.modifyOtherKeys = FALSE]
      [] OTHER -> t

HandleOsc(t) == IF t.osc = <<"7">> /\ t.content # "none" THEN [t EXCEPT !.cwd = t.content] ELSE t

IsNumber(byte) == byte \in Modes \cup Numbers
PushDigit(t, byte) == IF byte = ";" THEN t ELSE [t EXCEPT !.digits = Append(@, byte)]

(* One byte in the parser's state, the limit apart.                           *)
ParseByte(t, byte) ==
    CASE t.state = "Normal" ->
            IF byte = "esc" THEN [t EXCEPT !.state = "Escape", !.seqLen = 1] ELSE t
      [] t.state = "Escape" ->
            CASE byte = "[" -> [t EXCEPT !.state = "Csi"]
              [] byte = "]" -> [t EXCEPT !.state = "Osc", !.digits = <<>>]
              [] OTHER -> ResetState(t)
      [] t.state = "Csi" ->
            CASE byte = "?" -> [t EXCEPT !.state = "CsiQuestion", !.digits = <<>>]
              [] byte \in {">", "=", "<"} ->
                    [t EXCEPT !.state = "CsiPrefixed", !.prefix = byte, !.digits = <<>>]
              [] OTHER -> ResetState(t)
      [] t.state = "CsiQuestion" ->
            IF IsNumber(byte) THEN [t EXCEPT !.state = "CsiDigits", !.digits = <<byte>>]
            ELSE ResetState(t)
      [] t.state = "CsiDigits" ->
            CASE IsNumber(byte) \/ byte = ";" -> PushDigit(t, byte)
              [] byte \in {"h", "l"} -> ResetState(ApplyModes(t, byte = "h"))
              [] OTHER -> ResetState(t)
      [] t.state \in {"CsiPrefixed", "CsiPrefixedDigits"} ->
            CASE IsNumber(byte) -> PushDigit([t EXCEPT !.state = "CsiPrefixedDigits"], byte)
              [] byte = ";" /\ t.state = "CsiPrefixedDigits" -> t
              [] byte \in {"m", "n", "u"} -> ResetState(ApplyPrefixedCsi(t, byte))
              [] OTHER -> ResetState(t)
      [] t.state = "Osc" ->
            IF IsNumber(byte) THEN PushDigit([t EXCEPT !.state = "OscDigit"], byte)
            ELSE ResetState(t)
      [] t.state = "OscDigit" ->
            CASE IsNumber(byte) -> PushDigit(t, byte)
              [] byte = ";" -> [t EXCEPT !.state = "OscSemicolon", !.osc = t.digits,
                                         !.content = "none"]
              [] OTHER -> ResetState(t)
      [] t.state = "OscSemicolon" ->
            IF byte \in {"bel", "esc"} THEN ResetState(HandleOsc(t))
            ELSE [t EXCEPT !.content = byte]

(* The loop of process: the length is counted in every state, and the byte    *)
(* that passes the limit is not looked at.                                    *)
LimitedByte(t, byte) ==
    IF t.seqLen + 1 > MaxSeqLen THEN ResetState(t)
    ELSE ParseByte([t EXCEPT !.seqLen = @ + 1], byte)

(* The bytes of one read, one after the other.                                *)
Processed(t, data) ==
    LET after[i \in 0..Len(data)] == IF i = 0 THEN t ELSE LimitedByte(after[i - 1], data[i])
    IN  after[Len(data)]
ProcessedUnlimited(t, data) ==
    LET after[i \in 0..Len(data)] == IF i = 0 THEN t ELSE ParseByte(after[i - 1], data[i])
    IN  after[Len(data)]

ModesInit == tracker = NewModeTracker /\ unlimited = NewModeTracker /\ modesReads = 0

Process(data) ==
    /\ modesReads < MaxReads
    /\ modesReads' = modesReads + 1
    /\ tracker' = Processed(tracker, data)
    /\ unlimited' = ProcessedUnlimited(unlimited, data)

ModesNext == \E data \in Reads : Process(data)

ModesSpec == ModesInit /\ [][ModesNext]_modesVars

------------------------------------------------------------------------------
(* generate_rehydrate_sequences: what is not at its default, and no stack.    *)
RehydrateSequences ==
    LET changed == {m \in Modes : tracker.modes.set[m] # DefaultModes.set[m]} IN
    {[kind |-> "mode", number |-> m, on |-> tracker.modes.set[m]] : m \in changed}
    \cup (IF tracker.modes.modifyOtherKeys THEN {[kind |-> "keys"]} ELSE {})
    \cup (IF tracker.modes.kitty # 0 THEN {[kind |-> "kitty", number |-> tracker.modes.kitty]}
          ELSE {})

EmittedAt(mode) == CHOOSE i \in 1..Len(Emitted) : Emitted[i] = mode

(* The engine of the client that attaches, which starts at the defaults: a    *)
(* mouse mode that is set or reset takes the place of its group's.            *)
Rehydrated ==
    LET modes == {s \in RehydrateSequences : s.kind = "mode"}
        Group(m) == {s \in modes : s.number \in GroupOf(m)}
    IN [set |-> [m \in Modes |->
            IF Group(m) = {} THEN DefaultModes.set[m]
            ELSE LET final == CHOOSE s \in Group(m) :
                                   \A o \in Group(m) : EmittedAt(s.number) >= EmittedAt(o.number)
                 IN final.number = m /\ final.on],
        modifyOtherKeys |-> \E s \in RehydrateSequences : s.kind = "keys",
        kitty |-> IF \E s \in RehydrateSequences : s.kind = "kitty"
                  THEN (CHOOSE s \in RehydrateSequences : s.kind = "kitty").number ELSE 0]

(* Whatever was written and however it was cut, a client that attaches to the *)
(* live session and reads the rehydration sequences in their order is in the  *)
(* modes the tracker has: none is left over, and none is undone by a later    *)
(* sequence of the same group.                                                *)
RehydrationRestores == Rehydrated = tracker.modes

(* "Tracks buffer length to prevent unbounded growth": the limit is about the *)
(* length of one sequence. So a sequence shorter than the limit is seen,      *)
(* whatever came before it.                                                   *)
TracksEveryMode == tracker.state = unlimited.state => tracker.modes = unlimited.modes
==============================================================================
