------------------------------ MODULE Settings ------------------------------
(***************************************************************************)
(* The settings and the button map of one slot, edited in the GUI          *)
(* (settings.rs, buttons.rs, state.rs, files.rs) and patched by the CLI    *)
(* (orchestrator/patch.rs), through validation and the model's codec to    *)
(* the bytes the slot holds and back.                                      *)
(*                                                                         *)
(* A behaviour keeps to one tab: rows of the button map or settings that   *)
(* have to do with each other, and the files that are imported.  A write   *)
(* goes through or changes nothing, and the slot is read after it;         *)
(* WriteBatch and Window have the rest.                                    *)
(***************************************************************************)
EXTENDS Pro3Codec, UltimateCodec

CONSTANTS
  Nothing,
  Descriptions,  \* the models, each with its description and codec
  Starts,        \* [model -> [mode -> what a behaviour keeps to, and what the slot holds]]
  Values,        \* the numbers that are tried
  MaxEdits,      \* bound: edits
  MaxImports,    \* bound: imports
  MaxWrites,     \* bound: writes of the GUI
  MaxCommands    \* bound: remaps and patches of the CLI

ASSUME SettingsAssumption ==
  /\ \A m \in DOMAIN Descriptions : IsDescription(Descriptions[m])
  /\ Values \subseteq Int
  /\ {MaxEdits, MaxImports, MaxWrites, MaxCommands} \subseteq Nat

-----------------------------------------------------------------------------
(* What the shipped descriptions, slots and files are, next to the codecs. *)

Fields(D, m) == IF D.codec = "pro3" THEN Pro3Fields(m) ELSE UltimateFields
CodecFlags(D) == IF D.codec = "pro3" THEN Pro3Flags ELSE UltimateFlags
CodecRange(D, f) ==
  IF GroupOf(f) = "vibration" THEN <<0, 5>> ELSE IF D.codec = "pro3" THEN ReadRange(f) ELSE <<0, 100>>

\* The settings a mode declares are the codec's, with its ranges; a flag excludes the
\* same ones in every mode.
SettingsMatch(D) ==
  /\ \A m \in DOMAIN D.modes :
       /\ Numbers(D, m) \subseteq Fields(D, m) /\ Flags(D, m) \subseteq CodecFlags(D)
       /\ \A f \in Numbers(D, m) : D.modes[m].numbers[f] = CodecRange(D, f)
  /\ \A m, n \in DOMAIN D.modes : \A f \in Flags(D, m) \cap Flags(D, n) :
       D.modes[m].flags[f] = D.modes[n].flags[f]

\* The buttons of a Pro 3 are sources of its tables, its extra outputs theirs, and it
\* declares all the codec has.
MatchesPro3(D) ==
  /\ D.buttons \subseteq {Sources[i] : i \in DOMAIN Sources}
  /\ D.remappable = D.buttons \ {"home/guide"}
  /\ D.named = D.buttons \ Paddles
  /\ \A m \in DOMAIN D.modes :
       /\ m \in {"xinput", "switch", "dinput"} /\ Numbers(D, m) = Pro3Fields(m)
       /\ D.modes[m].extras = [e \in {TargetOnly(m)[i].name : i \in DOMAIN TargetOnly(m)} |-> {}]

\* Every output of an Ultimate has a code of its own, and none is zero; any button can be
\* remapped.
MatchesUltimate(D) ==
  /\ D.remappable = D.buttons /\ D.named = D.buttons
  /\ {Disabled, Unrecognised} \cap D.buttons = {}
  /\ \A m \in DOMAIN D.modes :
       /\ D.outputs \cup Extras(D, m) \subseteq DOMAIN D.codes[m]
       /\ {Disabled, Unrecognised} \cap DOMAIN D.codes[m] = {}
       /\ \A o \in DOMAIN D.codes[m] :
            D.codes[m][o] # Zero /\ \A p \in DOMAIN D.codes[m] : D.codes[m][p] = D.codes[m][o] => p = o

Matches(D) ==
  /\ D.outputs \subseteq D.named
  /\ SettingsMatch(D)
  /\ \/ D.codec = "pro3" /\ MatchesPro3(D)
     \/ D.codec = "ultimate" /\ MatchesUltimate(D)

\* A profile has the codec's numbers of every group its mode declares, and may have more.
IsProfile(D, p) ==
  /\ p = [mode |-> p.mode, numbers |-> p.numbers, on |-> p.on, map |-> p.map]
  /\ p.mode \in DOMAIN D.modes
  /\ p.numbers \in [DOMAIN p.numbers -> Int] /\ DOMAIN p.numbers \subseteq Fields(D, p.mode)
  /\ {f \in Fields(D, p.mode) : GroupOf(f) \in Groups(D, p.mode)} \subseteq DOMAIN p.numbers
  /\ p.map = [b \in DOMAIN p.map |-> p.map[b]] /\ DOMAIN p.map \subseteq D.buttons

\* A slot has an entry for every button and a raw value in every place; the places are
\* those of an Ultimate's fields on a Pro 3 too.
IsSlot(D, s) ==
  /\ IF D.codec = "pro3"
     THEN s = [active |-> s.active, map |-> s.map, raw |-> s.raw, bits |-> s.bits, motors |-> s.motors]
     ELSE s = [active |-> s.active, used |-> s.used, map |-> s.map, raw |-> s.raw, bits |-> s.bits]
  /\ s.active \in BOOLEAN
  /\ s.map = [b \in D.buttons |-> s.map[b]]
  /\ s.raw \in [{PlaceOf(f) : f \in UltimateFields} -> Int]

ASSUME StartsAssumption ==
  \A m \in DOMAIN Descriptions :
    /\ Matches(Descriptions[m])
    /\ \A n \in DOMAIN Descriptions[m].modes : \A start \in Starts[m][n] :
         /\ IsSlot(Descriptions[m], start.slot)
         /\ \A file \in start.tab.files : IsProfile(Descriptions[m], file)

-----------------------------------------------------------------------------
VARIABLES
  model, mode, tab,   \* fixed
  stored,   \* the bytes of the slot, as the model's codec takes them
  edited,   \* the working copy, or Nothing
  said,     \* what the last step wrote or imported, or Nothing
  edits, imports, writes, commands

counts == <<edits, imports, writes, commands>>
settingsVars == <<model, mode, tab, stored, edited, said, counts>>

d == Descriptions[model]
IsPro3 == d.codec = "pro3"

DefaultOf(m) == IF IsPro3 THEN Pro3Default(d, m) ELSE UltimateDefault(d, m)
Decode(s) == IF IsPro3 THEN Pro3Decode(mode, s) ELSE UltimateDecode(d, mode, s)
Compile(p, s) == IF IsPro3 THEN Pro3Compile(p, s) ELSE UltimateCompile(d, p, s)
Compiles(p, s) == IF IsPro3 THEN Pro3Compiles(p, s) ELSE UltimateCompiles(d, p)

\* The profile as read, and as shown.
Held(s) == IF s.active THEN Decode(s) ELSE Nothing
Shown == IF edited = Nothing THEN Held(stored) ELSE edited

Said(op, asked, lost) == [op |-> op, asked |-> asked, lost |-> lost]

-----------------------------------------------------------------------------
(* The GUI.                                                                *)

Edit(p) ==
  /\ edits < MaxEdits
  /\ edited' = p /\ edits' = edits + 1
  /\ said' = Nothing
  /\ UNCHANGED <<model, mode, tab, stored, imports, writes, commands>>

SetNumber ==
  /\ Shown # Nothing
  /\ \E f \in tab.fields \cap Numbers(d, mode), v \in Values :
       f \in DOMAIN Shown.numbers /\ Edit(WithNumber(d, Shown, f, v))

SetFlag ==
  /\ Shown # Nothing
  /\ \E f \in tab.fields \cap Flags(d, mode), on \in BOOLEAN : Edit(WithFlag(d, Shown, f, on))

\* An unrecognised output can be left, never picked.
SetOutput ==
  /\ Shown # Nothing
  /\ \E b \in tab.buttons \cap d.remappable :
       \E t \in Choices(d, Shown, DefaultOf(mode), b) \ {OutputOf(Shown, b), Unrecognised} :
         Edit(WithOutput(Shown, b, t))

StartFromDefault == Shown = Nothing /\ Edit(DefaultOf(mode))

\* A file has been validated for its own mode; one for another mode, or one that loses
\* something, has the user's yes.
Import ==
  \E file \in tab.files :
    LET from == DefaultOf(file.mode)
        to   == DefaultOf(mode)
    IN  /\ imports < MaxImports
        /\ IsValid(d, file)
        /\ edited' = Convert(d, file, from, to) /\ imports' = imports + 1
        /\ said' = Said("import", file, Losses(d, file, from, to))
        /\ UNCHANGED <<model, mode, tab, stored, edits, writes, commands>>

Discard ==
  /\ edited # Nothing
  /\ edited' = Nothing /\ said' = Nothing
  /\ UNCHANGED <<model, mode, tab, stored, counts>>

-----------------------------------------------------------------------------
(* Writing.  What does not validate or compile is refused and changes      *)
(* nothing.                                                                *)

Store(op, p) ==
  /\ Compiles(p, stored)
  /\ stored' = Compile(p, stored)
  /\ said' = Said(op, p, {})
  /\ UNCHANGED <<model, mode, tab, edits, imports>>

Write ==
  /\ edited # Nothing
  /\ writes < MaxWrites
  /\ IsValid(d, edited)
  /\ Store("write", edited)
  /\ edited' = Nothing
  /\ writes' = writes + 1 /\ UNCHANGED commands

\* The commands of the CLI patch what the slot holds, beside the GUI's edits.
Command ==
  /\ commands < MaxCommands
  /\ stored.active
  /\ commands' = commands + 1 /\ UNCHANGED <<edited, writes>>

Remap ==
  /\ Command
  /\ \E b \in tab.buttons, t \in {Disabled, Unrecognised} \cup d.buttons \cup Extras(d, mode) :
       /\ IsRemap(d, mode, b, t)
       /\ Store("remap", WithOutput(Held(stored), b, t))

\* Mutant: the check looks at the slot as it was read.
ClashBefore(p, touched) ==
  \E f \in Held(stored).on \cap Flags(d, mode) :
    GroupOf(f) \in touched /\ ExcludedBy(d, mode, f) \cap Held(stored).on # {}

\* No flag that is on may clash in a group a patch touches, one it found on included.
TouchedClash(p, touched) ==
  \E f \in p.on \cap Flags(d, mode) : GroupOf(f) \in touched /\ ExcludedBy(d, mode, f) \cap p.on # {}

Patched(changes) ==
  LET p == Held(stored)
  IN  [p EXCEPT !.numbers = [f \in DOMAIN @ |-> IF f \in DOMAIN changes THEN changes[f] ELSE @[f]],
                !.on = (@ \ DOMAIN changes)
                       \cup {f \in DOMAIN changes \cap Flags(d, mode) : changes[f] = 1}]

\* A changed flag is 0 or 1 here.
FitsIn(changes) ==
  \A f \in DOMAIN changes :
    IF f \in Numbers(d, mode) THEN InRange(d, mode, f, changes[f]) ELSE changes[f] \in {0, 1}

Patch ==
  /\ Command
  /\ \E fs \in SUBSET tab.fields : \E changes \in [fs -> Values \cup {0, 1}] :
       LET p == Patched(changes)
       IN  /\ Cardinality(fs) \in 1 .. 2
           /\ fs \subseteq Declared(d, mode) /\ FitsIn(changes)
           /\ ~TouchedClash(p, {GroupOf(f) : f \in fs})
           /\ Store("patch", p)

-----------------------------------------------------------------------------
SettingsInit ==
  /\ model \in DOMAIN Descriptions
  /\ mode \in DOMAIN Descriptions[model].modes
  /\ \E start \in Starts[model][mode] : tab = start.tab /\ stored = start.slot
  /\ edited = Nothing /\ said = Nothing
  /\ edits = 0 /\ imports = 0 /\ writes = 0 /\ commands = 0

Next ==
  \/ SetNumber \/ SetFlag \/ SetOutput \/ StartFromDefault \/ Import \/ Discard
  \/ Write \/ Remap \/ Patch

SettingsSpec == SettingsInit /\ [][Next]_settingsVars

-----------------------------------------------------------------------------
(* Properties.                                                             *)

Wrote == {"write", "remap", "patch"}

\* The Pro 3 turns an analog trigger range that is the wrong way round.
ReadNumber(p, f) ==
  IF IsPro3 /\ GroupOf(f) = "triggers" /\ f[2] \in Ends
  THEN Turned(f, p.numbers[f], p.numbers[<<f[1], Other[f[2]]>>])
  ELSE p.numbers[f]

\* A button the CLI maps to itself, though it is no output, may read as its default.
ReadOutput(p, b, output) ==
  \/ output = p.map[b]
  \/ p.map[b] = b /\ b \notin d.outputs /\ output = OutputOf(DefaultOf(mode), b)

\* What is written without an error is what the slot reads as: every number, flag and
\* output that was asked for, those that did not change included (Section::write and
\* compile_profile against map_profile, with keep_or_encode between them).
WrittenReadsBack ==
  said # Nothing /\ said.op \in Wrote =>
    LET asked == said.asked
        got == Decode(stored)
    IN  /\ stored.active
        /\ \A f \in Numbers(d, mode) : got.numbers[f] = ReadNumber(asked, f)
        /\ got.on \cap Flags(d, mode) = asked.on \cap Flags(d, mode)
        /\ \A b \in DOMAIN asked.map : ReadOutput(asked, b, got.map[b])

\* The entry of a button has a name, and is written by it.
IsNamed(b) ==
  IF IsPro3 THEN b \in d.remappable
  ELSE "map" \in stored.used
       /\ stored.map[b] \in {Zero} \cup {d.codes[mode][o] : o \in DOMAIN d.codes[mode]}

\* A raw value that reads as its own percent, neither clamped nor turned round.
IsPlain(f) ==
  LET raw == stored.raw[PlaceOf(f)]
      held == Held(stored).numbers[f]
  IN  IF IsPro3 THEN GroupOf(f) # "vibration" /\ Pro3Percent(raw, RawMax(GroupOf(f))) = held
      ELSE GroupOf(f) \in stored.used /\ raw # NotANumber

\* A write keeps, byte for byte, what it was not asked to change: the entry of a button
\* that still has its output, the raw value of a number that several raw values read
\* as, and on an Ultimate the toggles that the mode or the program does not know
\* (patch.rs: "Everything else in the slot stays as read").
OthersStayAsRead ==
  [][said' # Nothing /\ said'.op \in Wrote /\ stored.active =>
       LET held == Held(stored)
           asked == said'.asked
       IN  /\ \A b \in DOMAIN asked.map :
                asked.map[b] = held.map[b] /\ IsNamed(b) => stored'.map[b] = stored.map[b]
           /\ \A f \in DOMAIN held.numbers :
                asked.numbers[f] = held.numbers[f] /\ IsPlain(f) =>
                  stored'.raw[PlaceOf(f)] = stored.raw[PlaceOf(f)]
           /\ ~IsPro3 /\ "toggles" \in stored.used =>
                \A bit \in (stored.bits \cup stored'.bits) \ Flags(d, mode) :
                  (bit \in asked.on <=> bit \in held.on) => (bit \in stored'.bits <=> bit \in stored.bits)
     ]_settingsVars

\* The codec takes a valid profile but for an unrecognised output that the slot does not
\* hold, and on an Ultimate a file's button that is no output.
LacksOutput(p, s) ==
  \E b \in DOMAIN p.map :
    \/ p.map[b] = Unrecognised /\ (IF s.active THEN Decode(s).map[b] # Unrecognised ELSE TRUE)
    \/ p.map[b] \in d.buttons \ d.outputs /\ ~IsPro3
IsAccepted(p, s) == IsValid(d, p) /\ (Compiles(p, s) \/ LacksOutput(p, s))

\* The mode declares every group of settings that a profile of its codec has.
DeclaresAll == {GroupOf(f) : f \in Fields(d, mode)} \subseteq Groups(d, mode)

\* What the GUI lets a user make can be written: an edit of a valid profile, a new one
\* and an import are valid and stay so, whatever the slot held and however the edits
\* and the CLI's commands are mixed (settings.rs, buttons.rs and convert.rs against
\* validation/profile.rs and the codecs).  Only where the mode declares all groups: the
\* DInput mode of the wired and the 2.4G Ultimate has no vibration, which its codec
\* reads nevertheless and a write needs, and validation refuses.
EditsAreAccepted ==
  [][DeclaresAll /\ edited' # Nothing
       /\ (Shown = Nothing \/ IsValid(d, Shown) \/ (said' # Nothing /\ said'.op = "import"))
     => IsAccepted(edited', stored')]_settingsVars

\* No write makes two flags clash that did not; a patch leaves no clash in a group it
\* touches, and the GUI writes none at all.
NoClashIsMade ==
  [][said' # Nothing /\ said'.op \in Wrote =>
       LET before == IF stored.active THEN Decode(stored).on ELSE {}
           after == Decode(stored').on
           left == Clashes(d, mode, after)
           patched == {GroupOf(f) : f \in (before \ after) \cup (after \ before)}
       IN  /\ left \subseteq Clashes(d, mode, before)
           /\ said'.op = "write" => left = {}
           /\ said'.op = "patch" => {GroupOf(f) : f \in left} \cap patched = {}]_settingsVars

IsListed(kind, name) == <<kind, name>> \in said.lost

\* An import shows what the file has, but for buttons at their default, for what the
\* warning lists and for groups the mode has no setting of; an output it lists is one the
\* mode does not have (convert.rs).
LossIsListed ==
  said # Nothing /\ said.op = "import" =>
    LET file == said.asked IN
    /\ \A b \in DOMAIN file.map :
         \/ edited.map[b] = file.map[b] /\ ~IsListed("output", b)
         \/ edited.map[b] = Disabled /\ IsListed("output", b)
            /\ ~IsRemap(d, mode, b, file.map[b])
         \/ /\ OutputOf(DefaultOf(file.mode), b) = file.map[b]
            /\ OutputOf(DefaultOf(mode), b) = edited.map[b]
            /\ ~IsListed("output", b)
    /\ \A f \in Declared(d, file.mode) :
         \/ GroupOf(f) \notin Groups(d, mode)
         \/ IsListed("settings", GroupOf(f))
         \/ f \in Flags(d, mode) /\ (f \in file.on <=> f \in edited.on)
         \/ f \in Numbers(d, mode) /\ file.numbers[f] = edited.numbers[f]

=============================================================================
