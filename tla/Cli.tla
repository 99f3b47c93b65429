-------------------------------- MODULE Cli --------------------------------
(***************************************************************************)
(* The command line: its exports, and the commands that write.             *)
(*                                                                         *)
(* An export saves each slot in use in a file named after its mode and     *)
(* slot, its macros in the file. upload-all writes the files of such a     *)
(* folder, some perhaps of older programs, in one batch; upload writes one *)
(* of them into any slot; write-macro puts one macro file. Every command   *)
(* that writes is a batch of Plan, and so is what the app writes between.  *)
(*                                                                         *)
(* One program writes at a time. Commands that only read are left out, and *)
(* so are the folder's other files, warnings and messages.                 *)
(***************************************************************************)
EXTENDS Plan

CONSTANTS RenamingModels,   \* the models with profile names
          Folders,          \* what the folder may hold at first
          MacroFiles,       \* the files write-macro is given
          Between           \* bound: what the app writes after an export

\* `torn`: the file cannot be read. `sound`: its profile passes the checks, its macros
\* aside. `macros` are in the file, or in the macro files it `refers` to.
FileShape(file) ==
    /\ DOMAIN file = {"torn", "blank", "sound", "map", "macros", "refers"}
    /\ {file.torn, file.blank, file.sound, file.refers} \subseteq BOOLEAN
    /\ file.map \in [Buttons -> Outputs]
    /\ IsFiniteSet(DOMAIN file.macros)
    /\ \A n \in DOMAIN file.macros :
         n \in Nat /\ file.macros[n] \in Macro /\ ~file.macros[n].unknown

\* `fits`: the modes that have every button of the macro's steps. A macro in a file names
\* its buttons, and one that passes the checks has steps.
MacroFileShape(file) ==
    /\ DOMAIN file = {"mode", "macro", "sound", "fits"}
    /\ file.sound \in BOOLEAN
    /\ file.macro \in Macro /\ ~file.macro.unknown
    /\ file.sound => file.macro.steps # NoSteps
    /\ file.mode \in file.fits /\ file.fits \subseteq Modes

ASSUME CliConstants ==
    /\ RenamingModels \subseteq Models
    /\ Buttons # {} /\ IsFiniteSet(Places)
    /\ \A f \in Folders :
         IsFiniteSet(DOMAIN f) /\ \A name \in DOMAIN f : FileShape(f[name])
    /\ \A file \in MacroFiles : MacroFileShape(file)
    /\ Between \subseteq Batches

VARIABLES folder,     \* profile files, by the mode and slot of their names
          saved,      \* what the slots showed at the export the folder holds whole
          command,    \* who writes: none, the app, a restore, or another command
          done        \* which of export, app and command have run

cvars == <<folder, saved, command, done>>

NoFiles == [name \in {} |-> {}]

CliInit ==
    /\ Init
    /\ folder \in Folders
    /\ saved = NoFiles /\ command = "none" /\ done = {}

\* Bound: an export, a batch of the app and a command, in that order, at most. A command
\* that comes after the app is an upload-all.
Runs(what, after) ==
    /\ batch = <<>> /\ done \in after
    /\ done' = done \cup {what}

Alone == {{}}
Fresh == {{}, {"export"}}
Later == {{}, {"export"}, {"export", "app"}}

-----------------------------------------------------------------------------
(* Files.                                                                  *)

OneEach(macros) ==
    \A n, k \in DOMAIN macros : n # k => macros[n].triggers \cap macros[k].triggers = {}

\* The checks of the macros a profile file holds.
ValidMacros(macros) ==
    /\ DOMAIN macros \subseteq MacroSlots(model)
    /\ \A n \in DOMAIN macros : macros[n].steps # NoSteps
    /\ OneEach(macros)

\* A profile named "" is an empty slot of an older export, on a model with names.
IsEmptied(file) == file.blank /\ model \in RenamingModels

\* The macros can be taken from the file, or from the files it refers to.
TakesMacros(file) ==
    IF file.refers THEN \A n \in DOMAIN file.macros : file.macros[n].steps # NoSteps
    ELSE file.sound /\ ~IsEmptied(file) /\ ValidMacros(file.macros)

\* Mutant: the slot's other macros stay.
MacroPuts(file) ==
    SetToSeq({[at |-> n, macro |-> file.macros[n]] : n \in DOMAIN file.macros})

\* A put for each macro, a delete for every other macro slot.
FileMacroEdits(file) ==
    LET at(n) == [at |-> n,
                  macro |-> IF n \in DOMAIN file.macros THEN file.macros[n] ELSE Zeroed]
    IN  SetToSeq({at(n) : n \in DOMAIN file.macros \cup MacroSlots(model)})

-----------------------------------------------------------------------------
(* Export.                                                                 *)

HeldPlaces == {at \in Places : pad[at].used}

Exported(at) ==
    LET shown == View(pad[at])
    IN  [torn |-> FALSE, blank |-> FALSE, sound |-> TRUE, refers |-> FALSE,
         map |-> shown.map, macros |-> shown.macros]

Files(places) == [at \in places |-> Exported(at)]

\* The folder with these files in it.
Holding(files) ==
    [name \in DOMAIN files \cup DOMAIN folder |->
        IF name \in DOMAIN files THEN files[name] ELSE folder[name]]

Refused == UNCHANGED <<folder, saved>>

\* Every file is written, and then checked: the exit code is 0 if all are valid. Files of
\* slots that are no longer in use stay.
Saves ==
    /\ folder' = Holding(Files(HeldPlaces))
    /\ saved' = IF \A at \in HeldPlaces : ValidMacros(View(pad[at]).macros)
                THEN [at \in Places \ (DOMAIN folder \ HeldPlaces) |-> View(pad[at])]
                ELSE NoFiles

\* A file cannot be written whole: those before it are.
StopsHalfway ==
    \E torn \in HeldPlaces : \E written \in SUBSET HeldPlaces :
      /\ folder' = Holding([at \in written \cup {torn} |-> [Exported(at) EXCEPT !.torn = (at = torn)]])
      /\ saved' = NoFiles

Export(overwrite) ==
    /\ Runs("export", Alone)
    /\ IF ~overwrite /\ HeldPlaces \cap DOMAIN folder # {} THEN Refused
       ELSE Saves \/ StopsHalfway
    /\ UNCHANGED <<vars, command>>

-----------------------------------------------------------------------------
(* The commands that write.                                                *)

\* The command starts its batch, or is refused before anything is read or sent.
Command(after, who, refused, jobs, pol) ==
    /\ Runs("command", after)
    /\ IF refused THEN UNCHANGED <<vars, command>>
       ELSE /\ Starts(jobs, pol) /\ UNCHANGED asked
            /\ command' = who
    /\ UNCHANGED <<folder, saved>>

OneJob(after, refused, job, pol) == Command(after, "other", refused, <<job>>, pol)

JobAt(at, op) ==
    [mode |-> at[1], slot |-> at[2], op |-> op, map |-> Keep, drops |-> {}, edits |-> <<>>,
     button |-> CHOOSE b \in Buttons : TRUE, output |-> CHOOSE o \in Outputs : TRUE,
     sound |-> TRUE]

FileJob(at, file, withMacros) ==
    IF IsEmptied(file) THEN JobAt(at, "clear")
    ELSE [JobAt(at, "upload") EXCEPT
            !.map = file.map, !.sound = file.sound,
            !.edits = IF withMacros THEN FileMacroEdits(file) ELSE <<>>]

\* One bad file refuses them all, one for a place the pad has not too.
BadFile(name, withMacros) ==
    \/ name \notin Places
    \/ folder[name].torn
    \/ /\ withMacros /\ ~IsEmptied(folder[name])
       /\ ~TakesMacros(folder[name])

\* The files are for different slots, so their order does not matter.
UploadAll(withMacros, clearMissing, pol) ==
    LET names   == DOMAIN folder
        missing == IF clearMissing THEN Places \ names ELSE {}
        jobs    == SetToSeq({FileJob(n, folder[n], withMacros) : n \in names}
                            \cup {JobAt(at, "clear") : at \in missing})
    IN  Command(Later, IF withMacros /\ clearMissing THEN "restore" ELSE "other",
             (\E n \in names : BadFile(n, withMacros)) \/ names \cup missing = {},
             jobs, pol)

\* Any file, into any slot of its mode. Without its macros they are checked all the same.
Upload(name, at, withMacros, pol) ==
    LET file == folder[name]
        job  == [FileJob(at, [file EXCEPT !.blank = FALSE], withMacros) EXCEPT
                   !.sound = /\ @ /\ ~IsEmptied(file) /\ name[1] = at[1]
                             /\ \/ withMacros
                                \/ file.refers /\ OneEach(file.macros)
                                \/ ValidMacros(file.macros)]
    IN  OneJob(Fresh, file.torn \/ (withMacros /\ ~TakesMacros(file)), job, pol)

\* bank_refusal: a button that cannot start a macro beside the others.
BankRefuses(b, others, map) ==
    \/ \E n \in DOMAIN others : b \in others[n].triggers
    \/ map[b] # DefaultMap[b]

\* convert_macro: what another mode, or the slot, does not allow is dropped.
Converted(macro, others, map) ==
    [macro EXCEPT !.triggers = {b \in @ : ~BankRefuses(b, others, map)}, !.unknown = FALSE]

\* Without a macro slot (0) the first free one is taken. Macro slots are read for that,
\* and for a conversion.
WriteMacro(file, at, slot, convert, pol) ==
    LET holds  == at \in Places /\ pad[at].used
        held   == IF holds THEN MacrosOf(model, pad[at]) ELSE NoMacros
        map    == IF holds THEN MapOf(model, pad[at]) ELSE DefaultMap
        free   == MacroSlots(model) \ DOMAIN held
        n      == IF slot # 0 \/ free = {} THEN slot
                  ELSE CHOOSE m \in free : \A k \in free : m <= k
        others == [k \in DOMAIN held \ {n} |-> held[k]]
        moves  == file.mode # at[1]
        macro  == IF moves THEN Converted(file.macro, others, map) ELSE file.macro
    IN  OneJob(Alone,
               n = 0 \/ (moves /\ ~(convert /\ at[1] \in file.fits)),
               [JobAt(at, "upload") EXCEPT !.edits = <<[at |-> n, macro |-> macro]>>,
                                          !.sound = file.sound],
               pol)

DeleteMacroAt(at, n, pol) ==
    OneJob(Alone, FALSE,
           [JobAt(at, "upload") EXCEPT !.edits = <<[at |-> n, macro |-> Zeroed]>>], pol)

DeactivateSlot(at, pol) == OneJob(Alone, FALSE, JobAt(at, "clear"), pol)

RemapButton(at, b, o, pol) ==
    OneJob(Alone, FALSE, [JobAt(at, "remap") EXCEPT !.button = b, !.output = o], pol)

-----------------------------------------------------------------------------
(* The app's batches, and the rest of a batch.                             *)

AppBegins ==
    /\ Runs("app", Fresh)
    /\ IF done = {} THEN Begin
       ELSE (\E jobs \in Between : Starts(jobs, "force")) /\ UNCHANGED asked
    /\ command' = "app" /\ UNCHANGED <<folder, saved>>

Plans == PlanJob /\ UNCHANGED cvars

Ends == (RefuseBatch \/ Write) /\ command' = "none" /\ UNCHANGED <<folder, saved, done>>

CliNext ==
    \/ AppBegins \/ Plans \/ Ends
    \/ \E overwrite \in BOOLEAN : Export(overwrite)
    \/ \E withMacros, clearMissing \in BOOLEAN, pol \in Policies :
         UploadAll(withMacros, clearMissing, pol)
    \/ \E name \in DOMAIN folder, at \in Places, withMacros \in BOOLEAN, pol \in Policies :
         Upload(name, at, withMacros, pol)
    \/ \E file \in MacroFiles, at \in Places, n \in 0 .. MacroCount[model],
          convert \in BOOLEAN, pol \in Policies :
         WriteMacro(file, at, n, convert, pol)
    \/ \E at \in Places, pol \in Policies :
         \/ \E n \in MacroSlots(model) : DeleteMacroAt(at, n, pol)
         \/ DeactivateSlot(at, pol)
         \/ \E b \in Buttons, o \in Outputs : RemapButton(at, b, o, pol)

CliSpec == CliInit /\ [][CliNext]_<<vars, cvars>>

-----------------------------------------------------------------------------
(* Properties.                                                             *)

\* No saved macro has a trigger that presses another output: the validator does not check
\* that, and the batch refuses it.
PressesItsOwn(shown) ==
    \A n \in DOMAIN shown.macros : \A b \in shown.macros[n].triggers : shown.map[b] = DefaultMap[b]

Restoring == command = "restore" /\ saved # NoFiles

\* An export that ended well is a backup: whatever was written since, an upload-all of its
\* folder with macros, with the missing slots cleared, brings back what each slot showed,
\* slots with an older file aside; and forced, with no such file, it is never refused.
ExportComesBack ==
    [][ /\ (Restoring /\ Write) =>
             \A at \in DOMAIN saved : View(pad'[at]) = saved[at]
        /\ (Restoring /\ RefuseBatch /\ MustRefuse) =>
             \/ policy # "force" \/ DOMAIN saved # Places
             \/ \E at \in Places : ~PressesItsOwn(saved[at]) ]_<<vars, cvars>>

=============================================================================
