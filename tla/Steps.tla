------------------------------- MODULE Steps -------------------------------
(***************************************************************************)
(* The steps of a macro: what the editor keeps, what a pad records, and    *)
(* the edits of a step list.                                               *)
(*                                                                         *)
(* A step holds buttons, two sticks and two triggers for some time. A      *)
(* control in its `glide` moves in a straight line to where the next step  *)
(* holds it. A pad records no glides: Expand turns each into short steps   *)
(* (controller-core/src/model/glide.rs), Fold finds them again in what a   *)
(* pad recorded. The edits are those of gui/src/macro_steps.rs; each ends  *)
(* by dropping the glides that lead nowhere (Prune).                       *)
(*                                                                         *)
(* A stick is at a pair of values; a trigger has one value, kept twice.    *)
(* Steps count from 1 here and from 0 in the code.                         *)
(***************************************************************************)
EXTENDS Integers, Sequences, FiniteSets, SequencesExt

CONSTANTS Sticks, Triggers,   \* the controls that can glide
          StepButtons,        \* the other buttons a step can hold
          Rest, Full,         \* a stick at rest (127), the highest value (255)
          MaxMs,              \* the longest step (65535)
          NewStepMs,          \* the length of a new step (100)
          GlideStepMs,        \* the longest short step of a glide; 0: the pad has no glides
          MinFoldRun,         \* the fewest short steps read as a glide (3)
          MaxSteps            \* the most steps of a macro on the pad

ASSUME StepConstants ==
    /\ Sticks \cap Triggers = {}
    /\ Rest \in Nat /\ Full \in Nat /\ Rest < Full
    /\ MaxMs \in Nat /\ NewStepMs \in 0 .. MaxMs
    /\ GlideStepMs \in Nat /\ MinFoldRun \in Nat \ {0, 1} /\ MaxSteps \in Nat \ {0}

Controls == Sticks \cup Triggers
Position == (0 .. Full) \X (0 .. Full)

Step == [ms : 0 .. MaxMs, press : SUBSET StepButtons,
         at : [Controls -> Position], glide : SUBSET Controls]

\* MacroStep::default with a duration: sticks at rest, triggers let go.
RestStep(ms) ==
    [ms |-> ms, press |-> {}, glide |-> {},
     at |-> [c \in Controls |-> IF c \in Sticks THEN <<Rest, Rest>> ELSE <<0, 0>>]]

Least(a, b) == IF a < b THEN a ELSE b
Most(a, b) == IF a > b THEN a ELSE b

-----------------------------------------------------------------------------
(* Glides on the pad.                                                      *)

Apart(a, b) == Most(a, b) - Least(a, b)

LargestChange(step, next) ==
    Max({0} \cup {Apart(step.at[c][k], next.at[c][k]) : c \in step.glide, k \in 1 .. 2})

\* A value never repeats in a glide: no more short steps than values on the way.
ShortSteps(step, next) ==
    IF GlideStepMs = 0 THEN 1
    ELSE Most(1, Least((step.ms + GlideStepMs - 1) \div GlideStepMs,
                       LargestChange(step, next)))

Lerp(a, b, k, n) == (2 * (a * (n - k) + b * k) + n) \div (2 * n)

Along(from, to, k, n) == <<Lerp(from[1], to[1], k, n), Lerp(from[2], to[2], k, n)>>

ExpandStep(step, next) ==
    LET n    == ShortSteps(step, next)
        each == step.ms \div n
    IN  [k \in 1 .. n |->
            [step EXCEPT
                !.ms = IF k = n THEN step.ms - each * (n - 1) ELSE each,
                !.glide = {},
                !.at = [c \in Controls |->
                          IF c \in step.glide
                          THEN Along(step.at[c], next.at[c], k - 1, n)
                          ELSE step.at[c]]]]

Glides(steps, i) == i < Len(steps) /\ steps[i].glide # {}

\* What the pad records of `steps`.
Expand(steps) ==
    FlattenSeq([i \in 1 .. Len(steps) |->
                   IF Glides(steps, i) THEN ExpandStep(steps[i], steps[i + 1])
                   ELSE << [steps[i] EXCEPT !.glide = {}] >>])

ExpandedLen(steps) ==
    MapThenSumSet(LAMBDA i : IF Glides(steps, i) THEN ShortSteps(steps[i], steps[i + 1])
                             ELSE 1,
                  DOMAIN steps)

TotalMs(steps) == MapThenSumSet(LAMBDA i : steps[i].ms, DOMAIN steps)

\* The one gliding step that would play as `run` before `next`.
Folded(run) ==
    [run[1] EXCEPT !.ms = TotalMs(run),
                   !.glide = {c \in Controls :
                                \E i \in DOMAIN run : run[i].at[c] # run[1].at[c]}]

\* Mutant: any run of other values is a glide.
FoldsToAny(run, next) == Folded(run).glide # {} /\ Folded(run).ms <= MaxMs

FoldsTo(run, next) ==
    LET step == Folded(run)
    IN  step.glide # {} /\ step.ms <= MaxMs /\ ExpandStep(step, next) = run

\* The lengths of the runs from step i that fold: the same buttons, no glides, and a
\* step after them.
FoldLengths(steps, i) ==
    {n \in MinFoldRun .. Len(steps) - i :
        /\ \A j \in i .. i + n - 1 : steps[j].glide = {} /\ steps[j].press = steps[i].press
        /\ FoldsTo(SubSeq(steps, i, i + n - 1), steps[i + n])}

\* What the editor shows of recorded steps: from the first step on, the longest run that
\* folds is one gliding step.
Fold(steps) ==
    LET from[i \in 1 .. Len(steps) + 1] ==
          IF i > Len(steps) THEN <<>>
          ELSE LET lengths == FoldLengths(steps, i)
               IN  IF lengths = {} THEN <<steps[i]>> \o from[i + 1]
                   ELSE LET n == Max(lengths)
                        IN  <<Folded(SubSeq(steps, i, i + n - 1))>> \o from[i + n]
    IN  IF GlideStepMs = 0 THEN steps ELSE from[1]

-----------------------------------------------------------------------------
(* The edits of a step list.                                               *)

\* A glide leads to a step after it that holds the control elsewhere.
Leads(steps, i, c) == i < Len(steps) /\ steps[i + 1].at[c] # steps[i].at[c]

\* Mutant: the next step may hold the control where it is.
PruneEnd(steps) ==
    [steps EXCEPT ![Len(steps)].glide = {}]

Prune(steps) ==
    [i \in 1 .. Len(steps) |->
        [steps[i] EXCEPT !.glide = {c \in steps[i].glide : Leads(steps, i, c)}]]

AddAfter(steps, i) == Prune(InsertAt(steps, i + 1, RestStep(NewStepMs)))

Duplicate(steps, i) == Prune(InsertAt(steps, i + 1, steps[i]))

\* Where the control is half way through step i, rounded to the nearest value.
HalfWay(steps, i, c) ==
    LET half == steps[i].ms \div 2
        way(k) == (2 * (steps[i].at[c][k] * steps[i].ms
                        + (steps[i + 1].at[c][k] - steps[i].at[c][k]) * half) + steps[i].ms)
                  \div (2 * steps[i].ms)
    IN  IF i < Len(steps) /\ c \in steps[i].glide THEN <<way(1), way(2)>>
        ELSE steps[i].at[c]

\* A step of 2 ms or more becomes two: the second starts where the first was half way.
Split(steps, i) ==
    IF steps[i].ms < 2 THEN steps
    ELSE LET half   == steps[i].ms \div 2
             second == [steps[i] EXCEPT !.ms = @ - half,
                                        !.at = [c \in Controls |-> HalfWay(steps, i, c)]]
         IN  Prune(InsertAt([steps EXCEPT ![i].ms = half], i + 1, second))

Move(steps, i, j) ==
    IF j \notin DOMAIN steps THEN steps
    ELSE Prune([steps EXCEPT ![i] = steps[j], ![j] = steps[i]])

Delete(steps, i) == IF Len(steps) <= 1 THEN steps ELSE Prune(RemoveAt(steps, i))

-----------------------------------------------------------------------------
(* What the step table and the step panel show.                            *)

\* A row names a trigger while its value is above 0 or on its way from 0.
HoldsTrigger(step, c) == step.at[c][1] > 0 \/ c \in step.glide

HeldIn(step) == step.press \cup {c \in Triggers : HoldsTrigger(step, c)}

Lanes(steps) == UNION {HeldIn(steps[i]) : i \in DOMAIN steps}

IsPause(step) == step = RestStep(step.ms)

\* A stick is drawn away from rest, or on its way.
StickShown(steps, i, c) ==
    steps[i].at[c] # <<Rest, Rest>> \/ (i < Len(steps) /\ c \in steps[i].glide)

\* The row of each step; a lane joins the rows above and below that hold it too.
StepRows(steps) ==
    [i \in 1 .. Len(steps) |->
        LET held(j) == IF j \in DOMAIN steps THEN HeldIn(steps[j]) ELSE {}
        IN  [starts_at |-> TotalMs(SubSeq(steps, 1, i - 1)), pause |-> IsPause(steps[i]),
             held |-> held(i), joins_up |-> held(i - 1) \cap held(i),
             joins_down |-> held(i + 1) \cap held(i),
             sticks |-> {c \in Sticks : StickShown(steps, i, c)}]]

\* glide_box: the switch of a glide is there for a control with somewhere to glide to.
CanGlide(steps, i, c) == i < Len(steps) /\ steps[i].at[c] # steps[i + 1].at[c]

-----------------------------------------------------------------------------
(* What the checks say of a step list.                                     *)

\* glide_errors: a glide with no next step, to the value it has, or of a trigger that is
\* on or off; and more steps on the pad than it holds.
GlidesAreRight(steps, onOff) ==
    \A i \in DOMAIN steps : \A c \in steps[i].glide :
        Leads(steps, i, c) /\ ~(onOff /\ c \in Triggers)

StepsFit(steps) == ExpandedLen(steps) <= MaxSteps

=============================================================================
