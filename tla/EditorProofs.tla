---------------------------- MODULE EditorProofs ----------------------------
(***************************************************************************)
(* What Editor.tla is proved to keep, for every pad, every set of buttons, *)
(* macro slots and files, and every number and order of edits, reads and   *)
(* writes.                                                                 *)
(*                                                                         *)
(* The argument: the window has the button map and the macros of a slot    *)
(* apart, each as read and as edited, and the pad is a fifth account of    *)
(* them.  Synced says that what was read is what the pad has, the steps    *)
(* apart; InStep and JobIsShown say when it holds.  Neat says that each    *)
(* button of the edited macros is in one of them and has its default       *)
(* output, and that an import which waits for a yes would not change that. *)
(* Neat alone is kept by no edit: a macro's first edit copies the macros   *)
(* as read, Revert puts buttons back from them, and an import of a map     *)
(* keeps the macros of the pad.  So Fits says the same of the pad's own:   *)
(* a button that starts a macro there has its default output wherever the  *)
(* window, or an import, has it start one.  With Plan's Sound and Faithful *)
(* (what a batch plans is what its jobs asked) these are inductive, EInv.  *)
(*                                                                         *)
(* One lemma per edit says what the slot is after it, one per action       *)
(* carries EInv through it.                                                *)
(***************************************************************************)
EXTENDS Editor, PlanProofs, SequenceTheorems

-------------------------------------------------------------------------------
(***************************************************************************)
(* Macros and their descriptors.                                           *)
(***************************************************************************)
LEMMA DraftIs ==
  ASSUME NEW m, NEW f
  PROVE  f \in Drafts(m) <=> DOMAIN f \subseteq MacroSlots(m) /\ f \in [DOMAIN f -> ValidMacro]
<1>1. ASSUME f \in Drafts(m)
      PROVE  DOMAIN f \subseteq MacroSlots(m) /\ f \in [DOMAIN f -> ValidMacro]
  <2>1. PICK S \in SUBSET MacroSlots(m) : f \in [S -> ValidMacro]
    BY <1>1 DEF Drafts
  <2> QED
    BY <2>1
<1>2. ASSUME DOMAIN f \subseteq MacroSlots(m), f \in [DOMAIN f -> ValidMacro]
      PROVE  f \in Drafts(m)
  BY <1>2 DEF Drafts
<1> QED
  BY <1>1, <1>2

LEMMA NoDraft ==
  ASSUME NEW m \in Models, NEW f \in Drafts(m)
  PROVE  f # Nothing
BY EditorConstants

\* A valid macro stays one with other triggers or other steps.
LEMMA ValidIs ==
  ASSUME NEW v \in ValidMacro
  PROVE  /\ v \in Macro /\ v.triggers \in SUBSET Buttons /\ v # Zeroed /\ Encoded(v) = v
         /\ v.steps \in StepLists \ {NoSteps} /\ v.unknown = FALSE
         /\ v = [triggers |-> v.triggers, unknown |-> FALSE, steps |-> v.steps]
<1>1. v \in Macro /\ v.steps # NoSteps /\ v.unknown = FALSE
  BY DEF ValidMacro, Macro
<1> QED
  BY <1>1 DEF Macro, Zeroed, Encoded

LEMMA MadeValid ==
  ASSUME NEW bs \in SUBSET Buttons, NEW l \in StepLists \ {NoSteps}
  PROVE  [triggers |-> bs, unknown |-> FALSE, steps |-> l] \in ValidMacro
BY DEF ValidMacro, Macro

LEMMA OtherTriggers ==
  ASSUME NEW v \in ValidMacro, NEW bs \in SUBSET Buttons, NEW w, w = [v EXCEPT !.triggers = bs]
  PROVE  w \in ValidMacro /\ w.triggers = bs /\ w.steps = v.steps
<1>1. v \in Macro /\ v.unknown = FALSE /\ v.steps # NoSteps
  BY ValidIs
<1>2. w \in Macro /\ w.triggers = bs /\ w.unknown = FALSE /\ w.steps = v.steps
  BY <1>1 DEF Macro
<1> QED
  BY <1>1, <1>2 DEF ValidMacro

LEMMA OtherSteps ==
  ASSUME NEW v \in ValidMacro, NEW l \in StepLists \ {NoSteps}, NEW w, w = [v EXCEPT !.steps = l]
  PROVE  w \in ValidMacro /\ w.triggers = v.triggers /\ w.steps = l
<1>1. v \in Macro /\ v.unknown = FALSE
  BY ValidIs
<1>2. w \in Macro /\ w.triggers = v.triggers /\ w.unknown = FALSE /\ w.steps = l
  BY <1>1 DEF Macro
<1> QED
  BY <1>2 DEF ValidMacro

\* Two macros are the same, or have the same descriptor, by their triggers and steps.
LEMMA SameMacro ==
  ASSUME NEW v \in ValidMacro, NEW w \in ValidMacro
  PROVE  v = w <=> v.triggers = w.triggers /\ v.steps = w.steps
BY ValidIs

LEMMA DescriptorIs ==
  ASSUME NEW v \in ValidMacro
  PROVE  /\ Descriptor(v) \in ValidMacro /\ Descriptor(v).triggers = v.triggers
         /\ Descriptor(v).steps = Placeholder[v.steps] /\ Descriptor(Descriptor(v)) = Descriptor(v)
<1>1. PICK d : d = Descriptor(v)
  OBVIOUS
<1>2. v.steps \in StepLists \ {NoSteps}
  BY ValidIs
<1>3. /\ Placeholder[v.steps] \in StepLists \ {NoSteps}
      /\ Placeholder[Placeholder[v.steps]] = Placeholder[v.steps]
  BY <1>2, EditorConstants
<1>4. d = [v EXCEPT !.steps = Placeholder[v.steps]]
  BY <1>1 DEF Descriptor
<1>5. d \in ValidMacro /\ d.triggers = v.triggers /\ d.steps = Placeholder[v.steps]
  BY <1>3, <1>4, OtherSteps
<1>6. PICK e : e = Descriptor(d)
  OBVIOUS
<1>7. Placeholder[d.steps] = d.steps /\ d.steps \in StepLists \ {NoSteps}
  BY <1>3, <1>5
<1>8. e = [d EXCEPT !.steps = d.steps]
  BY <1>6, <1>7 DEF Descriptor
<1>9. e \in ValidMacro /\ e.triggers = d.triggers /\ e.steps = d.steps
  BY <1>5, <1>7, <1>8, OtherSteps
<1>10. e = d
  BY <1>5, <1>9, SameMacro
<1> QED
  BY <1>1, <1>5, <1>6, <1>10

LEMMA SameDescriptor ==
  ASSUME NEW v \in ValidMacro, NEW w \in ValidMacro
  PROVE  Descriptor(v) = Descriptor(w)
           <=> v.triggers = w.triggers /\ Placeholder[v.steps] = Placeholder[w.steps]
<1>1. PICK d \in ValidMacro : d = Descriptor(v) /\ d.triggers = v.triggers /\ d.steps = Placeholder[v.steps]
  BY DescriptorIs
<1>2. PICK e \in ValidMacro : e = Descriptor(w) /\ e.triggers = w.triggers /\ e.steps = Placeholder[w.steps]
  BY DescriptorIs
<1> QED
  BY <1>1, <1>2, SameMacro

-------------------------------------------------------------------------------
(***************************************************************************)
(* Macros by macro slot.                                                   *)
(***************************************************************************)
LEMMA DescriptorsAre ==
  ASSUME NEW m, NEW f \in Drafts(m), NEW g, g = Descriptors(f)
  PROVE  g \in Drafts(m) /\ DOMAIN g = DOMAIN f /\ \A n \in DOMAIN f : g[n] = Descriptor(f[n])
<1>1. DOMAIN f \subseteq MacroSlots(m) /\ f \in [DOMAIN f -> ValidMacro]
  BY DraftIs
<1>2. DOMAIN g = DOMAIN f /\ \A n \in DOMAIN f : g[n] = Descriptor(f[n])
  BY DEF Descriptors
<1>3. \A n \in DOMAIN f : g[n] \in ValidMacro
  BY <1>1, <1>2, DescriptorIs
<1>4. g = [n \in DOMAIN g |-> g[n]]
  BY DEF Descriptors
<1>5. g \in [DOMAIN g -> ValidMacro]
  BY <1>2, <1>3, <1>4
<1> QED
  BY <1>1, <1>2, <1>5, DraftIs

LEMMA WithoutDraft ==
  ASSUME NEW m, NEW f \in Drafts(m), NEW bs, NEW g, g = Without(f, bs)
  PROVE  /\ g \in Drafts(m) /\ DOMAIN g = DOMAIN f
         /\ \A n \in DOMAIN f : g[n].triggers = f[n].triggers \ bs /\ g[n].steps = f[n].steps
<1>1. DOMAIN f \subseteq MacroSlots(m) /\ f \in [DOMAIN f -> ValidMacro]
  BY DraftIs
<1>2. DOMAIN g = DOMAIN f /\ \A n \in DOMAIN f : g[n] = [f[n] EXCEPT !.triggers = f[n].triggers \ bs]
  BY DEF Without
<1>3. ASSUME NEW n \in DOMAIN f
      PROVE  g[n] \in ValidMacro /\ g[n].triggers = f[n].triggers \ bs /\ g[n].steps = f[n].steps
  <2>1. PICK v : v = f[n]
    OBVIOUS
  <2>2. PICK c : c = v.triggers \ bs
    OBVIOUS
  <2>3. v \in ValidMacro /\ c \in SUBSET Buttons
    BY <1>1, <2>1, <2>2, ValidIs
  <2>4. g[n] = [v EXCEPT !.triggers = c]
    BY <1>2, <2>1, <2>2
  <2> QED
    BY <2>1, <2>2, <2>3, <2>4, OtherTriggers
<1>4. g = [n \in DOMAIN g |-> g[n]]
  BY DEF Without
<1>5. g \in [DOMAIN g -> ValidMacro]
  BY <1>2, <1>3, <1>4
<1> QED
  BY <1>1, <1>2, <1>3, <1>5, DraftIs

\* Two drafts are the same macro by macro.
LEMMA SameDraft ==
  ASSUME NEW m, NEW f \in Drafts(m), NEW g \in Drafts(m), DOMAIN f = DOMAIN g,
         \A n \in DOMAIN f : f[n] = g[n]
  PROVE  f = g
<1>1. f \in [DOMAIN f -> ValidMacro] /\ g \in [DOMAIN g -> ValidMacro]
  BY DraftIs
<1> QED
  BY <1>1

LEMMA StartersAre ==
  ASSUME NEW f, NEW b
  PROVE  b \in TriggersOf(f) <=> \E n \in DOMAIN f : b \in f[n].triggers
BY DEF TriggersOf

\* The macro a button starts is the lowest that has it.
LEMMA FirstOne ==
  ASSUME NEW m, NEW f \in Drafts(m), NEW b, NEW n, n = FirstOf(f, b)
  PROVE  /\ b \notin TriggersOf(f) => n = Nothing
         /\ b \in TriggersOf(f) =>
              /\ n \in DOMAIN f /\ b \in f[n].triggers /\ n # Nothing
              /\ \A k \in DOMAIN f : b \in f[k].triggers => n <= k
<1>1. DOMAIN f \subseteq Nat
  BY DraftIs DEF MacroSlots
<1>2. PICK ns : ns = {k \in DOMAIN f : b \in f[k].triggers}
  OBVIOUS
<1>3. n = IF ns = {} THEN Nothing ELSE CHOOSE k \in ns : \A l \in ns : k <= l
  BY <1>2 DEF FirstOf
<1>4. b \in TriggersOf(f) <=> ns # {}
  BY <1>2, StartersAre
<1>5. CASE ns = {}
  BY <1>3, <1>4, <1>5
<1>6. CASE ns # {}
  <2>1. ns \in SUBSET Nat
    BY <1>1, <1>2
  <2>2. \E k \in ns : \A l \in ns : k <= l
    BY <1>6, <2>1, LeastNumber
  <2>3. n \in ns /\ \A l \in ns : n <= l
    BY <1>3, <1>6, <2>2
  <2>4. n # Nothing
    BY <2>1, <2>3, EditorConstants
  <2> QED
    BY <1>2, <1>4, <1>6, <2>3, <2>4
<1> QED
  BY <1>5, <1>6

-------------------------------------------------------------------------------
(***************************************************************************)
(* The macros a profile names.                                             *)
(***************************************************************************)
Ref == [at : Nat, triggers : SUBSET Buttons]
Profiles(m) == {p \in Profile : \A k \in DOMAIN p.refs : p.refs[k].at \in MacroSlots(m)}

\* References that name macro slots of the model.
RefsOK(m, r) == r \in Seq(Ref) /\ \A k \in DOMAIN r : r[k].at \in MacroSlots(m)

LEMMA ProfileIs ==
  ASSUME NEW m, NEW p \in Profiles(m)
  PROVE  /\ p \in Profile /\ p.map \in [Buttons -> Outputs] /\ p # Nothing /\ RefsOK(m, p.refs)
         /\ p = [map |-> p.map, refs |-> p.refs]
<1>1. p \in Profile /\ \A k \in DOMAIN p.refs : p.refs[k].at \in MacroSlots(m)
  BY DEF Profiles
<1>2. p.map \in [Buttons -> Outputs] /\ p.refs \in Seq(Ref) /\ p = [map |-> p.map, refs |-> p.refs]
  BY <1>1 DEF Profile, Ref
<1>3. p # Nothing
  BY <1>1, EditorConstants
<1> QED
  BY <1>1, <1>2, <1>3 DEF RefsOK

LEMMA ProfileMade ==
  ASSUME NEW m, NEW map \in [Buttons -> Outputs], NEW r, RefsOK(m, r), NEW p, p = [map |-> map, refs |-> r]
  PROVE  p \in Profiles(m) /\ p.map = map /\ p.refs = r /\ p # Nothing
<1>1. p \in Profile /\ p.map = map /\ p.refs = r
  BY DEF Profile, Ref, RefsOK
<1>2. p # Nothing
  BY <1>1, EditorConstants
<1> QED
  BY <1>1, <1>2 DEF Profiles, RefsOK

LEMMA RefIs ==
  ASSUME NEW m, NEW r, RefsOK(m, r), NEW k \in DOMAIN r
  PROVE  /\ r[k] \in Ref /\ r[k].at \in MacroSlots(m) /\ r[k].triggers \in SUBSET Buttons
         /\ r[k] = [at |-> r[k].at, triggers |-> r[k].triggers]
<1>1. r[k] \in Ref
  <2>1. r \in Seq(Ref)
    BY DEF RefsOK
  <2>2. DOMAIN r = 1..Len(r)
    BY <2>1, LenProperties
  <2> QED
    BY <2>1, <2>2, ElementOfSeq
<1>2. r[k].triggers \in SUBSET Buttons /\ r[k] = [at |-> r[k].at, triggers |-> r[k].triggers]
  BY <1>1 DEF Ref
<1> QED
  BY <1>1, <1>2 DEF RefsOK

\* References with other triggers.
LEMMA RefsMade ==
  ASSUME NEW m, NEW r, RefsOK(m, r), NEW T, \A k \in DOMAIN r : T[k] \in SUBSET Buttons,
         NEW u, u = [k \in DOMAIN r |-> [at |-> r[k].at, triggers |-> T[k]]]
  PROVE  RefsOK(m, u) /\ DOMAIN u = DOMAIN r
         /\ \A k \in DOMAIN r : u[k].at = r[k].at /\ u[k].triggers = T[k]
<1>1. PICK n : n = Len(r)
  OBVIOUS
<1>2. n \in Nat /\ DOMAIN r = 1..n
  BY <1>1, LenProperties DEF RefsOK
<1>3. ASSUME NEW k \in DOMAIN r
      PROVE  u[k] \in Ref /\ u[k].at = r[k].at /\ u[k].triggers = T[k] /\ u[k].at \in MacroSlots(m)
  <2>1. PICK a : a = r[k].at
    OBVIOUS
  <2>2. a \in Nat /\ a \in MacroSlots(m)
    BY <2>1, RefIs DEF Ref
  <2>3. u[k] = [at |-> a, triggers |-> T[k]] /\ T[k] \in SUBSET Buttons
    BY <2>1
  <2> QED
    BY <2>1, <2>2, <2>3 DEF Ref
<1>4. u \in [1..n -> Ref]
  BY <1>2, <1>3
<1>5. u \in Seq(Ref)
  BY <1>2, <1>4, SeqDef
<1> QED
  BY <1>3, <1>5 DEF RefsOK

LEMMA NamedIn ==
  ASSUME NEW p, p # Nothing, NEW b
  PROVE  b \in RefTriggers(p) <=> \E k \in DOMAIN p.refs : b \in p.refs[k].triggers
BY DEF RefTriggers

\* A profile with another map, and one whose macros lost buttons.
LEMMA OtherMap ==
  ASSUME NEW m, NEW p \in Profiles(m), NEW map \in [Buttons -> Outputs],
         NEW q, q = [map |-> map, refs |-> p.refs]
  PROVE  q \in Profiles(m) /\ RefTriggers(q) = RefTriggers(p)
<1>1. q \in Profiles(m) /\ q.refs = p.refs /\ q # Nothing /\ p # Nothing
  BY ProfileIs, ProfileMade
<1> QED
  BY <1>1 DEF RefTriggers

LEMMA LessRefs ==
  ASSUME NEW m, NEW r, RefsOK(m, r), NEW bs, NEW u, u = WithoutRefs(r, bs)
  PROVE  RefsOK(m, u) /\ DOMAIN u = DOMAIN r
         /\ \A k \in DOMAIN r : u[k].at = r[k].at /\ u[k].triggers = r[k].triggers \ bs
<1>5. PICK T : T = [k \in DOMAIN r |-> r[k].triggers \ bs]
  OBVIOUS
<1>1. \A k \in DOMAIN r : T[k] \in SUBSET Buttons
  BY <1>5, RefIs
<1>2. ASSUME NEW k \in DOMAIN r
      PROVE  [r[k] EXCEPT !.triggers = @ \ bs] = [at |-> r[k].at, triggers |-> T[k]]
  <2>1. PICK a, t : a = r[k].at /\ t = r[k].triggers
    OBVIOUS
  <2>2. PICK c : c = r[k]
    OBVIOUS
  <2>3. c = [at |-> a, triggers |-> t]
    BY <2>1, <2>2, RefIs, Zenon
  <2>4. [c EXCEPT !.triggers = c.triggers \ bs] = [at |-> a, triggers |-> t \ bs]
    BY <2>3
  <2> QED
    BY <1>5, <2>1, <2>2, <2>4
<1>3. u = [k \in DOMAIN r |-> [at |-> r[k].at, triggers |-> T[k]]]
  BY <1>2 DEF WithoutRefs
<1>4. RefsOK(m, u) /\ DOMAIN u = DOMAIN r
      /\ \A k \in DOMAIN r : u[k].at = r[k].at /\ u[k].triggers = T[k]
  BY <1>1, <1>3, RefsMade
<1> QED
  BY <1>4, <1>5

LEMMA RefsLeft ==
  ASSUME NEW m, NEW p \in Profiles(m), NEW bs, NEW q, q = [map |-> p.map, refs |-> WithoutRefs(p.refs, bs)]
  PROVE  q \in Profiles(m) /\ q.map = p.map /\ RefTriggers(q) = RefTriggers(p) \ bs
<1>1. PICK r : r = p.refs
  OBVIOUS
<1>2. p.map \in [Buttons -> Outputs] /\ p # Nothing /\ RefsOK(m, r)
  BY <1>1, ProfileIs
<1>3. PICK u : u = WithoutRefs(r, bs)
  OBVIOUS
<1>4. RefsOK(m, u) /\ DOMAIN u = DOMAIN r /\ \A k \in DOMAIN r : u[k].triggers = r[k].triggers \ bs
  BY <1>2, <1>3, LessRefs
<1>5. q = [map |-> p.map, refs |-> u]
  BY <1>1, <1>3
<1>6. q \in Profiles(m) /\ q.map = p.map /\ q.refs = u /\ q # Nothing
  BY <1>2, <1>4, <1>5, ProfileMade
<1>7. ASSUME NEW b PROVE b \in RefTriggers(q) <=> b \in RefTriggers(p) /\ b \notin bs
  BY <1>1, <1>2, <1>4, <1>6, NamedIn
<1> QED
  BY <1>6, <1>7

-------------------------------------------------------------------------------
(***************************************************************************)
(* A slot, and what the edits make of it.                                  *)
(***************************************************************************)
HeldMacro == [def : ValidMacro, loaded : BOOLEAN]

\* The parts of a slot: the profile read and the edited one, the macros held and the
\* edited ones.
PartsOK(m, p, e, h, d) ==
  /\ p \in Profiles(m) \cup {Nothing} /\ e \in Profiles(m) \cup {Nothing}
  /\ DOMAIN h \subseteq MacroSlots(m) /\ h \in [DOMAIN h -> HeldMacro]
  /\ d \in Drafts(m) \cup {Nothing}
SlotWith(p, e, h, d) == [pad |-> p, edited |-> e, macros |-> h, draft |-> d]
SlotOK(m, sl) ==
  /\ sl = SlotWith(sl.pad, sl.edited, sl.macros, sl.draft)
  /\ PartsOK(m, sl.pad, sl.edited, sl.macros, sl.draft)

\* The same reads, whatever is edited.
SameBase(sl, new) == new.pad = sl.pad /\ new.macros = sl.macros

LEMMA SlotMade ==
  ASSUME NEW m, NEW p, NEW e, NEW h, NEW d, PartsOK(m, p, e, h, d), NEW sl, sl = SlotWith(p, e, h, d)
  PROVE  SlotOK(m, sl) /\ sl.pad = p /\ sl.edited = e /\ sl.macros = h /\ sl.draft = d
<1>1. sl.pad = p /\ sl.edited = e /\ sl.macros = h /\ sl.draft = d
  BY DEF SlotWith
<1> QED
  BY <1>1 DEF SlotOK

BothTo(sl, x, y) == [sl EXCEPT !.edited = x, !.draft = y]
LEMMA BothExcept ==
  ASSUME NEW p, NEW e, NEW h, NEW d, NEW sl, sl = SlotWith(p, e, h, d), NEW x, NEW y
  PROVE  BothTo(sl, x, y) = SlotWith(p, x, h, y)
<1> DEFINE Fields == {"pad", "edited", "macros", "draft"}
<1>1. PICK a : a = [sl EXCEPT !.edited = x, !.draft = y]
  OBVIOUS
<1>2. a.pad = p /\ a.edited = x /\ a.macros = h /\ a.draft = y /\ DOMAIN a = Fields
  BY <1>1 DEF SlotWith
<1>3. a = [f \in Fields |-> a[f]]
  BY <1>1, <1>2 DEF SlotWith
<1>4. PICK c : c = SlotWith(p, x, h, y)
  OBVIOUS
<1>5. c.pad = p /\ c.edited = x /\ c.macros = h /\ c.draft = y /\ c = [f \in Fields |-> c[f]]
  BY <1>4 DEF SlotWith
<1>6. a = c
  BY <1>2, <1>3, <1>5
<1> QED
  BY <1>1, <1>4, <1>6 DEF BothTo

LEMMA ProfileExcept ==
  ASSUME NEW m, NEW r, NEW p, p = [map |-> m, refs |-> r], NEW x
  PROVE  /\ [p EXCEPT !.map = x] = [map |-> x, refs |-> r]
         /\ [p EXCEPT !.refs = x] = [map |-> m, refs |-> x]
OBVIOUS

\* The macros the controller holds.
LEMMA HeldAre ==
  ASSUME NEW m, NEW sl, SlotOK(m, sl), NEW f, f = HeldMacros(sl)
  PROVE  /\ f \in Drafts(m) /\ DOMAIN f = DOMAIN sl.macros
         /\ \A n \in DOMAIN f : f[n] = sl.macros[n].def
<1>1. PICK h : h = sl.macros
  OBVIOUS
<1>2. DOMAIN h \subseteq MacroSlots(m) /\ h \in [DOMAIN h -> HeldMacro]
  BY <1>1 DEF SlotOK, PartsOK
<1>3. f = [n \in DOMAIN h |-> h[n].def]
  BY <1>1 DEF HeldMacros
<1>4. \A n \in DOMAIN h : h[n].def \in ValidMacro
  BY <1>2 DEF HeldMacro
<1>5. f \in [DOMAIN h -> ValidMacro] /\ DOMAIN f = DOMAIN h
  BY <1>3, <1>4
<1> QED
  BY <1>1, <1>2, <1>3, <1>5, DraftIs

LEMMA ShownAre ==
  ASSUME NEW m, NEW sl, SlotOK(m, sl)
  PROVE  /\ Shown(sl) \in Profiles(m) \cup {Nothing} /\ ShownMacros(sl) \in Drafts(m)
         /\ AsShown(sl) \in Drafts(m) /\ DOMAIN AsShown(sl) = DOMAIN ShownMacros(sl)
<1>1. sl.pad \in Profiles(m) \cup {Nothing} /\ sl.edited \in Profiles(m) \cup {Nothing}
      /\ sl.draft \in Drafts(m) \cup {Nothing}
  BY DEF SlotOK, PartsOK
<1>2. HeldMacros(sl) \in Drafts(m)
  BY HeldAre
<1>3. /\ Without(HeldMacros(sl), Dropped(sl)) \in Drafts(m)
      /\ DOMAIN Without(HeldMacros(sl), Dropped(sl)) = DOMAIN HeldMacros(sl)
  BY <1>2, WithoutDraft
<1> QED
  BY <1>1, <1>2, <1>3 DEF Shown, ShownMacros, AsShown

\* Any other draft, and any other profile.
LEMMA DraftEdited ==
  ASSUME NEW m, NEW sl, SlotOK(m, sl), NEW f \in Drafts(m) \cup {Nothing},
         NEW new, new = [sl EXCEPT !.draft = f]
  PROVE  SlotOK(m, new) /\ SameBase(sl, new) /\ new.draft = f /\ new.edited = sl.edited
<1>1. PICK p, e, h, d : p = sl.pad /\ e = sl.edited /\ h = sl.macros /\ d = sl.draft
  OBVIOUS
<1>2. sl = SlotWith(p, e, h, d) /\ PartsOK(m, p, e, h, d)
  BY <1>1 DEF SlotOK
<1>3. new = SlotWith(p, e, h, f)
  BY <1>2 DEF SlotWith
<1>4. PartsOK(m, p, e, h, f)
  BY <1>2 DEF PartsOK
<1> QED
  BY <1>1, <1>3, <1>4, SlotMade DEF SameBase

LEMMA BothEdited ==
  ASSUME NEW m, NEW sl, SlotOK(m, sl), NEW f \in Drafts(m) \cup {Nothing},
         NEW q \in Profiles(m) \cup {Nothing},
         NEW new, new = SlotWith(sl.pad, q, sl.macros, f)
  PROVE  SlotOK(m, new) /\ SameBase(sl, new) /\ new.draft = f /\ new.edited = q
<1>1. PICK p, e, h, d : p = sl.pad /\ e = sl.edited /\ h = sl.macros /\ d = sl.draft
  OBVIOUS
<1>2. PartsOK(m, p, e, h, d)
  BY <1>1 DEF SlotOK
<1>3. PartsOK(m, p, q, h, f)
  BY <1>2 DEF PartsOK
<1> QED
  BY <1>1, <1>3, SlotMade DEF SameBase

\* Buttons leave their macros.
LEMMA LeftIs ==
  ASSUME NEW m, NEW sl, SlotOK(m, sl), NEW bs, NEW new, new = LeaveMacros(sl, bs)
  PROVE  /\ SlotOK(m, new) /\ SameBase(sl, new)
         /\ new.draft = IF sl.draft = Nothing THEN Nothing ELSE Without(sl.draft, bs)
         /\ Shown(sl) = Nothing => new.edited = Nothing
         /\ Shown(sl) # Nothing => /\ new.edited \in Profiles(m) /\ new.edited.map = Shown(sl).map
                                   /\ RefTriggers(new.edited) = RefTriggers(Shown(sl)) \ bs
<1>1. PICK p, e, h, d : p = sl.pad /\ e = sl.edited /\ h = sl.macros /\ d = sl.draft
  OBVIOUS
<1>2. sl = SlotWith(p, e, h, d) /\ PartsOK(m, p, e, h, d)
  BY <1>1 DEF SlotOK
<1>3. PICK s : s = Shown(sl)
  OBVIOUS
<1>4. s \in Profiles(m) \cup {Nothing}
  BY <1>3, ShownAre
<1>5. PICK q : q = IF s = Nothing THEN Nothing ELSE [s EXCEPT !.refs = WithoutRefs(s.refs, bs)]
  OBVIOUS
<1>6. PICK f : f = IF d = Nothing THEN Nothing ELSE Without(d, bs)
  OBVIOUS
<1>7. new = SlotWith(p, q, h, f)
  <2>1. new = [sl EXCEPT !.edited = q, !.draft = f]
    BY <1>1, <1>2, <1>3, <1>5, <1>6 DEF LeaveMacros, SlotWith
  <2>2. new = BothTo(sl, q, f)
    BY <2>1 DEF BothTo
  <2> QED
    BY <1>2, <2>2, BothExcept
<1>8. ASSUME s # Nothing
      PROVE  q \in Profiles(m) /\ q.map = s.map /\ RefTriggers(q) = RefTriggers(s) \ bs
  <2>1. s \in Profiles(m) /\ s = [map |-> s.map, refs |-> s.refs]
    BY <1>4, <1>8, ProfileIs
  <2>2. PICK mp, r : mp = s.map /\ r = s.refs
    OBVIOUS
  <2>3. q = [map |-> s.map, refs |-> WithoutRefs(s.refs, bs)]
    BY <1>5, <1>8, <2>1, <2>2, ProfileExcept
  <2> QED
    BY <2>1, <2>3, RefsLeft
<1>9. f \in Drafts(m) \cup {Nothing}
  BY <1>2, <1>6, WithoutDraft DEF PartsOK
<1>10. q \in Profiles(m) \cup {Nothing}
  BY <1>5, <1>8
<1>11. SlotOK(m, new) /\ SameBase(sl, new) /\ new.draft = f /\ new.edited = q
  BY <1>1, <1>7, <1>9, <1>10, BothEdited
<1> QED
  BY <1>1, <1>3, <1>5, <1>6, <1>8, <1>11

MapTo(sl, b, output) == [sl EXCEPT !.edited.map[b] = output]
LEMMA MappedIs ==
  ASSUME NEW p, NEW mp, NEW r, NEW h, NEW d, NEW left, NEW b, NEW output,
         left = SlotWith(p, [map |-> mp, refs |-> r], h, d)
  PROVE  MapTo(left, b, output)
           = SlotWith(p, [map |-> [mp EXCEPT ![b] = output], refs |-> r], h, d)
<1>1. left.edited = [map |-> mp, refs |-> r] /\ left.edited.map = mp
  BY DEF SlotWith
<1>2. PICK to : to = [mp EXCEPT ![b] = output]
  OBVIOUS
<1>3. PICK q : q = [left.edited EXCEPT !.map = to]
  OBVIOUS
<1>4. q = [map |-> to, refs |-> r]
  BY <1>1, <1>3
<1>5. [left EXCEPT !.edited.map[b] = output] = [left EXCEPT !.edited = q]
  BY <1>1, <1>2, <1>3
<1>6. [left EXCEPT !.edited = q] = SlotWith(p, q, h, d)
  BY DEF SlotWith
<1> QED
  BY <1>2, <1>4, <1>5, <1>6 DEF MapTo

\* A button is mapped, and leaves its macro.
IsMappedFrom(m, sl, b, output, new) ==
  /\ SlotOK(m, new) /\ SameBase(sl, new)
  /\ new.draft = IF sl.draft = Nothing THEN Nothing ELSE Without(sl.draft, {b})
  /\ new.edited \in Profiles(m)
  /\ \A c \in Buttons : new.edited.map[c] = IF c = b THEN output ELSE Shown(sl).map[c]
  /\ RefTriggers(new.edited) = RefTriggers(Shown(sl)) \ {b}
LEMMA SetOutputIs ==
  ASSUME NEW m, NEW sl, SlotOK(m, sl), Shown(sl) # Nothing, NEW b, NEW output \in Outputs,
         NEW new, new = SetOutput(sl, b, output)
  PROVE  IsMappedFrom(m, sl, b, output, new)
<1>1. PICK left : left = LeaveMacros(sl, {b})
  OBVIOUS
<1>2. /\ SlotOK(m, left) /\ SameBase(sl, left)
      /\ left.draft = IF sl.draft = Nothing THEN Nothing ELSE Without(sl.draft, {b})
      /\ left.edited \in Profiles(m) /\ left.edited.map = Shown(sl).map
      /\ RefTriggers(left.edited) = RefTriggers(Shown(sl)) \ {b}
  BY <1>1, LeftIs
<1>3. PICK p, e, h, d : p = left.pad /\ e = left.edited /\ h = left.macros /\ d = left.draft
  OBVIOUS
<1>4. left = SlotWith(p, e, h, d)
  BY <1>2, <1>3 DEF SlotOK
<1>5. e \in Profiles(m) /\ e.map \in [Buttons -> Outputs] /\ e = [map |-> e.map, refs |-> e.refs]
  BY <1>2, <1>3, ProfileIs
<1>6. PICK mp, r : mp = e.map /\ r = e.refs
  OBVIOUS
<1>7. PICK to : to = [mp EXCEPT ![b] = output]
  OBVIOUS
<1>8. PICK q : q = [map |-> to, refs |-> r]
  OBVIOUS
<1>9. to \in [Buttons -> Outputs] /\ q = [map |-> to, refs |-> e.refs]
  BY <1>5, <1>6, <1>7, <1>8
<1>10. q \in Profiles(m) /\ q.map = to /\ RefTriggers(q) = RefTriggers(e)
  BY <1>5, <1>8, <1>9, OtherMap, ProfileMade, ProfileIs
<1>11. left = SlotWith(p, [map |-> mp, refs |-> r], h, d)
  BY <1>4, <1>5, <1>6
<1>12. new = SlotWith(p, q, h, d)
  <2>1. new = MapTo(left, b, output)
    BY <1>1 DEF SetOutput, MapTo
  <2> QED
    BY <1>7, <1>8, <1>11, <2>1, MappedIs
<1>13. d \in Drafts(m) \cup {Nothing}
  BY <1>2, <1>3 DEF SlotOK, PartsOK
<1>14. SlotOK(m, new) /\ SameBase(left, new) /\ new.draft = d /\ new.edited = q
  <2>1. new = SlotWith(left.pad, q, left.macros, d)
    BY <1>3, <1>12
  <2> QED
    BY <1>2, <1>10, <1>13, <2>1, BothEdited
<1>15. \A c \in Buttons : to[c] = IF c = b THEN output ELSE mp[c]
  BY <1>5, <1>6, <1>7
<1> QED
  BY <1>2, <1>3, <1>6, <1>10, <1>14, <1>15 DEF SameBase, IsMappedFrom

\* One macro of a draft changes, comes or goes.
LEMMA OneChanged ==
  ASSUME NEW m, NEW f \in Drafts(m), NEW n \in DOMAIN f, NEW v \in ValidMacro,
         NEW g, g = [f EXCEPT ![n] = v]
  PROVE  /\ g \in Drafts(m) /\ DOMAIN g = DOMAIN f /\ g[n] = v
         /\ \A k \in DOMAIN f \ {n} : g[k] = f[k]
<1>1. DOMAIN f \subseteq MacroSlots(m) /\ f \in [DOMAIN f -> ValidMacro]
  BY DraftIs
<1>2. g \in [DOMAIN f -> ValidMacro] /\ DOMAIN g = DOMAIN f
  BY <1>1
<1>3. g \in Drafts(m)
  BY <1>1, <1>2, DraftIs
<1> QED
  BY <1>1, <1>2, <1>3

IsWith(m, f, n, v, g) ==
  /\ g \in Drafts(m) /\ DOMAIN g = (DOMAIN f \ {n}) \cup (IF v = Zeroed THEN {} ELSE {n})
  /\ \A k \in DOMAIN g : g[k] = IF k = n THEN v ELSE f[k]

LEMMA WithIs ==
  ASSUME NEW m, NEW f \in Drafts(m), NEW n \in MacroSlots(m), NEW v \in ValidMacro \cup {Zeroed},
         NEW g, g = With(f, n, v)
  PROVE  IsWith(m, f, n, v, g)
<1>1. DOMAIN f \subseteq MacroSlots(m) /\ f \in [DOMAIN f -> ValidMacro]
  BY DraftIs
<1>2. PICK S : S = (DOMAIN f \ {n}) \cup (IF v = Zeroed THEN {} ELSE {n})
  OBVIOUS
<1>3. g = [k \in S |-> IF k = n THEN v ELSE f[k]]
  BY <1>2 DEF With
<1>4. \A k \in S : (IF k = n THEN v ELSE f[k]) \in ValidMacro
  BY <1>1, <1>2
<1>5. g \in [S -> ValidMacro] /\ DOMAIN g = S
  BY <1>3, <1>4
<1>6. g \in Drafts(m)
  BY <1>1, <1>2, <1>5, DraftIs
<1> QED
  BY <1>2, <1>3, <1>5, <1>6 DEF IsWith

\* What a slot is when a button has joined a macro of it: `left` has the button off its macro.
IsJoinedFrom(m, sl, b, n, left, new) ==
  /\ SlotOK(m, new) /\ SameBase(sl, new) /\ SlotOK(m, left) /\ SameBase(sl, left)
  /\ left.draft = IF sl.draft = Nothing THEN Nothing ELSE Without(sl.draft, {b})
  /\ new.edited = left.edited
  /\ new.edited \in Profiles(m)
  /\ \A c \in Buttons : new.edited.map[c] = IF c = b THEN DefaultMap[b] ELSE Shown(sl).map[c]
  /\ RefTriggers(new.edited) = RefTriggers(Shown(sl)) \ {b}
  /\ new.draft \in Drafts(m) /\ DOMAIN new.draft = DOMAIN AsShown(left)
  /\ \A k \in DOMAIN new.draft :
       new.draft[k].triggers = (AsShown(left)[k].triggers \ {b}) \cup IF k = n THEN {b} ELSE {}

\* A button joins a macro.
LEMMA JoinIs ==
  ASSUME NEW m \in Models, NEW sl, SlotOK(m, sl), Shown(sl) # Nothing, NEW b \in Buttons,
         NEW n \in DOMAIN ShownMacros(sl), NEW new, new = JoinMacro(sl, b, n),
         NEW left, left = SetOutput(sl, b, DefaultMap[b])
  PROVE  IsJoinedFrom(m, sl, b, n, left, new)
<1>1. PICK o \in Outputs : o = DefaultMap[b]
  BY BankConstants
<1>2. /\ SlotOK(m, left) /\ SameBase(sl, left)
      /\ left.draft = IF sl.draft = Nothing THEN Nothing ELSE Without(sl.draft, {b})
      /\ left.edited \in Profiles(m)
      /\ \A c \in Buttons : left.edited.map[c] = IF c = b THEN o ELSE Shown(sl).map[c]
      /\ RefTriggers(left.edited) = RefTriggers(Shown(sl)) \ {b}
  <2>1. left = SetOutput(sl, b, o)
    BY <1>1
  <2>2. IsMappedFrom(m, sl, b, o, left)
    BY <1>1, <2>1, SetOutputIs
  <2> QED
    BY <2>2 DEF IsMappedFrom
<1>3. PICK A : A = AsShown(left)
  OBVIOUS
<1>4. A \in Drafts(m) /\ DOMAIN A = DOMAIN ShownMacros(left)
  BY <1>2, <1>3, ShownAre
<1>5. n \in DOMAIN A
  <2>1. CASE sl.draft = Nothing
    <3>1. left.draft = Nothing /\ left.macros = sl.macros
      BY <1>2, <2>1 DEF SameBase
    <3> QED
      BY <1>4, <2>1, <3>1 DEF ShownMacros, HeldMacros
  <2>2. CASE sl.draft # Nothing
    <3>1. sl.draft \in Drafts(m)
      BY <2>2 DEF SlotOK, PartsOK
    <3>2. left.draft = Without(sl.draft, {b}) /\ ShownMacros(sl) = sl.draft
      BY <1>2, <2>2 DEF ShownMacros
    <3>3. left.draft \in Drafts(m) /\ DOMAIN left.draft = DOMAIN sl.draft
      BY <3>1, <3>2, WithoutDraft
    <3>4. left.draft # Nothing
      BY <3>3, NoDraft
    <3> QED
      BY <1>4, <3>2, <3>3, <3>4 DEF ShownMacros
  <2> QED
    BY <2>1, <2>2
<1>6. PICK W : W = Without(A, {b})
  OBVIOUS
<1>7. W \in Drafts(m) /\ DOMAIN W = DOMAIN A /\ \A k \in DOMAIN A : W[k].triggers = A[k].triggers \ {b}
  BY <1>4, <1>6, WithoutDraft
<1>8. W[n] \in ValidMacro
  BY <1>5, <1>7, DraftIs
<1>9. PICK w, c, v : w = W[n] /\ c = w.triggers \cup {b} /\ v = [w EXCEPT !.triggers = c]
  OBVIOUS
<1>10. w \in ValidMacro /\ c \in SUBSET Buttons
  BY <1>8, <1>9, ValidIs
<1>11. v \in ValidMacro /\ v.triggers = W[n].triggers \cup {b}
  BY <1>9, <1>10, OtherTriggers
<1>12. PICK f : f = [W EXCEPT ![n] = v]
  OBVIOUS
<1>13. f \in Drafts(m) /\ DOMAIN f = DOMAIN W /\ f[n] = v /\ \A k \in DOMAIN W \ {n} : f[k] = W[k]
  BY <1>5, <1>7, <1>11, <1>12, OneChanged
<1>14. new = [left EXCEPT !.draft = f]
  <2>1. [W EXCEPT ![n].triggers = @ \cup {b}] = f
    BY <1>9, <1>12
  <2>2. new = [left EXCEPT !.draft = [W EXCEPT ![n].triggers = @ \cup {b}]]
    BY <1>3, <1>6 DEF JoinMacro
  <2> QED
    BY <2>1, <2>2
<1>15. SlotOK(m, new) /\ SameBase(left, new) /\ new.draft = f /\ new.edited = left.edited
  BY <1>2, <1>13, <1>14, DraftEdited
<1>16. \A k \in DOMAIN f : f[k].triggers = (A[k].triggers \ {b}) \cup IF k = n THEN {b} ELSE {}
  BY <1>7, <1>11, <1>13
<1> QED
  BY <1>1, <1>2, <1>3, <1>7, <1>13, <1>15, <1>16 DEF SameBase, IsJoinedFrom

\* The profile of a macro taken back.
LEMMA RestoredIs ==
  ASSUME NEW m, NEW p \in Profiles(m), NEW held \in Profiles(m), NEW bs,
         NEW q, q = Restored(p, held, bs)
  PROVE  /\ q \in Profiles(m)
         /\ \A c \in Buttons : q.map[c] = IF c \in bs THEN held.map[c] ELSE p.map[c]
<1>1. PICK pm, pr, hm, hr : pm = p.map /\ pr = p.refs /\ hm = held.map /\ hr = held.refs
  OBVIOUS
<1>2. pm \in [Buttons -> Outputs] /\ hm \in [Buttons -> Outputs] /\ RefsOK(m, pr) /\ RefsOK(m, hr)
  BY <1>1, ProfileIs
<1>3. PICK map : map = [c \in Buttons |-> IF c \in bs THEN hm[c] ELSE pm[c]]
  OBVIOUS
<1>4. map \in [Buttons -> Outputs] /\ \A c \in Buttons : map[c] = IF c \in bs THEN hm[c] ELSE pm[c]
  BY <1>2, <1>3
<1> DEFINE kept(k) == k \notin DOMAIN hr \/ hr[k].triggers \cap bs = {}
<1>5. PICK T : T = [k \in DOMAIN pr |-> IF kept(k) THEN pr[k].triggers
                                        ELSE hr[k].triggers \cap (pr[k].triggers \cup bs)]
  OBVIOUS
<1>6. ASSUME NEW k \in DOMAIN pr PROVE T[k] \in SUBSET Buttons
  <2>1. pr[k].triggers \in SUBSET Buttons
    BY <1>2, RefIs
  <2>2. k \in DOMAIN hr => hr[k].triggers \in SUBSET Buttons
    BY <1>2, RefIs
  <2> QED
    BY <1>5, <2>1, <2>2
<1>7. PICK u : u = [k \in DOMAIN pr |-> IF kept(k) THEN pr[k]
                      ELSE [pr[k] EXCEPT !.triggers = hr[k].triggers \cap (@ \cup bs)]]
  OBVIOUS
<1>8. ASSUME NEW k \in DOMAIN pr
      PROVE  u[k] = [at |-> pr[k].at, triggers |-> T[k]]
  <2>1. PICK a, t, c : a = pr[k].at /\ t = pr[k].triggers /\ c = pr[k]
    OBVIOUS
  <2>2. c = [at |-> a, triggers |-> t]
    BY <1>2, <2>1, RefIs, Zenon
  <2>3. PICK x : x = hr[k].triggers \cap (t \cup bs)
    OBVIOUS
  <2>4. [c EXCEPT !.triggers = x] = [at |-> a, triggers |-> x]
    BY <2>2
  <2>5. CASE kept(k)
    <3>1. u[k] = c /\ T[k] = t
      BY <1>5, <1>7, <2>1, <2>5
    <3> QED
      BY <2>1, <2>2, <3>1
  <2>6. CASE ~kept(k)
    <3>1. u[k] = [c EXCEPT !.triggers = x] /\ T[k] = x
      BY <1>5, <1>7, <2>1, <2>2, <2>3, <2>6
    <3> QED
      BY <2>1, <2>4, <3>1
  <2> QED
    BY <2>5, <2>6
<1>9. u = [k \in DOMAIN pr |-> [at |-> pr[k].at, triggers |-> T[k]]]
  BY <1>7, <1>8
<1>10. RefsOK(m, u)
  BY <1>2, <1>6, <1>9, RefsMade
<1>11. q = [map |-> map, refs |-> u]
  BY <1>1, <1>3, <1>7 DEF Restored
<1>12. q \in Profiles(m) /\ q.map = map
  BY <1>4, <1>10, <1>11, ProfileMade
<1> QED
  BY <1>1, <1>4, <1>12

HomeOf(sl, n, k) == {b \in TakenBy(sl, n) : FirstOf(HeldMacros(sl), b) = k}
Reverts(sl, n) == HeldTriggers(sl, n) \cup TakenBy(sl, n)
IsRevertedFrom(m, sl, n, new) ==
  /\ SlotOK(m, new) /\ SameBase(sl, new) /\ new.draft \in Drafts(m)
  /\ DOMAIN new.draft = (DOMAIN sl.draft \ {n}) \cup (DOMAIN sl.macros \cap {n})
  /\ \A k \in DOMAIN new.draft :
       new.draft[k].triggers = IF k = n THEN sl.macros[k].def.triggers
                               ELSE sl.draft[k].triggers \cup HomeOf(sl, n, k)
  /\ sl.edited = Nothing <=> new.edited = Nothing
  /\ sl.edited # Nothing =>
       \A c \in Buttons : new.edited.map[c] = IF sl.pad # Nothing /\ c \in Reverts(sl, n)
                                              THEN sl.pad.map[c] ELSE sl.edited.map[c]

LEMMA RevertedIs ==
  ASSUME NEW m \in Models, NEW sl, SlotOK(m, sl), sl.draft # Nothing, NEW n \in MacroSlots(m),
         NEW new, new = Reverted(sl, n)
  PROVE  IsRevertedFrom(m, sl, n, new)
<1>1. PICK p, e, h, d : p = sl.pad /\ e = sl.edited /\ h = sl.macros /\ d = sl.draft
  OBVIOUS
<1>2. sl = SlotWith(p, e, h, d) /\ PartsOK(m, p, e, h, d) /\ d \in Drafts(m)
  BY <1>1 DEF SlotOK, PartsOK
<1>3. PICK taken, bs : taken = TakenBy(sl, n) /\ bs = Reverts(sl, n)
  OBVIOUS
<1>4. PICK H : H = HeldMacros(sl)
  OBVIOUS
<1>5. H \in Drafts(m) /\ DOMAIN H = DOMAIN h /\ \A k \in DOMAIN h : H[k] = h[k].def
  BY <1>1, <1>4, HeldAre
<1>6. PICK S : S = (DOMAIN d \ {n}) \cup (DOMAIN h \cap {n})
  OBVIOUS
<1>7. S \subseteq MacroSlots(m)
  BY <1>2, <1>6, DraftIs
<1>8. taken \subseteq Buttons
  <2>1. CASE n \in DOMAIN d
    <3>1. PICK v : v = d[n]
      OBVIOUS
    <3>2. v \in ValidMacro
      BY <1>2, <2>1, <3>1, DraftIs
    <3>3. taken \subseteq v.triggers
      BY <1>1, <1>3, <2>1, <3>1 DEF TakenBy
    <3> QED
      BY <3>2, <3>3, ValidIs
  <2>2. CASE n \notin DOMAIN d
    BY <1>1, <1>3, <2>2 DEF TakenBy
  <2> QED
    BY <2>1, <2>2
<1>9. PICK f : f = [k \in S |-> IF k = n THEN h[k].def
                                ELSE [d[k] EXCEPT !.triggers = @ \cup HomeOf(sl, n, k)]]
  OBVIOUS
<1>10. ASSUME NEW k \in S
       PROVE  f[k] \in ValidMacro /\ f[k].triggers = IF k = n THEN h[k].def.triggers
                                                     ELSE d[k].triggers \cup HomeOf(sl, n, k)
  <2>1. CASE k = n
    <3>1. k \in DOMAIN h /\ f[k] = h[k].def
      BY <1>6, <1>9, <2>1
    <3>2. h[k].def \in ValidMacro
      BY <1>5, <3>1, DraftIs
    <3> QED
      BY <2>1, <3>1, <3>2
  <2>2. CASE k # n
    <3>1. PICK v, c : v = d[k] /\ c = v.triggers \cup HomeOf(sl, n, k)
      OBVIOUS
    <3>2. v \in ValidMacro
      BY <1>2, <1>6, <2>2, <3>1, DraftIs
    <3>3. c \in SUBSET Buttons
      <4>1. HomeOf(sl, n, k) \subseteq Buttons
        BY <1>3, <1>8 DEF HomeOf
      <4> QED
        BY <3>1, <3>2, <4>1, ValidIs
    <3>4. f[k] = [v EXCEPT !.triggers = c]
      BY <1>9, <2>2, <3>1
    <3>5. PICK w : w = f[k]
      OBVIOUS
    <3>6. w \in ValidMacro /\ w.triggers = c
      BY <3>2, <3>3, <3>4, <3>5, OtherTriggers
    <3> QED
      BY <2>2, <3>1, <3>5, <3>6
  <2> QED
    BY <2>1, <2>2
<1>11. f \in Drafts(m) /\ DOMAIN f = S
  <2>1. f \in [S -> ValidMacro] /\ DOMAIN f = S
    BY <1>9, <1>10
  <2> QED
    BY <1>7, <2>1, DraftIs
<1>12. PICK q : q = IF p = Nothing \/ e = Nothing THEN e ELSE Restored(e, p, bs)
  OBVIOUS
<1>13. /\ q \in Profiles(m) \cup {Nothing} /\ (e = Nothing <=> q = Nothing)
       /\ e # Nothing => \A c \in Buttons : q.map[c] = IF p # Nothing /\ c \in bs THEN p.map[c] ELSE e.map[c]
  <2>1. CASE p = Nothing \/ e = Nothing
    BY <1>2, <1>12, <2>1 DEF PartsOK
  <2>2. CASE p # Nothing /\ e # Nothing
    <3>1. p \in Profiles(m) /\ e \in Profiles(m) /\ q = Restored(e, p, bs)
      BY <1>2, <1>12, <2>2 DEF PartsOK
    <3>2. q \in Profiles(m) /\ \A c \in Buttons : q.map[c] = IF c \in bs THEN p.map[c] ELSE e.map[c]
      BY <3>1, RestoredIs
    <3> QED
      BY <2>2, <3>2, ProfileIs
  <2> QED
    BY <2>1, <2>2
<1>14. new = BothTo(sl, q, f)
  <2>1. f = [k \in (DOMAIN sl.draft \ {n}) \cup (DOMAIN sl.macros \cap {n}) |->
               IF k = n THEN sl.macros[k].def
               ELSE [sl.draft[k] EXCEPT !.triggers = @ \cup {b \in taken : FirstOf(HeldMacros(sl), b) = k}]]
    BY <1>1, <1>3, <1>6, <1>9 DEF HomeOf
  <2>2. q = IF sl.pad = Nothing \/ sl.edited = Nothing THEN sl.edited ELSE Restored(sl.edited, sl.pad, bs)
    BY <1>1, <1>12
  <2>3. bs = HeldTriggers(sl, n) \cup taken /\ taken = TakenBy(sl, n)
    BY <1>3 DEF Reverts
  <2> QED
    BY <1>1, <1>2, <2>1, <2>2, <2>3 DEF Reverted, BothTo, SlotWith
<1>15. new = SlotWith(p, q, h, f)
  BY <1>2, <1>14, BothExcept
<1>16. SlotOK(m, new) /\ SameBase(sl, new) /\ new.draft = f /\ new.edited = q
  BY <1>1, <1>11, <1>13, <1>15, BothEdited
<1> QED
  BY <1>1, <1>3, <1>6, <1>10, <1>11, <1>13, <1>16 DEF IsRevertedFrom

\* The macro a button starts in a slot.
LEMMA StartedIs ==
  ASSUME NEW m, NEW sl, SlotOK(m, sl), NEW b, NEW n, n = StartedBy(sl, b)
  PROVE  /\ n # Nothing <=> b \in TriggersOf(ShownMacros(sl)) /\ ~(sl.draft = Nothing /\ b \in Dropped(sl))
         /\ n # Nothing => /\ n \in DOMAIN ShownMacros(sl) /\ b \in ShownMacros(sl)[n].triggers
                           /\ \A k \in DOMAIN ShownMacros(sl) : b \in ShownMacros(sl)[k].triggers => n <= k
<1>1. PICK f : f = ShownMacros(sl)
  OBVIOUS
<1>2. f \in Drafts(m)
  BY <1>1, ShownAre
<1>3. PICK k : k = FirstOf(f, b)
  OBVIOUS
<1>4. /\ b \notin TriggersOf(f) => k = Nothing
      /\ b \in TriggersOf(f) =>
           /\ k \in DOMAIN f /\ b \in f[k].triggers /\ k # Nothing
           /\ \A l \in DOMAIN f : b \in f[l].triggers => k <= l
  BY <1>2, <1>3, FirstOne
<1>5. n = IF sl.draft = Nothing /\ b \in Dropped(sl) THEN Nothing ELSE k
  BY <1>1, <1>3 DEF StartedBy
<1> QED
  BY <1>1, <1>4, <1>5

Leaves(sl, map) == {b \in Buttons : map[b] # DefaultMap[b] /\ b \in TriggersOf(ShownMacros(sl))}
IsImportedFrom(m, sl, map, macros, new) ==
  /\ SlotOK(m, new) /\ SameBase(sl, new) /\ new.edited \in Profiles(m) /\ new.edited.map = map
  /\ macros # Nothing => new.draft = macros
  /\ macros = Nothing =>
       /\ sl.draft = Nothing => new.draft = Nothing
       /\ sl.draft # Nothing =>
            /\ new.draft \in Drafts(m) /\ DOMAIN new.draft = DOMAIN sl.draft
            /\ \A k \in DOMAIN new.draft : new.draft[k].triggers = sl.draft[k].triggers \ Leaves(sl, map)
       /\ RefTriggers(new.edited) = RefTriggers(sl.pad) \ Leaves(sl, map)

\* A profile with references to no macro, or to those of the profile read.
LEMMA PutIs ==
  ASSUME NEW m, NEW sl, SlotOK(m, sl), NEW map \in [Buttons -> Outputs],
         NEW q, q = [map |-> map, refs |-> IF sl.pad = Nothing THEN <<>> ELSE sl.pad.refs]
  PROVE  q \in Profiles(m) /\ q.map = map /\ RefTriggers(q) = RefTriggers(sl.pad)
<1>1. CASE sl.pad = Nothing
  <2>1. PICK r : r = <<>>
    OBVIOUS
  <2>2. RefsOK(m, r)
    BY <2>1, EmptySeq DEF RefsOK
  <2>3. q \in Profiles(m) /\ q.map = map /\ q.refs = r /\ q # Nothing
    BY <1>1, <2>1, <2>2, ProfileMade
  <2>4. RefTriggers(q) = {}
    BY <2>1, <2>3 DEF RefTriggers
  <2> QED
    BY <1>1, <2>3, <2>4 DEF RefTriggers
<1>2. CASE sl.pad # Nothing
  <2>1. sl.pad \in Profiles(m)
    BY <1>2 DEF SlotOK, PartsOK
  <2>2. q = [map |-> map, refs |-> sl.pad.refs]
    BY <1>2
  <2> QED
    BY <2>1, <2>2, OtherMap
<1> QED
  BY <1>1, <1>2

LEMMA ImportedIs ==
  ASSUME NEW m \in Models, NEW sl, SlotOK(m, sl), NEW map \in [Buttons -> Outputs],
         NEW macros \in Drafts(m) \cup {Nothing}, NEW new, new = Imported(sl, map, macros)
  PROVE  IsImportedFrom(m, sl, map, macros, new)
<1>1. PICK p, e, h, d : p = sl.pad /\ e = sl.edited /\ h = sl.macros /\ d = sl.draft
  OBVIOUS
<1>2. sl = SlotWith(p, e, h, d) /\ PartsOK(m, p, e, h, d)
  BY <1>1 DEF SlotOK
<1>3. PICK q : q = [map |-> map, refs |-> IF sl.pad = Nothing THEN <<>> ELSE sl.pad.refs]
  OBVIOUS
<1>4. q \in Profiles(m) /\ q.map = map /\ RefTriggers(q) = RefTriggers(p)
  BY <1>1, <1>3, PutIs
<1>5. PICK f : f = IF macros = Nothing THEN d ELSE macros
  OBVIOUS
<1>6. f \in Drafts(m) \cup {Nothing}
  BY <1>2, <1>5 DEF PartsOK
<1>7. PICK put : put = SlotWith(p, q, h, f)
  OBVIOUS
<1>8. SlotOK(m, put) /\ SameBase(sl, put) /\ put.draft = f /\ put.edited = q
  BY <1>1, <1>4, <1>6, <1>7, BothEdited
<1>10. PICK left : left = RemappedStarters(put, map)
  OBVIOUS
<1>11. new = IF macros # Nothing \/ left = {} THEN put ELSE LeaveMacros(put, left)
  <2>1. put = BothTo(sl, q, f)
    BY <1>2, <1>7, BothExcept
  <2>2. put = [sl EXCEPT !.edited = q, !.draft = IF macros = Nothing THEN sl.draft ELSE macros]
    BY <1>1, <1>5, <2>1 DEF BothTo
  <2>3. put = [sl EXCEPT !.edited = [map |-> map, refs |-> IF sl.pad = Nothing THEN <<>> ELSE sl.pad.refs],
                         !.draft = IF macros = Nothing THEN sl.draft ELSE macros]
    BY <1>3, <2>2
  <2> QED
    BY <1>10, <2>3 DEF Imported
<1>12. CASE macros # Nothing
  BY <1>4, <1>5, <1>8, <1>11, <1>12 DEF IsImportedFrom
<1>13. CASE macros = Nothing
  <2>1. f = d /\ ShownMacros(put) = ShownMacros(sl)
    BY <1>1, <1>5, <1>8, <1>13 DEF ShownMacros, HeldMacros, SameBase
  <2>2. f = Nothing => Dropped(put) = {}
    <3>1. put.pad = p
      BY <1>1, <1>8 DEF SameBase
    <3> QED
      BY <1>4, <1>8, <3>1 DEF Dropped
  <2>3. left = Leaves(sl, map)
    <3>1. \A b : StartedBy(put, b) # Nothing <=> b \in TriggersOf(ShownMacros(put))
      BY <1>8, <2>2, StartedIs
    <3> QED
      BY <1>10, <2>1, <3>1 DEF RemappedStarters, Leaves
  <2>4. Shown(put) = q /\ q # Nothing
    BY <1>4, <1>8, ProfileIs DEF Shown
  <2>5. CASE left = {}
    <3>1. new = put
      BY <1>11, <1>13, <2>5
    <3>2. d # Nothing => d \in Drafts(m)
      BY <1>2 DEF PartsOK
    <3>3. \A b : b \notin Leaves(sl, map)
      BY <2>3, <2>5
    <3> QED
      BY <1>1, <1>4, <1>8, <1>13, <2>1, <3>1, <3>2, <3>3 DEF IsImportedFrom
  <2>6. CASE left # {}
    <3>1. new = LeaveMacros(put, left)
      BY <1>11, <1>13, <2>6
    <3>2. /\ SlotOK(m, new) /\ SameBase(put, new)
          /\ new.draft = IF f = Nothing THEN Nothing ELSE Without(f, left)
          /\ new.edited \in Profiles(m) /\ new.edited.map = map
          /\ RefTriggers(new.edited) = RefTriggers(p) \ left
      BY <1>4, <1>8, <2>4, <3>1, LeftIs
    <3>3. ASSUME d # Nothing
          PROVE  /\ new.draft \in Drafts(m) /\ DOMAIN new.draft = DOMAIN d
                 /\ \A k \in DOMAIN new.draft : new.draft[k].triggers = d[k].triggers \ left
      <4>1. d \in Drafts(m) /\ new.draft = Without(d, left)
        BY <1>2, <2>1, <3>2, <3>3 DEF PartsOK
      <4> QED
        BY <4>1, WithoutDraft
    <3>4. SameBase(sl, new)
      BY <1>8, <3>2 DEF SameBase
    <3> QED
      BY <1>1, <1>13, <2>1, <2>3, <3>2, <3>3, <3>4 DEF IsImportedFrom
  <2> QED
    BY <2>5, <2>6
<1> QED
  BY <1>12, <1>13

-------------------------------------------------------------------------------
(***************************************************************************)
(* What a read finds in a slot.                                            *)
(***************************************************************************)
FoundIn(m, s) == ViewFor(m, s).macros
ProfileIn(m, s) == IF s.used THEN [map |-> ViewFor(m, s).map, refs |-> RefsOf(FoundIn(m, s))] ELSE Nothing

\* A slot whose macros all have steps.
PadOK(m, s) == IsSlot(m, s) /\ FoundIn(m, s) \in Drafts(m)

LEMMA FoundAre ==
  ASSUME NEW s
  PROVE  FoundMacros(s) = FoundIn(model, s) /\ FoundProfile(s) = ProfileIn(model, s)
<1>1. View(s) = ViewFor(model, s)
  BY ViewForIs
<1> QED
  BY <1>1 DEF FoundMacros, FoundProfile, FoundIn, ProfileIn

LEMMA FoundStepped ==
  ASSUME model \in Models, NEW s, HasSteps(model, s)
  PROVE  PadOK(model, s)
<1>1. IsSlot(model, s) /\ \A n \in DOMAIN MacrosOf(model, s) : MacrosOf(model, s)[n].steps # NoSteps
  BY DEF HasSteps
<1>2. PICK b : Size(b)
  BY SizeIs
<1>3. PICK K \in SUBSET (1..b) : MacrosOf(model, s) \in [K -> Macro]
  BY <1>1, <1>2, MacrosAreTyped
<1>4. MacroSlots(model) = 1..b
  BY <1>2 DEF MacroSlots, Size
<1>5. PICK M, F : M = MacrosOf(model, s) /\ F = EachEncoded(M)
  OBVIOUS
<1>6. DOMAIN F = K /\ \A n \in K : F[n] = Encoded(M[n])
  BY <1>3, <1>5 DEF EachEncoded
<1>7. ASSUME NEW n \in K PROVE F[n] \in ValidMacro
  <2>1. PICK v : v = M[n]
    OBVIOUS
  <2>2. v \in Macro /\ v.steps # NoSteps
    BY <1>1, <1>3, <1>5, <2>1
  <2>3. Encoded(v) \in Macro /\ Encoded(v).steps # NoSteps /\ Encoded(v).unknown = FALSE
    BY <2>2 DEF Encoded, Macro
  <2> QED
    BY <1>6, <2>1, <2>3 DEF ValidMacro
<1>8. F \in Drafts(model)
  <2>1. F = [n \in K |-> F[n]]
    BY <1>3, <1>5 DEF EachEncoded
  <2>2. F \in [DOMAIN F -> ValidMacro]
    BY <1>6, <1>7, <2>1
  <2> QED
    BY <1>4, <1>6, <2>2, DraftIs
<1>9. NoMacros \in Drafts(model)
  BY DraftIs, NothingHeld
<1>10. FoundIn(model, s) = IF ~s.used THEN NoMacros ELSE F
  BY <1>5 DEF FoundIn, ViewFor, EmptyView, UsedView
<1> QED
  BY <1>1, <1>8, <1>9, <1>10 DEF PadOK

\* The references a read finds are to the macros, with their triggers.
LEMMA RefsAre ==
  ASSUME NEW m \in Models, NEW f \in Drafts(m), NEW r, r = RefsOf(f)
  PROVE  RefsOK(m, r) /\ \A b : (\E k \in DOMAIN r : b \in r[k].triggers) <=> b \in TriggersOf(f)
<1>1. PICK b \in Nat : MacroSlots(m) = 1..b
  BY BankConstants DEF MacroSlots
<1>2. DOMAIN f \subseteq 1..b /\ f \in [DOMAIN f -> ValidMacro]
  BY <1>1, DraftIs
<1>3. Upto(b, DOMAIN f)
  BY <1>2 DEF Upto
<1>4. PICK c, e : c = Cardinality(DOMAIN f) /\ e = InOrder(DOMAIN f)
  OBVIOUS
<1>5. Enum(DOMAIN f, c, e)
  BY <1>3, <1>4, InOrderSorts
<1>6. /\ c \in Nat /\ e \in [1..c -> DOMAIN f] /\ \A x \in DOMAIN f : \E i \in 1..c : e[i] = x
  BY <1>5 DEF Enum
<1>7. r = [k \in 1..c |-> [at |-> e[k], triggers |-> f[e[k]].triggers]]
  BY <1>4, <1>6, Zenon DEF RefsOf
<1>8. ASSUME NEW k \in 1..c
      PROVE  r[k] \in Ref /\ r[k].at = e[k] /\ r[k].at \in MacroSlots(m) /\ r[k].triggers = f[e[k]].triggers
  <2>1. PICK n, t : n = e[k] /\ t = f[n].triggers
    OBVIOUS
  <2>2. n \in DOMAIN f /\ n \in Nat /\ n \in MacroSlots(m)
    BY <1>1, <1>2, <1>6, <2>1
  <2>3. t \in SUBSET Buttons
    BY <1>2, <2>1, <2>2, ValidIs
  <2>4. r[k] = [at |-> n, triggers |-> t]
    BY <1>7, <2>1
  <2> QED
    BY <2>1, <2>2, <2>3, <2>4 DEF Ref
<1>9. r \in [1..c -> Ref] /\ DOMAIN r = 1..c
  BY <1>7, <1>8
<1>10. r \in Seq(Ref)
  BY <1>6, <1>9, SeqDef
<1>11. RefsOK(m, r)
  BY <1>8, <1>9, <1>10 DEF RefsOK
<1>12. ASSUME NEW b1 PROVE (\E k \in DOMAIN r : b1 \in r[k].triggers) <=> b1 \in TriggersOf(f)
  <2>1. (\E k \in 1..c : b1 \in f[e[k]].triggers) <=> \E n \in DOMAIN f : b1 \in f[n].triggers
    BY <1>6
  <2> QED
    BY <1>8, <1>9, <2>1, StartersAre
<1> QED
  BY <1>11, <1>12

LEMMA ProfileFound ==
  ASSUME NEW m \in Models, NEW s, PadOK(m, s), NEW p, p = ProfileIn(m, s)
  PROVE  /\ s.used \in BOOLEAN /\ ViewFor(m, s).map \in [Buttons -> Outputs]
         /\ ViewFor(m, s).used = s.used
         /\ ~s.used => p = Nothing /\ FoundIn(m, s) = NoMacros
         /\ s.used => /\ p \in Profiles(m) /\ p.map = ViewFor(m, s).map
         /\ RefTriggers(p) = TriggersOf(FoundIn(m, s))
<1>1. s.used \in BOOLEAN /\ s.map \in [Buttons -> Outputs]
  BY DEF PadOK, IsSlot
<1>2. MapOf(m, s) \in [Buttons -> Outputs]
  BY <1>1, BankConstants DEF MapOf
<1>3. PICK w, f : w = ViewFor(m, s) /\ f = FoundIn(m, s)
  OBVIOUS
<1>4. f \in Drafts(m) /\ f = w.macros
  BY <1>3 DEF PadOK, FoundIn
<1>5. CASE ~s.used
  <2>1. w.map = DefaultMap /\ w.used = FALSE /\ w.macros = NoMacros /\ p = Nothing
    BY <1>3, <1>5 DEF ViewFor, EmptyView, ProfileIn
  <2>2. TriggersOf(f) = {} /\ RefTriggers(p) = {}
    BY <1>4, <2>1, NothingHeld DEF TriggersOf, RefTriggers
  <2> QED
    BY <1>1, <1>3, <1>4, <1>5, <2>1, <2>2, BankConstants
<1>6. CASE s.used
  <2>1. w.used = TRUE /\ w.map = MapOf(m, s)
    BY <1>3, <1>6 DEF ViewFor, UsedView
  <2>2. PICK r, mp : r = RefsOf(f) /\ mp = w.map
    OBVIOUS
  <2>3. RefsOK(m, r) /\ \A b : (\E k \in DOMAIN r : b \in r[k].triggers) <=> b \in TriggersOf(f)
    BY <1>4, <2>2, RefsAre
  <2>4. p = [map |-> mp, refs |-> r]
    BY <1>3, <1>6, <2>2 DEF ProfileIn
  <2>5. p \in Profiles(m) /\ p.map = mp /\ p.refs = r /\ p # Nothing
    BY <1>2, <2>1, <2>2, <2>3, <2>4, ProfileMade
  <2>6. \A b : b \in RefTriggers(p) <=> b \in TriggersOf(f)
    BY <2>3, <2>5, NamedIn
  <2> QED
    BY <1>1, <1>2, <1>3, <1>6, <2>1, <2>2, <2>5, <2>6
<1> QED
  BY <1>1, <1>5, <1>6

\* The slot shows what the pad has, the steps of the macros apart.
Synced(m, sl, s) ==
  sl.pad = ProfileIn(m, s) /\ Descriptors(HeldMacros(sl)) = Descriptors(FoundIn(m, s))

LEMMA SyncedIs ==
  ASSUME NEW m, NEW sl, SlotOK(m, sl), NEW s, PadOK(m, s)
  PROVE  Descriptors(HeldMacros(sl)) = Descriptors(FoundIn(m, s))
           <=> /\ DOMAIN sl.macros = DOMAIN FoundIn(m, s)
               /\ \A n \in DOMAIN sl.macros : Descriptor(sl.macros[n].def) = Descriptor(FoundIn(m, s)[n])
<1>1. PICK H, F : H = HeldMacros(sl) /\ F = FoundIn(m, s)
  OBVIOUS
<1>2. H \in Drafts(m) /\ F \in Drafts(m) /\ DOMAIN H = DOMAIN sl.macros /\ \A n \in DOMAIN H : H[n] = sl.macros[n].def
  BY <1>1, HeldAre DEF PadOK
<1>3. PICK DH, DF : DH = Descriptors(H) /\ DF = Descriptors(F)
  OBVIOUS
<1>4. /\ DH \in Drafts(m) /\ DOMAIN DH = DOMAIN H /\ \A n \in DOMAIN H : DH[n] = Descriptor(H[n])
      /\ DF \in Drafts(m) /\ DOMAIN DF = DOMAIN F /\ \A n \in DOMAIN F : DF[n] = Descriptor(F[n])
  BY <1>2, <1>3, DescriptorsAre
<1>5. ASSUME DOMAIN H = DOMAIN F, \A n \in DOMAIN H : Descriptor(H[n]) = Descriptor(F[n])
      PROVE  DH = DF
  BY <1>4, <1>5, SameDraft
<1> QED
  BY <1>1, <1>2, <1>3, <1>4, <1>5

\* The same triggers.
LEMMA SyncedTriggers ==
  ASSUME NEW m, NEW sl, SlotOK(m, sl), NEW s, PadOK(m, s), Synced(m, sl, s)
  PROVE  TriggersOf(HeldMacros(sl)) = TriggersOf(FoundIn(m, s))
<1>1. PICK H, F : H = HeldMacros(sl) /\ F = FoundIn(m, s)
  OBVIOUS
<1>2. H \in Drafts(m) /\ F \in Drafts(m) /\ DOMAIN H = DOMAIN sl.macros /\ \A n \in DOMAIN H : H[n] = sl.macros[n].def
  BY <1>1, HeldAre DEF PadOK
<1>3. DOMAIN H = DOMAIN F /\ \A n \in DOMAIN H : Descriptor(H[n]) = Descriptor(F[n])
  BY <1>1, <1>2, SyncedIs DEF Synced
<1>4. \A n \in DOMAIN H : H[n] \in ValidMacro /\ F[n] \in ValidMacro
  BY <1>2, <1>3, DraftIs
<1>5. \A n \in DOMAIN H : H[n].triggers = F[n].triggers
  BY <1>3, <1>4, SameDescriptor
<1> QED
  BY <1>1, <1>3, <1>5 DEF TriggersOf

LEMMA EmptyIs ==
  ASSUME NEW m, NEW sl, sl = EmptySlot
  PROVE  SlotOK(m, sl) /\ sl.pad = Nothing /\ sl.edited = Nothing /\ sl.macros = NoMacros /\ sl.draft = Nothing
         /\ HeldMacros(sl) = NoMacros
<1>1. PICK h : h = NoMacros
  OBVIOUS
<1>2. DOMAIN h = {} /\ h = [n \in {} |-> Zeroed]
  BY <1>1 DEF NoMacros
<1>3. h \in [DOMAIN h -> HeldMacro]
  BY <1>2
<1>4. PartsOK(m, Nothing, Nothing, h, Nothing)
  BY <1>2, <1>3 DEF PartsOK
<1>5. sl = SlotWith(Nothing, Nothing, h, Nothing)
  BY <1>1 DEF EmptySlot, SlotWith
<1>6. SlotOK(m, sl) /\ sl.pad = Nothing /\ sl.edited = Nothing /\ sl.macros = h /\ sl.draft = Nothing
  BY <1>4, <1>5, SlotMade
<1>7. HeldMacros(sl) = h
  BY <1>2, <1>6 DEF HeldMacros
<1> QED
  BY <1>1, <1>6, <1>7

IsReadFrom(sl, s, new) ==
  /\ SlotOK(model, new) /\ Synced(model, new, s)
  /\ new.edited = IF sl.pad # ProfileIn(model, s) /\ ~ProfileUnsaved(sl) THEN Nothing ELSE sl.edited
  /\ new.draft = IF MacrosUnsaved(sl) THEN sl.draft ELSE Nothing

LEMMA ReadIs ==
  ASSUME model \in Models, NEW sl, SlotOK(model, sl), NEW s, PadOK(model, s), NEW new, new = ReadInto(sl, s)
  PROVE  IsReadFrom(sl, s, new)
<1>1. PICK p, F, h : p = ProfileIn(model, s) /\ F = FoundIn(model, s) /\ h = sl.macros
  OBVIOUS
<1>2. p = FoundProfile(s) /\ F = FoundMacros(s)
  BY <1>1, FoundAre
<1>3. F \in Drafts(model) /\ p \in Profiles(model) \cup {Nothing}
  BY <1>1, ProfileFound DEF PadOK
<1>4. PICK D : D = Descriptors(F)
  OBVIOUS
<1>5. D \in Drafts(model) /\ DOMAIN D = DOMAIN F /\ \A n \in DOMAIN F : D[n] = Descriptor(F[n])
  BY <1>3, <1>4, DescriptorsAre
<1>6. PartsOK(model, sl.pad, sl.edited, h, sl.draft)
  BY <1>1 DEF SlotOK
<1> DEFINE same(n) == n \in DOMAIN h /\ Descriptor(h[n].def) = D[n]
<1>7. PICK g : g = [n \in DOMAIN D |-> IF same(n) THEN h[n] ELSE [def |-> D[n], loaded |-> D[n].steps = NoSteps]]
  OBVIOUS
<1>8. PICK e : e = IF sl.pad # p /\ ~ProfileUnsaved(sl) THEN Nothing ELSE sl.edited
  OBVIOUS
<1>9. PICK d : d = IF MacrosUnsaved(sl) THEN sl.draft ELSE Nothing
  OBVIOUS
<1>10. new = SlotWith(p, e, g, d)
  BY <1>1, <1>2, <1>4, <1>7, <1>8, <1>9, Zenon DEF ReadInto, SlotWith
<1>11. ASSUME NEW n \in DOMAIN D
       PROVE  g[n] \in HeldMacro /\ Descriptor(g[n].def) = Descriptor(F[n])
  <2>1. CASE same(n)
    <3>1. g[n] = h[n] /\ n \in DOMAIN h /\ Descriptor(h[n].def) = D[n]
      BY <1>7, <2>1
    <3>2. h[n] \in HeldMacro
      BY <1>6, <3>1 DEF PartsOK
    <3> QED
      BY <1>5, <3>1, <3>2
  <2>2. CASE ~same(n)
    <3>1. PICK v, l : v = D[n] /\ l = (v.steps = NoSteps)
      OBVIOUS
    <3>2. g[n] = [def |-> v, loaded |-> l]
      BY <1>7, <2>2, <3>1
    <3>3. v \in ValidMacro /\ l \in BOOLEAN
      BY <1>5, <3>1, DraftIs
    <3>4. F[n] \in ValidMacro /\ v = Descriptor(F[n])
      BY <1>3, <1>5, <3>1, DraftIs
    <3>5. Descriptor(v) = v
      BY <3>4, DescriptorIs
    <3> QED
      BY <3>2, <3>3, <3>4, <3>5 DEF HeldMacro
  <2> QED
    BY <2>1, <2>2
<1>12. DOMAIN g = DOMAIN F /\ g \in [DOMAIN g -> HeldMacro]
  BY <1>5, <1>7, <1>11
<1>13. PartsOK(model, p, e, g, d)
  BY <1>3, <1>6, <1>8, <1>9, <1>12, DraftIs DEF PartsOK, MacrosUnsaved
<1>14. SlotOK(model, new) /\ new.pad = p /\ new.edited = e /\ new.macros = g /\ new.draft = d
  BY <1>10, <1>13, SlotMade
<1>15. Synced(model, new, s)
  <2>1. DOMAIN new.macros = DOMAIN F /\ \A n \in DOMAIN new.macros : Descriptor(new.macros[n].def) = Descriptor(F[n])
    BY <1>5, <1>11, <1>12, <1>14
  <2> QED
    BY <1>1, <1>14, <2>1, SyncedIs DEF Synced
<1> QED
  BY <1>1, <1>8, <1>9, <1>14, <1>15 DEF IsReadFrom

\* The macros whose steps are asked for are as the pad has them.
UnreadOK(m, u, s) ==
  /\ u \in Drafts(m)
  /\ \A n \in DOMAIN u : n \in DOMAIN FoundIn(m, s) /\ Descriptor(u[n]) = Descriptor(FoundIn(m, s)[n])

LEMMA NothingUnread ==
  ASSUME NEW m, NEW s
  PROVE  UnreadOK(m, NoMacros, s)
BY DraftIs, NothingHeld DEF UnreadOK

LEMMA UnreadAre ==
  ASSUME NEW m, NEW sl, SlotOK(m, sl), NEW s, PadOK(m, s), Synced(m, sl, s), NEW u, u = Unread(sl)
  PROVE  UnreadOK(m, u, s) /\ (u = NoMacros => \A n \in DOMAIN sl.macros : sl.macros[n].loaded)
<1>1. PICK h : h = sl.macros
  OBVIOUS
<1>2. DOMAIN h \subseteq MacroSlots(m) /\ h \in [DOMAIN h -> HeldMacro]
  BY <1>1 DEF SlotOK, PartsOK
<1>3. PICK S : S = {k \in DOMAIN h : ~h[k].loaded}
  OBVIOUS
<1>4. u = [n \in S |-> h[n].def]
  BY <1>1, <1>3 DEF Unread
<1>5. \A n \in S : h[n].def \in ValidMacro
  BY <1>2, <1>3 DEF HeldMacro
<1>6. u \in Drafts(m)
  <2>1. u \in [DOMAIN u -> ValidMacro] /\ DOMAIN u = S
    BY <1>4, <1>5
  <2> QED
    BY <1>2, <1>3, <2>1, DraftIs
<1>7. DOMAIN h = DOMAIN FoundIn(m, s) /\ \A n \in DOMAIN h : Descriptor(h[n].def) = Descriptor(FoundIn(m, s)[n])
  BY <1>1, SyncedIs DEF Synced
<1>8. u = NoMacros => S = {}
  BY <1>4, NothingHeld
<1> QED
  BY <1>1, <1>3, <1>4, <1>6, <1>7, <1>8 DEF UnreadOK

\* Steps that were read.
FilledWith(sl, u, found) ==
  [n \in DOMAIN sl.macros |->
     IF /\ n \in DOMAIN u /\ n \in DOMAIN found /\ ~sl.macros[n].loaded
        /\ Descriptor(sl.macros[n].def) = u[n]
     THEN [def |-> [u[n] EXCEPT !.steps = found[n].steps], loaded |-> TRUE]
     ELSE sl.macros[n]]
IsFilledFrom(m, sl, new) ==
  /\ SlotOK(m, new) /\ new.pad = sl.pad /\ new.edited = sl.edited /\ new.draft = sl.draft
  /\ DOMAIN new.macros = DOMAIN sl.macros
  /\ \A n \in DOMAIN sl.macros : Descriptor(new.macros[n].def) = Descriptor(sl.macros[n].def)

LEMMA FilledIs ==
  ASSUME NEW m, NEW sl, SlotOK(m, sl), NEW s, PadOK(m, s), NEW u, UnreadOK(m, u, s),
         NEW new, new = [sl EXCEPT !.macros = FilledWith(sl, u, FoundIn(m, s))]
  PROVE  IsFilledFrom(m, sl, new)
<1>1. PICK p, e, h, d, F : p = sl.pad /\ e = sl.edited /\ h = sl.macros /\ d = sl.draft /\ F = FoundIn(m, s)
  OBVIOUS
<1>2. sl = SlotWith(p, e, h, d) /\ PartsOK(m, p, e, h, d) /\ F \in Drafts(m) /\ u \in Drafts(m)
  BY <1>1 DEF SlotOK, PadOK, UnreadOK
<1> DEFINE filled(n) == n \in DOMAIN u /\ n \in DOMAIN F /\ ~h[n].loaded /\ Descriptor(h[n].def) = u[n]
<1>3. PICK g : g = FilledWith(sl, u, F)
  OBVIOUS
<1>4. g = [n \in DOMAIN h |-> IF filled(n) THEN [def |-> [u[n] EXCEPT !.steps = F[n].steps], loaded |-> TRUE] ELSE h[n]]
  BY <1>1, <1>3 DEF FilledWith
<1>5. ASSUME NEW n \in DOMAIN h
      PROVE  g[n] \in HeldMacro /\ Descriptor(g[n].def) = Descriptor(h[n].def)
  <2>1. CASE filled(n)
    <3>1. PICK v, l, w : v = u[n] /\ l = F[n].steps /\ w = [v EXCEPT !.steps = l]
      OBVIOUS
    <3>2. v \in ValidMacro /\ F[n] \in ValidMacro /\ h[n].def \in ValidMacro
      <4>1. h[n] \in HeldMacro
        BY <1>2 DEF PartsOK
      <4> QED
        BY <1>2, <2>1, <3>1, <4>1, DraftIs DEF HeldMacro
    <3>3. l \in StepLists \ {NoSteps}
      BY <3>1, <3>2, ValidIs
    <3>4. w \in ValidMacro /\ w.triggers = v.triggers /\ w.steps = l
      BY <3>1, <3>2, <3>3, OtherSteps
    <3>5. g[n] = [def |-> w, loaded |-> TRUE]
      BY <1>4, <2>1, <3>1
    <3>6. Descriptor(v) = Descriptor(F[n])
      BY <1>1, <2>1, <3>1 DEF UnreadOK
    <3>7. v.triggers = F[n].triggers /\ Placeholder[v.steps] = Placeholder[l]
      BY <3>1, <3>2, <3>6, SameDescriptor
    <3>8. Descriptor(w) = Descriptor(v)
      BY <3>2, <3>4, <3>7, SameDescriptor
    <3>9. v = Descriptor(h[n].def) /\ Descriptor(v) = v
      BY <2>1, <3>1, <3>2, DescriptorIs
    <3> QED
      BY <3>4, <3>5, <3>8, <3>9 DEF HeldMacro
  <2>2. CASE ~filled(n)
    BY <1>2, <1>4, <2>2 DEF PartsOK
  <2> QED
    BY <2>1, <2>2
<1>6. DOMAIN g = DOMAIN h /\ g \in [DOMAIN g -> HeldMacro]
  BY <1>4, <1>5
<1>7. new = SlotWith(p, e, g, d)
  <2>1. new = [sl EXCEPT !.macros = g]
    BY <1>1, <1>3
  <2> QED
    BY <1>2, <2>1 DEF SlotWith
<1>8. PartsOK(m, p, e, g, d)
  BY <1>2, <1>6 DEF PartsOK
<1>9. SlotOK(m, new) /\ new.pad = p /\ new.edited = e /\ new.macros = g /\ new.draft = d
  <2>1. PICK r : r = SlotWith(p, e, g, d)
    OBVIOUS
  <2>2. SlotOK(m, r) /\ r.pad = p /\ r.edited = e /\ r.macros = g /\ r.draft = d
    BY <1>8, <2>1, SlotMade
  <2> QED
    BY <1>7, <2>1, <2>2
<1>10. \A n \in DOMAIN sl.macros : Descriptor(new.macros[n].def) = Descriptor(sl.macros[n].def)
  BY <1>1, <1>5, <1>9
<1>11. DOMAIN new.macros = DOMAIN sl.macros
  BY <1>1, <1>6, <1>9
<1> QED
  BY <1>1, <1>9, <1>10, <1>11 DEF IsFilledFrom

\* What was written is what the slot holds.
LEMMA TakenIs ==
  ASSUME NEW m, NEW sl, SlotOK(m, sl), NEW new, new = TakenAsHeld(sl)
  PROVE  /\ SlotOK(m, new) /\ new.pad = Shown(sl) /\ new.edited = Nothing /\ new.draft = Nothing
         /\ TriggersOf(HeldMacros(new)) = TriggersOf(ShownMacros(sl))
<1>1. PICK p, h, d : p = Shown(sl) /\ h = sl.macros /\ d = sl.draft
  OBVIOUS
<1>2. p \in Profiles(m) \cup {Nothing} /\ d \in Drafts(m) \cup {Nothing}
      /\ DOMAIN h \subseteq MacroSlots(m) /\ h \in [DOMAIN h -> HeldMacro]
  BY <1>1, ShownAre DEF SlotOK, PartsOK
<1>3. PICK g : g = IF d = Nothing THEN h ELSE [n \in DOMAIN d |-> [def |-> Descriptor(d[n]), loaded |-> FALSE]]
  OBVIOUS
<1>4. new = SlotWith(p, Nothing, g, Nothing)
  BY <1>1, <1>3, Zenon DEF TakenAsHeld, Shown, SlotWith
<1>5. ASSUME d # Nothing
      PROVE  /\ DOMAIN g = DOMAIN d /\ DOMAIN g \subseteq MacroSlots(m) /\ g \in [DOMAIN g -> HeldMacro]
             /\ \A n \in DOMAIN d : g[n].def.triggers = d[n].triggers
  <2>1. d \in Drafts(m)
    BY <1>2, <1>5
  <2>2. ASSUME NEW n \in DOMAIN d PROVE g[n] \in HeldMacro /\ g[n].def.triggers = d[n].triggers
    <3>1. PICK v, w : v = d[n] /\ w = Descriptor(v)
      OBVIOUS
    <3>2. v \in ValidMacro
      BY <2>1, <3>1, DraftIs
    <3>3. w \in ValidMacro /\ w.triggers = v.triggers
      BY <3>1, <3>2, DescriptorIs
    <3>4. g[n] = [def |-> w, loaded |-> FALSE]
      BY <1>3, <1>5, <3>1
    <3> QED
      BY <3>1, <3>3, <3>4 DEF HeldMacro
  <2>3. DOMAIN g = DOMAIN d /\ g = [n \in DOMAIN d |-> g[n]]
    BY <1>3, <1>5
  <2>4. g \in [DOMAIN g -> HeldMacro]
    BY <2>2, <2>3
  <2> QED
    BY <2>1, <2>2, <2>3, <2>4, DraftIs
<1>6. PartsOK(m, p, Nothing, g, Nothing)
  BY <1>2, <1>3, <1>5 DEF PartsOK
<1>7. SlotOK(m, new) /\ new.pad = p /\ new.edited = Nothing /\ new.macros = g /\ new.draft = Nothing
  BY <1>4, <1>6, SlotMade
<1>8. TriggersOf(HeldMacros(new)) = TriggersOf(ShownMacros(sl))
  <2>1. PICK N, O : N = HeldMacros(new) /\ O = ShownMacros(sl)
    OBVIOUS
  <2>2. DOMAIN N = DOMAIN g /\ \A n \in DOMAIN g : N[n] = g[n].def
    BY <1>7, <2>1, HeldAre
  <2>3. CASE d = Nothing
    <3>1. O = HeldMacros(sl) /\ g = h
      BY <1>1, <1>3, <2>1, <2>3 DEF ShownMacros
    <3>2. N = O
      BY <1>1, <1>7, <2>1, <3>1 DEF HeldMacros
    <3> QED
      BY <2>1, <3>2
  <2>4. CASE d # Nothing
    <3>1. O = d
      BY <1>1, <2>1, <2>4 DEF ShownMacros
    <3> QED
      BY <1>5, <2>1, <2>2, <2>4, <3>1 DEF TriggersOf
  <2> QED
    BY <2>3, <2>4
<1> QED
  BY <1>1, <1>7, <1>8

-------------------------------------------------------------------------------
(***************************************************************************)
(* The job of a write.                                                     *)
(***************************************************************************)
LEMMA RefsTyped ==
  ASSUME NEW m, NEW p \in Profiles(m) \cup {Nothing}
  PROVE  RefTriggers(p) \subseteq Buttons
<1>1. CASE p = Nothing
  BY <1>1 DEF RefTriggers
<1>2. CASE p # Nothing
  <2>1. RefsOK(m, p.refs)
    BY <1>2, ProfileIs
  <2>2. \A k \in DOMAIN p.refs : p.refs[k].triggers \in SUBSET Buttons
    BY <2>1, RefIs
  <2>3. \A b \in RefTriggers(p) : \E k \in DOMAIN p.refs : b \in p.refs[k].triggers
    BY <1>2, NamedIn
  <2> QED
    BY <2>2, <2>3
<1> QED
  BY <1>1, <1>2

LEMMA DroppedTyped ==
  ASSUME NEW m, NEW sl, SlotOK(m, sl)
  PROVE  Dropped(sl) \subseteq Buttons
<1>1. RefTriggers(sl.pad) \subseteq Buttons
  BY RefsTyped DEF SlotOK, PartsOK
<1> QED
  BY <1>1 DEF Dropped

LEMMA HereIs == Here \in Places /\ Here = <<Here[1], Here[2]>> /\ Here[1] \in Modes /\ Here[2] \in Slots
<1>1. Here \in Modes \X Slots
  BY EditorConstants DEF Places
<1> QED
  BY <1>1 DEF Places

\* What a write puts in a macro slot.
PutFor(sl, n) ==
  IF n \in DOMAIN sl.draft THEN [sl.draft[n] EXCEPT !.triggers = @ \ Dropped(sl)] ELSE Zeroed

LEMMA PutForIs ==
  ASSUME NEW m, NEW sl, SlotOK(m, sl), sl.draft # Nothing, NEW n
  PROVE  /\ n \in DOMAIN sl.draft =>
              /\ PutFor(sl, n) \in ValidMacro /\ PutFor(sl, n).steps = sl.draft[n].steps
              /\ PutFor(sl, n).triggers = sl.draft[n].triggers \ Dropped(sl)
              /\ PutFor(sl, n) # Zeroed
         /\ n \notin DOMAIN sl.draft => PutFor(sl, n) = Zeroed
<1>1. CASE n \in DOMAIN sl.draft
  <2>1. PICK v, c, w : v = sl.draft[n] /\ c = v.triggers \ Dropped(sl) /\ w = PutFor(sl, n)
    OBVIOUS
  <2>2. v \in ValidMacro
    BY <1>1, <2>1, DraftIs DEF SlotOK, PartsOK
  <2>3. c \in SUBSET Buttons
    BY <2>1, <2>2, ValidIs
  <2>4. w = [v EXCEPT !.triggers = c]
    BY <1>1, <2>1 DEF PutFor
  <2>5. w \in ValidMacro /\ w.triggers = c /\ w.steps = v.steps
    BY <2>2, <2>3, <2>4, OtherTriggers
  <2>6. w # Zeroed
    BY <2>5, ValidIs
  <2> QED
    BY <1>1, <2>1, <2>5, <2>6
<1>2. CASE n \notin DOMAIN sl.draft
  BY <1>2 DEF PutFor
<1> QED
  BY <1>1, <1>2

\* The edits of a job put every macro that changed, once, as the window shows it.
EditsFit(m, sl, q) ==
  /\ \A i \in DOMAIN q : /\ q[i].at \in MacroSlots(m) /\ sl.draft # Nothing
                         /\ q[i].macro = PutFor(sl, q[i].at)
                         /\ \A j \in DOMAIN q : q[i].at = q[j].at => i = j
  /\ \A n \in MacroSlots(m) : (\E i \in DOMAIN q : q[i].at = n) \/ sl.draft = Nothing
       \/ /\ n \in DOMAIN sl.draft <=> n \in DOMAIN sl.macros
          /\ n \in DOMAIN sl.draft => Descriptor(sl.draft[n]) = Descriptor(sl.macros[n].def)

LEMMA MacroEditsAre ==
  ASSUME model \in Models, NEW sl, SlotOK(model, sl), NEW q, q = MacroEdits(sl)
  PROVE  /\ q \in Seq(Edit) /\ EditsFit(model, sl, q)
         /\ \A i \in DOMAIN q : q[i].macro \in ValidMacro \cup {Zeroed}
         /\ MacrosUnsaved(sl) => DOMAIN q # {}
<1>1. PICK b \in Nat : MacroSlots(model) = 1..b
  BY BankConstants DEF MacroSlots
<1>2. PICK S : S = {n \in MacroSlots(model) : MacroUnsaved(sl, n)}
  OBVIOUS
<1>3. PICK c, e : c = Cardinality(S) /\ e = InOrder(S)
  OBVIOUS
<1>4. Upto(b, S)
  BY <1>1, <1>2 DEF Upto
<1>5. Enum(S, c, e)
  BY <1>3, <1>4, InOrderSorts
<1>6. /\ c \in Nat /\ e \in [1..c -> S] /\ \A x \in S : \E i \in 1..c : e[i] = x
      /\ \A i, j \in 1..c : i < j => e[i] < e[j]
  BY <1>5 DEF Enum
<1>7. q = [k \in 1..c |-> [at |-> e[k], macro |-> PutFor(sl, e[k])]]
  <2>1. q = [k \in DOMAIN e |-> [at |-> e[k], macro |-> PutFor(sl, e[k])]]
    BY <1>2, <1>3, Zenon DEF MacroEdits, PutFor
  <2> QED
    BY <1>6, <2>1
<1>8. ASSUME NEW n \in S
      PROVE  n \in MacroSlots(model) /\ n \in Nat /\ sl.draft # Nothing /\ PutFor(sl, n) \in ValidMacro \cup {Zeroed}
  <2>1. n \in MacroSlots(model) /\ n \in Nat /\ sl.draft # Nothing
    BY <1>1, <1>2 DEF MacroUnsaved
  <2> QED
    BY <2>1, PutForIs
<1>9. ASSUME NEW k \in 1..c
      PROVE  /\ q[k] \in Edit /\ q[k].at = e[k] /\ e[k] \in S /\ q[k].macro = PutFor(sl, e[k])
             /\ q[k].macro \in ValidMacro \cup {Zeroed}
  <2>1. PICK n, v : n = e[k] /\ v = PutFor(sl, n)
    OBVIOUS
  <2>2. n \in S /\ n \in Nat /\ v \in ValidMacro \cup {Zeroed}
    BY <1>6, <1>8, <2>1
  <2>3. v \in Macro
    BY <2>2, ValidIs, ZeroedIs
  <2>4. q[k] = [at |-> n, macro |-> v]
    BY <1>7, <2>1
  <2> QED
    BY <2>1, <2>2, <2>3, <2>4 DEF Edit
<1>10. DOMAIN q = 1..c /\ q \in [1..c -> Edit]
  BY <1>7, <1>9
<1>11. q \in Seq(Edit)
  BY <1>6, <1>10, SeqDef
<1>12. \A i, j \in 1..c : e[i] = e[j] => i = j
  <2> SUFFICES ASSUME NEW i \in 1..c, NEW j \in 1..c, e[i] = e[j], i # j PROVE FALSE
    OBVIOUS
  <2>1. i < j \/ j < i
    BY <1>6
  <2>2. e[i] \in Nat
    BY <1>6, <1>8
  <2> QED
    BY <1>6, <2>1, <2>2
<1>13. ASSUME NEW n \in MacroSlots(model), sl.draft # Nothing, n \notin S
       PROVE  /\ n \in DOMAIN sl.draft <=> n \in DOMAIN sl.macros
              /\ n \in DOMAIN sl.draft => sl.draft[n] = sl.macros[n].def
  BY <1>2, <1>13 DEF MacroUnsaved
<1>14. EditsFit(model, sl, q)
  <2>1. ASSUME NEW i \in DOMAIN q
        PROVE  /\ q[i].at \in MacroSlots(model) /\ sl.draft # Nothing
               /\ q[i].macro = PutFor(sl, q[i].at) /\ \A j \in DOMAIN q : q[i].at = q[j].at => i = j
    BY <1>8, <1>9, <1>10, <1>12
  <2>2. ASSUME NEW n \in MacroSlots(model), n \in S PROVE \E i \in DOMAIN q : q[i].at = n
    BY <1>6, <1>9, <1>10, <2>2
  <2> QED
    BY <1>13, <2>1, <2>2 DEF EditsFit
<1>15. ASSUME MacrosUnsaved(sl) PROVE DOMAIN q # {}
  <2>1. PICK H : H = HeldMacros(sl)
    OBVIOUS
  <2>2. H \in Drafts(model) /\ DOMAIN H = DOMAIN sl.macros /\ \A n \in DOMAIN H : H[n] = sl.macros[n].def
    BY <2>1, HeldAre
  <2>3. sl.draft # Nothing /\ sl.draft # H /\ sl.draft \in Drafts(model)
    BY <1>15, <2>1 DEF MacrosUnsaved, SlotOK, PartsOK
  <2>4. \E n \in MacroSlots(model) : n \in S
    <3> SUFFICES ASSUME \A n \in MacroSlots(model) : n \notin S PROVE FALSE
      OBVIOUS
    <3>1. DOMAIN H \subseteq MacroSlots(model) /\ DOMAIN sl.draft \subseteq MacroSlots(model)
      BY <2>2, <2>3, DraftIs
    <3>2. DOMAIN H = DOMAIN sl.draft /\ \A n \in DOMAIN H : H[n] = sl.draft[n]
      BY <1>13, <2>2, <2>3, <3>1
    <3> QED
      BY <2>2, <2>3, <3>2, SameDraft
  <2> QED
    BY <1>6, <1>10, <2>4
<1> QED
  BY <1>9, <1>10, <1>11, <1>14, <1>15

\* The job writes what the window shows.
JobFits(m, sl, job) ==
  /\ job.map = IF ProfileUnsaved(sl) THEN sl.edited.map ELSE Keep
  /\ job.drops = Dropped(sl)
  /\ job.map # Keep \/ DOMAIN job.edits # {}
  /\ EditsFit(m, sl, job.edits)

ForHere(job) ==
  /\ JobShape(job) /\ Place(job) = Here /\ job.sound

LEMMA UploadJobIs ==
  ASSUME model \in Models, NEW sl, SlotOK(model, sl), NEW job, job = UploadJob(sl)
  PROVE  /\ ForHere(job) /\ job.op = "upload"
         /\ Unsaved(sl) => JobFits(model, sl, job)
<1>1. PICK map, drops, q : /\ map = IF ProfileUnsaved(sl) THEN sl.edited.map ELSE Keep
                           /\ drops = Dropped(sl) /\ q = MacroEdits(sl)
  OBVIOUS
<1>2. PICK x, y, bt, o : x = Here[1] /\ y = Here[2] /\ bt = (CHOOSE b \in Buttons : TRUE) /\ o = Unrecognised
  OBVIOUS
<1>12. bt \in Buttons /\ o \in Outputs
  BY <1>2, EditorConstants
<1>3. job = [mode |-> x, slot |-> y, op |-> "upload", map |-> map, drops |-> drops, edits |-> q,
             button |-> bt, output |-> o, sound |-> TRUE]
  BY <1>1, <1>2 DEF UploadJob
<1>4. /\ job.mode = x /\ job.slot = y /\ job.op = "upload" /\ job.map = map /\ job.drops = drops
      /\ job.edits = q /\ job.button = bt /\ job.output = o /\ job.sound = TRUE
      /\ DOMAIN job = {"mode", "slot", "op", "map", "drops", "edits", "button", "output", "sound"}
  BY <1>3
<1>5. /\ q \in Seq(Edit) /\ EditsFit(model, sl, q)
      /\ \A i \in DOMAIN q : q[i].macro \in ValidMacro \cup {Zeroed}
      /\ MacrosUnsaved(sl) => DOMAIN q # {}
  BY <1>1, MacroEditsAre
<1>6. drops \subseteq Buttons
  BY <1>1, DroppedTyped
<1>7. map \in [Buttons -> Outputs] \cup {Keep} /\ (ProfileUnsaved(sl) => map # Keep)
  <2>1. CASE ProfileUnsaved(sl)
    <3>1. sl.edited \in Profiles(model)
      BY <2>1 DEF SlotOK, PartsOK, ProfileUnsaved
    <3>2. map \in [Buttons -> Outputs]
      BY <1>1, <2>1, <3>1, ProfileIs
    <3> QED
      BY <3>2, PlanConstants
  <2>2. CASE ~ProfileUnsaved(sl)
    BY <1>1, <2>2
  <2> QED
    BY <2>1, <2>2
<1>8. Place(job) = Here
  BY <1>2, <1>4, HereIs DEF Place
<1>9. \A i \in DOMAIN q : q[i].macro = Zeroed \/ (q[i].macro.steps # NoSteps /\ ~q[i].macro.unknown)
  BY <1>5, ValidIs
<1>10. JobShape(job)
  BY <1>4, <1>5, <1>6, <1>7, <1>9, <1>12 DEF JobShape
<1>11. Unsaved(sl) => JobFits(model, sl, job)
  BY <1>1, <1>4, <1>5, <1>7 DEF Unsaved, JobFits
<1> QED
  BY <1>4, <1>8, <1>10, <1>11 DEF ForHere

LEMMA ClearJobIs ==
  ASSUME model \in Models, NEW job, job = ClearJob
  PROVE  ForHere(job) /\ job.op = "clear"
<1>1. PICK sl, u : sl = EmptySlot /\ u = UploadJob(sl)
  OBVIOUS
<1>2. ForHere(u)
  BY <1>1, EmptyIs, UploadJobIs
<1>3. job = [u EXCEPT !.op = "clear"]
  BY <1>1 DEF ClearJob
<1>4. DOMAIN u = {"mode", "slot", "op", "map", "drops", "edits", "button", "output", "sound"}
  BY <1>2 DEF ForHere, JobShape
<1>5. /\ job.op = "clear" /\ job.mode = u.mode /\ job.slot = u.slot /\ job.map = u.map /\ job.drops = u.drops
      /\ job.edits = u.edits /\ job.button = u.button /\ job.output = u.output /\ job.sound = u.sound
      /\ DOMAIN job = DOMAIN u
  BY <1>3, <1>4
<1>6. JobShape(job)
  BY <1>2, <1>4, <1>5 DEF ForHere, JobShape
<1> QED
  BY <1>2, <1>5, <1>6 DEF ForHere, Place

-------------------------------------------------------------------------------
(***************************************************************************)
(* What a write leaves.                                                    *)
(***************************************************************************)
LEMMA SettledIs ==
  ASSUME NEW m \in Models, NEW f \in Drafts(m), NEW g, g = Settled(m, f)
  PROVE  g \in Drafts(m) /\ TriggersOf(g) = TriggersOf(f) /\ Descriptors(g) = Settled(m, Descriptors(f))
<1>1. CASE ~IsPacked(m)
  BY <1>1 DEF Settled
<1>2. CASE IsPacked(m)
  <2>1. PICK b \in Nat : MacroSlots(m) = 1..b
    BY BankConstants DEF MacroSlots
  <2>2. DOMAIN f \subseteq 1..b /\ f \in [DOMAIN f -> ValidMacro]
    BY <2>1, DraftIs
  <2>3. Upto(b, DOMAIN f)
    BY <2>2 DEF Upto
  <2>4. PICK c, e : c = Cardinality(DOMAIN f) /\ e = InOrder(DOMAIN f)
    OBVIOUS
  <2>5. Enum(DOMAIN f, c, e) /\ c \in 0..b
    BY <2>3, <2>4, InOrderSorts
  <2>6. e \in [1..c -> DOMAIN f] /\ \A x \in DOMAIN f : \E i \in 1..c : e[i] = x
    BY <2>5 DEF Enum
  <2>7. g = [k \in 1..c |-> f[e[k]]]
    BY <1>2, <2>3, <2>5, PackIs DEF Settled
  <2>8. PICK d : d = Descriptors(f)
    OBVIOUS
  <2>9. d \in Drafts(m) /\ DOMAIN d = DOMAIN f /\ \A n \in DOMAIN f : d[n] = Descriptor(f[n])
    BY <2>8, DescriptorsAre
  <2>10. Settled(m, d) = [k \in 1..c |-> d[e[k]]]
    BY <1>2, <2>3, <2>5, <2>9, PackIs DEF Settled
  <2>11. DOMAIN g = 1..c /\ 1..c \subseteq MacroSlots(m) /\ g \in [DOMAIN g -> ValidMacro]
    BY <2>1, <2>2, <2>5, <2>6, <2>7
  <2>12. g \in Drafts(m)
    BY <2>11, DraftIs
  <2>13. Descriptors(g) = [k \in 1..c |-> Descriptor(g[k])]
    BY <2>11 DEF Descriptors
  <2>14. \A k \in 1..c : Descriptor(g[k]) = d[e[k]]
    BY <2>6, <2>7, <2>9
  <2>15. Descriptors(g) = Settled(m, d)
    BY <2>10, <2>13, <2>14
  <2>16. \A x : x \in TriggersOf(g) <=> x \in TriggersOf(f)
    <3>1. \A x : (\E k \in 1..c : x \in f[e[k]].triggers) <=> \E n \in DOMAIN f : x \in f[n].triggers
      BY <2>6
    <3> QED
      BY <2>7, <2>11, <3>1, StartersAre
  <2> QED
    BY <2>8, <2>12, <2>15, <2>16
<1> QED
  BY <1>1, <1>2

\* The edits of the job put on what the pad has leave what the window shows.
ShownFor(sl) == IF sl.draft # Nothing THEN Without(sl.draft, Dropped(sl)) ELSE AsShown(sl)

LEMMA EditedIs ==
  ASSUME NEW m, NEW sl, SlotOK(m, sl), NEW s, PadOK(m, s), Synced(m, sl, s), NEW q, EditsFit(m, sl, q),
         NEW E, E = EditedFor(Without(FoundIn(m, s), Dropped(sl)), q), NEW W, W = ShownFor(sl)
  PROVE  E \in Drafts(m) /\ W \in Drafts(m) /\ Descriptors(E) = Descriptors(W)
<1>1. PICK F, D : F = FoundIn(m, s) /\ D = Dropped(sl)
  OBVIOUS
<1>2. PICK G : G = Without(F, D)
  OBVIOUS
<1>3. F \in Drafts(m)
  BY <1>1 DEF PadOK
<1>4. /\ G \in Drafts(m) /\ DOMAIN G = DOMAIN F
      /\ \A n \in DOMAIN F : G[n].triggers = F[n].triggers \ D /\ G[n].steps = F[n].steps
  BY <1>2, <1>3, WithoutDraft
<1>5. /\ DOMAIN sl.macros = DOMAIN F
      /\ \A n \in DOMAIN F : Descriptor(sl.macros[n].def) = Descriptor(F[n])
  BY <1>1, SyncedIs DEF Synced
<1>6. PICK B : B = IF sl.draft # Nothing THEN sl.draft ELSE HeldMacros(sl)
  OBVIOUS
<1>7. B \in Drafts(m) /\ W = Without(B, D)
  <2>1. HeldMacros(sl) \in Drafts(m)
    BY HeldAre
  <2> QED
    BY <1>1, <1>6, <2>1 DEF ShownFor, AsShown, SlotOK, PartsOK
<1>8. /\ W \in Drafts(m) /\ DOMAIN W = DOMAIN B
      /\ \A n \in DOMAIN B : W[n].triggers = B[n].triggers \ D /\ W[n].steps = B[n].steps
  BY <1>7, WithoutDraft
<1>9. PICK T, Q : T = {q[i].at : i \in DOMAIN q} /\ Q = {n \in T : EditAt(q, n) # Zeroed}
  OBVIOUS
<1>10. E = [n \in (DOMAIN G \ T) \cup Q |-> IF n \in Q THEN EditAt(q, n) ELSE G[n]]
  BY <1>1, <1>2, <1>9 DEF EditedFor
<1>11. ASSUME NEW n \in T
       PROVE  n \in MacroSlots(m) /\ sl.draft # Nothing /\ EditAt(q, n) = PutFor(sl, n)
  <2>1. PICK k : k = CHOOSE i \in DOMAIN q : q[i].at = n
    OBVIOUS
  <2>2. k \in DOMAIN q /\ q[k].at = n
    BY <1>9, <2>1
  <2>3. EditAt(q, n) = q[k].macro
    BY <2>1 DEF EditAt
  <2> QED
    BY <2>2, <2>3 DEF EditsFit
<1>12. \A n \in T : n \in Q <=> n \in DOMAIN B
  BY <1>6, <1>9, <1>11, PutForIs
<1>13. ASSUME NEW n \in MacroSlots(m), n \notin T
       PROVE  (n \in DOMAIN B <=> n \in DOMAIN F) /\ (n \in DOMAIN B => Descriptor(B[n]) = Descriptor(F[n]))
  <2>1. CASE sl.draft = Nothing
    <3>1. DOMAIN B = DOMAIN sl.macros /\ \A k \in DOMAIN B : B[k] = sl.macros[k].def
      BY <1>6, <2>1, HeldAre
    <3> QED
      BY <1>5, <3>1
  <2>2. CASE sl.draft # Nothing
    <3>1. B = sl.draft /\ ~\E i \in DOMAIN q : q[i].at = n
      BY <1>6, <1>9, <1>13, <2>2
    <3> QED
      BY <1>5, <2>2, <3>1 DEF EditsFit
  <2> QED
    BY <2>1, <2>2
<1>14. DOMAIN F \subseteq MacroSlots(m) /\ DOMAIN B \subseteq MacroSlots(m) /\ Q \subseteq T
       /\ T \subseteq MacroSlots(m)
  BY <1>3, <1>7, <1>9, <1>11, DraftIs
<1>15. DOMAIN E = DOMAIN B
  BY <1>4, <1>10, <1>12, <1>13, <1>14
<1>16. ASSUME NEW n \in DOMAIN B
       PROVE  E[n] \in ValidMacro /\ Descriptor(E[n]) = Descriptor(W[n])
  <2>1. W[n] \in ValidMacro /\ B[n] \in ValidMacro
    BY <1>7, <1>8, DraftIs
  <2>2. CASE n \in Q
    <3>1. E[n] = PutFor(sl, n) /\ B = sl.draft /\ sl.draft # Nothing
      BY <1>6, <1>10, <1>11, <1>14, <2>2
    <3>2. E[n] \in ValidMacro /\ E[n].steps = B[n].steps /\ E[n].triggers = B[n].triggers \ D
      BY <1>1, <3>1, PutForIs
    <3>3. W[n].triggers = E[n].triggers /\ W[n].steps = E[n].steps
      BY <1>8, <3>2
    <3> QED
      BY <2>1, <3>2, <3>3, SameDescriptor
  <2>3. CASE n \notin Q
    <3>1. n \notin T /\ n \in MacroSlots(m)
      BY <1>12, <1>14, <2>3
    <3>2. n \in DOMAIN F /\ Descriptor(B[n]) = Descriptor(F[n])
      BY <1>13, <3>1
    <3>3. E[n] = G[n]
      BY <1>10, <1>15, <2>3
    <3>4. G[n] \in ValidMacro /\ F[n] \in ValidMacro
      BY <1>3, <1>4, <3>2, DraftIs
    <3>5. B[n].triggers = F[n].triggers /\ Placeholder[B[n].steps] = Placeholder[F[n].steps]
      BY <2>1, <3>2, <3>4, SameDescriptor
    <3>6. G[n].triggers = W[n].triggers /\ Placeholder[G[n].steps] = Placeholder[W[n].steps]
      BY <1>4, <1>8, <3>2, <3>5
    <3> QED
      BY <2>1, <3>3, <3>4, <3>6, SameDescriptor
  <2> QED
    BY <2>2, <2>3
<1>17. E \in Drafts(m)
  <2>1. E = [n \in DOMAIN E |-> E[n]]
    BY <1>10
  <2>2. E \in [DOMAIN E -> ValidMacro]
    BY <1>15, <1>16, <2>1
  <2> QED
    BY <1>14, <1>15, <2>2, DraftIs
<1>18. PICK DE, DW : DE = Descriptors(E) /\ DW = Descriptors(W)
  OBVIOUS
<1>19. /\ DE \in Drafts(m) /\ DOMAIN DE = DOMAIN E /\ \A n \in DOMAIN E : DE[n] = Descriptor(E[n])
       /\ DW \in Drafts(m) /\ DOMAIN DW = DOMAIN W /\ \A n \in DOMAIN W : DW[n] = Descriptor(W[n])
  BY <1>8, <1>17, <1>18, DescriptorsAre
<1>20. DE = DW
  BY <1>8, <1>15, <1>16, <1>19, SameDraft
<1> QED
  BY <1>8, <1>17, <1>18, <1>20

-------------------------------------------------------------------------------
(***************************************************************************)
(* Buttons that start a macro.                                             *)
(***************************************************************************)
Default(p, b) == p # Nothing /\ p.map[b] = DefaultMap[b]
PendsMacro(pend) == pend # Nothing /\ pend.kind = "macro"
AllLoaded(sl) == \A n \in DOMAIN sl.macros : sl.macros[n].loaded
PadStarters(m, s) == TriggersOf(FoundIn(m, s))

\* The slot on the pad starts each macro once, and what is known of it says so.
PadFits(m, sl, s, u) ==
  /\ StartsOnce(FoundIn(m, s), ViewFor(m, s).map)
  /\ sl.pad # Nothing <=> s.used
  /\ sl.pad # Nothing => sl.pad.map = ViewFor(m, s).map
  /\ PadStarters(m, s) \subseteq TriggersOf(HeldMacros(sl))
  /\ (u # NoMacros \/ AllLoaded(sl)) => PadStarters(m, s) \subseteq RefTriggers(sl.pad)

\* A button that starts a macro on the pad has its default output where the window, or an
\* import, has it start one.
TriggersFit(sl, pend, T) ==
  \A b \in T :
    /\ (sl.draft # Nothing /\ b \in TriggersOf(sl.draft)) => Default(Shown(sl), b)
    /\ (sl.draft = Nothing /\ sl.edited # Nothing /\ b \in RefTriggers(sl.edited)) => Default(sl.edited, b)
    /\ (PendsMacro(pend) /\ b \in pend.macro.triggers) => Default(Shown(sl), b)

\* Each macro of the draft is started once, and an imported one brings no clash.
Neat(sl, pend) ==
  /\ sl.draft # Nothing => Shown(sl) # Nothing /\ StartsOnce(sl.draft, Shown(sl).map)
  /\ PendsMacro(pend) =>
       /\ Shown(sl) # Nothing
       /\ \A b \in pend.macro.triggers : StartedBy(sl, b) \in {Nothing, pend.n} /\ ~MappedTo(sl, b)

\* What an edit keeps of both.
Knows(m, sl, pend, s, u) ==
  SlotOK(m, sl) /\ PadOK(m, s) /\ PadFits(m, sl, s, u) /\ TriggersFit(sl, pend, PadStarters(m, s))
EditFits(m, sl, pend, s, u, new) == Knows(m, sl, pend, s, u) => TriggersFit(new, Nothing, PadStarters(m, s))
EditNeat(m, sl, pend, s, u, new) ==
  (Knows(m, sl, pend, s, u) /\ Synced(m, sl, s) /\ Neat(sl, pend)) => Neat(new, Nothing)
EditKeeps(m, sl, pend, s, u, new) == EditFits(m, sl, pend, s, u, new) /\ EditNeat(m, sl, pend, s, u, new)

LEMMA OnceIs ==
  ASSUME NEW f, NEW map
  PROVE  StartsOnce(f, map) <=>
           /\ \A b \in TriggersOf(f) : map[b] = DefaultMap[b]
           /\ \A n, k \in DOMAIN f : \A b : b \in f[n].triggers /\ b \in f[k].triggers => n = k
<1>1. \A b : b \in TriggersOf(f) <=> \E n \in DOMAIN f : b \in f[n].triggers
  BY StartersAre
<1> QED
  BY <1>1 DEF StartsOnce

\* The same pad and macros are known of a slot with other edits.
LEMMA SameBaseFits ==
  ASSUME NEW m, NEW sl, NEW new, SameBase(sl, new), NEW s, NEW u
  PROVE  /\ HeldMacros(new) = HeldMacros(sl) /\ (AllLoaded(new) <=> AllLoaded(sl))
         /\ PadFits(m, sl, s, u) <=> PadFits(m, new, s, u)
         /\ Synced(m, sl, s) <=> Synced(m, new, s)
<1>1. HeldMacros(new) = HeldMacros(sl) /\ (AllLoaded(new) <=> AllLoaded(sl)) /\ new.pad = sl.pad
  BY DEF SameBase, HeldMacros, AllLoaded
<1> QED
  BY <1>1 DEF PadFits, Synced

\* A button that starts a macro on the pad has its default output there.
LEMMA PadDefault ==
  ASSUME NEW m \in Models, NEW sl, NEW s, NEW u, PadOK(m, s), PadFits(m, sl, s, u), NEW b \in PadStarters(m, s)
  PROVE  s.used /\ Default(sl.pad, b)
<1>1. s.used
  <2>1. ~s.used => FoundIn(m, s) = NoMacros
    BY ProfileFound
  <2>2. TriggersOf(NoMacros) = {}
    BY NothingHeld DEF TriggersOf
  <2>3. s.used \in BOOLEAN
    BY ProfileFound
  <2> QED
    BY <2>1, <2>2, <2>3 DEF PadStarters
<1>2. ViewFor(m, s).map[b] = DefaultMap[b]
  BY OnceIs DEF PadFits, PadStarters
<1> QED
  BY <1>1, <1>2 DEF PadFits, Default

\* The macros that show, when all that is read is known.
LEMMA AsShownDefault ==
  ASSUME NEW m \in Models, NEW sl, NEW pend, NEW s, NEW u, Knows(m, sl, pend, s, u), MacrosRead(sl) \/ Synced(m, sl, s),
         Shown(sl) # Nothing, NEW b \in PadStarters(m, s), b \in TriggersOf(AsShown(sl))
  PROVE  Default(Shown(sl), b)
<1>1. CASE sl.draft # Nothing
  <2>1. b \in TriggersOf(sl.draft)
    BY <1>1 DEF AsShown
  <2> QED
    BY <1>1, <2>1 DEF Knows, TriggersFit
<1>2. CASE sl.draft = Nothing
  <2>1. PICK H, A : H = HeldMacros(sl) /\ A = Without(H, Dropped(sl))
    OBVIOUS
  <2>2. H \in Drafts(m) /\ A = AsShown(sl)
    BY <1>2, <2>1, HeldAre DEF AsShown, Knows
  <2>3. b \notin Dropped(sl)
    <3>1. PICK n \in DOMAIN A : b \in A[n].triggers
      BY <2>2, StartersAre
    <3>2. n \in DOMAIN H /\ A[n].triggers = H[n].triggers \ Dropped(sl)
      <4>1. DOMAIN A = DOMAIN H /\ \A k \in DOMAIN H : A[k].triggers = H[k].triggers \ Dropped(sl)
        <5>1. PICK bs : bs = Dropped(sl)
          OBVIOUS
        <5>2. H \in Drafts(m) /\ A = Without(H, bs)
          BY <2>1, <2>2, <5>1
        <5>3. DOMAIN A = DOMAIN H /\ \A k \in DOMAIN H : A[k].triggers = H[k].triggers \ bs
          BY <5>2, WithoutDraft
        <5> QED
          BY <5>1, <5>3
      <4> QED
        BY <3>1, <4>1
    <3> QED
      BY <3>1, <3>2
  <2>4. b \in RefTriggers(sl.pad)
    <3>1. CASE MacrosRead(sl)
      <4>1. AllLoaded(sl)
        BY <1>2, <3>1 DEF MacrosRead, AllLoaded
      <4> QED
        BY <4>1 DEF Knows, PadFits
    <3>2. CASE Synced(m, sl, s)
      <4>1. sl.pad = ProfileIn(m, s) /\ RefTriggers(ProfileIn(m, s)) = PadStarters(m, s)
        BY <3>2, ProfileFound DEF Synced, PadStarters, Knows
      <4> QED
        BY <4>1
    <3> QED
      BY <3>1, <3>2
  <2>5. CASE sl.edited = Nothing
    <3>1. Shown(sl) = sl.pad
      BY <2>5 DEF Shown
    <3> QED
      BY <3>1, PadDefault DEF Knows
  <2>6. CASE sl.edited # Nothing
    <3>1. Shown(sl) = sl.edited /\ b \in RefTriggers(sl.edited)
      BY <1>2, <2>3, <2>4, <2>6 DEF Shown, Dropped
    <3> QED
      BY <1>2, <2>6, <3>1 DEF Knows, TriggersFit
  <2> QED
    BY <2>5, <2>6
<1> QED
  BY <1>1, <1>2

LEMMA AsShownOnce ==
  ASSUME NEW m \in Models, NEW sl, NEW pend, NEW s, NEW u, Knows(m, sl, pend, s, u), Synced(m, sl, s), Neat(sl, pend),
         Shown(sl) # Nothing
  PROVE  StartsOnce(AsShown(sl), Shown(sl).map)
<1>1. CASE sl.draft # Nothing
  BY <1>1 DEF Neat, AsShown
<1>2. CASE sl.draft = Nothing
  <2>1. PICK H, A, F : H = HeldMacros(sl) /\ A = Without(H, Dropped(sl)) /\ F = FoundIn(m, s)
    OBVIOUS
  <2>2. H \in Drafts(m) /\ A = AsShown(sl) /\ F \in Drafts(m) /\ DOMAIN H = DOMAIN sl.macros
        /\ \A n \in DOMAIN H : H[n] = sl.macros[n].def
    BY <1>2, <2>1, HeldAre DEF AsShown, Knows, PadOK
  <2>3. DOMAIN A = DOMAIN H /\ \A n \in DOMAIN H : A[n].triggers \subseteq H[n].triggers
    <3>1. DOMAIN A = DOMAIN H /\ \A n \in DOMAIN H : A[n].triggers = H[n].triggers \ Dropped(sl)
      <4>1. PICK bs : bs = Dropped(sl)
        OBVIOUS
      <4>2. H \in Drafts(m) /\ A = Without(H, bs)
        BY <2>1, <2>2, <4>1
      <4>3. DOMAIN A = DOMAIN H /\ \A n \in DOMAIN H : A[n].triggers = H[n].triggers \ bs
        BY <4>2, WithoutDraft
      <4> QED
        BY <4>1, <4>3
    <3> QED
      BY <3>1
  <2>4. DOMAIN H = DOMAIN F /\ \A n \in DOMAIN H : Descriptor(H[n]) = Descriptor(F[n])
    BY <2>1, <2>2, SyncedIs DEF Synced, Knows
  <2>5. \A n \in DOMAIN H : H[n].triggers = F[n].triggers
    <3>1. \A n \in DOMAIN H : H[n] \in ValidMacro /\ F[n] \in ValidMacro
      BY <2>2, <2>4, DraftIs
    <3> QED
      BY <2>4, <3>1, SameDescriptor
  <2>6. \A n, k \in DOMAIN F : \A b : b \in F[n].triggers /\ b \in F[k].triggers => n = k
    BY <2>1, OnceIs DEF Knows, PadFits
  <2>7. \A n, k \in DOMAIN A : \A b : b \in A[n].triggers /\ b \in A[k].triggers => n = k
    BY <2>3, <2>4, <2>5, <2>6
  <2>8. TriggersOf(A) \subseteq PadStarters(m, s)
    BY <2>1, <2>3, <2>4, <2>5 DEF TriggersOf, PadStarters
  <2>9. \A b \in TriggersOf(A) : Default(Shown(sl), b)
    BY <2>2, <2>8, AsShownDefault
  <2>10. \A b \in TriggersOf(A) : Shown(sl).map[b] = DefaultMap[b]
    BY <2>9 DEF Default
  <2> QED
    BY <2>2, <2>7, <2>10, OnceIs
<1> QED
  BY <1>1, <1>2

\* Macros that lost buttons are started once too.
LEMMA LessOnce ==
  ASSUME NEW f, NEW g, NEW map, NEW mapg, StartsOnce(f, map),
         \A n \in DOMAIN g : \A b \in g[n].triggers : n \in DOMAIN f /\ b \in f[n].triggers /\ mapg[b] = map[b]
  PROVE  StartsOnce(g, mapg)
BY DEF StartsOnce

\* A button is mapped.
LEMMA SetOutputKeeps ==
  ASSUME NEW m \in Models, NEW sl, SlotOK(m, sl), NEW pend, NEW s, NEW u, NEW b, NEW output \in Outputs,
         Shown(sl) # Nothing, NEW new, new = SetOutput(sl, b, output)
  PROVE  EditKeeps(m, sl, pend, s, u, new)
<1>1. IsMappedFrom(m, sl, b, output, new)
  BY SetOutputIs
<1>2. /\ SlotOK(m, new) /\ SameBase(sl, new)
      /\ new.draft = IF sl.draft = Nothing THEN Nothing ELSE Without(sl.draft, {b})
      /\ new.edited \in Profiles(m) /\ new.edited # Nothing /\ Shown(new) = new.edited
      /\ \A c \in Buttons : new.edited.map[c] = IF c = b THEN output ELSE Shown(sl).map[c]
      /\ RefTriggers(new.edited) = RefTriggers(Shown(sl)) \ {b}
  BY <1>1, ProfileIs DEF IsMappedFrom, Shown
<1>3. ASSUME sl.draft # Nothing
      PROVE  \A n \in DOMAIN new.draft : \A c \in new.draft[n].triggers :
               n \in DOMAIN sl.draft /\ c \in sl.draft[n].triggers /\ new.edited.map[c] = Shown(sl).map[c]
  <2>1. sl.draft \in Drafts(m) /\ new.draft = Without(sl.draft, {b})
    BY <1>2, <1>3 DEF SlotOK, PartsOK
  <2>2. /\ DOMAIN new.draft = DOMAIN sl.draft
        /\ \A n \in DOMAIN sl.draft : new.draft[n].triggers = sl.draft[n].triggers \ {b}
    BY <2>1, WithoutDraft
  <2>3. \A n \in DOMAIN sl.draft : sl.draft[n].triggers \subseteq Buttons
    <3>1. \A n \in DOMAIN sl.draft : sl.draft[n] \in ValidMacro
      BY <2>1, DraftIs
    <3> QED
      BY <3>1, ValidIs
  <2> QED
    BY <1>2, <2>2, <2>3
<1>4. ASSUME Knows(m, sl, pend, s, u) PROVE TriggersFit(new, Nothing, PadStarters(m, s))
  <2> SUFFICES ASSUME NEW c \in PadStarters(m, s)
                PROVE  /\ (new.draft # Nothing /\ c \in TriggersOf(new.draft)) => Default(Shown(new), c)
                       /\ (new.draft = Nothing /\ c \in RefTriggers(new.edited)) => Default(new.edited, c)
    BY DEF TriggersFit, PendsMacro
  <2>1. ASSUME new.draft # Nothing, c \in TriggersOf(new.draft) PROVE Default(Shown(new), c)
    <3>1. sl.draft # Nothing
      BY <1>2, <2>1
    <3>2. c \in TriggersOf(sl.draft) /\ new.edited.map[c] = Shown(sl).map[c]
      BY <1>3, <2>1, <3>1, StartersAre
    <3>3. Default(Shown(sl), c)
      BY <1>4, <3>1, <3>2 DEF Knows, TriggersFit
    <3> QED
      BY <1>2, <3>2, <3>3 DEF Default
  <2>2. ASSUME new.draft = Nothing, c \in RefTriggers(new.edited) PROVE Default(new.edited, c)
    <3>1. sl.draft = Nothing
      <4>1. sl.draft # Nothing => new.draft \in Drafts(m)
        BY <1>2, WithoutDraft DEF SlotOK, PartsOK
      <4> QED
        BY <2>2, <4>1, NoDraft
    <3>2. c \in RefTriggers(Shown(sl)) /\ c # b /\ c \in Buttons
      <4>1. RefTriggers(new.edited) \subseteq Buttons
        BY <1>2, RefsTyped
      <4> QED
        BY <1>2, <2>2, <4>1
    <3>3. Default(Shown(sl), c)
      <4>1. CASE sl.edited # Nothing
        <5>1. Shown(sl) = sl.edited
          BY <4>1 DEF Shown
        <5> QED
          BY <1>4, <3>1, <3>2, <4>1, <5>1 DEF Knows, TriggersFit
      <4>2. CASE sl.edited = Nothing
        <5>1. Shown(sl) = sl.pad
          BY <4>2 DEF Shown
        <5> QED
          BY <1>4, <5>1, PadDefault DEF Knows
      <4> QED
        BY <4>1, <4>2
    <3> QED
      BY <1>2, <3>2, <3>3 DEF Default
  <2> QED
    BY <2>1, <2>2
<1>5. ASSUME Neat(sl, pend) PROVE Neat(new, Nothing)
  <2>1. ASSUME sl.draft # Nothing PROVE StartsOnce(new.draft, new.edited.map)
    BY <1>3, <1>5, <2>1, LessOnce DEF Neat
  <2>2. new.draft # Nothing => sl.draft # Nothing
    BY <1>2
  <2> QED
    BY <1>2, <2>1, <2>2 DEF Neat, PendsMacro
<1> QED
  BY <1>4, <1>5 DEF EditKeeps, EditFits, EditNeat

\* Macros of the draft lose buttons only.
LEMMA TrimKeeps ==
  ASSUME NEW m \in Models, NEW sl, NEW pend, NEW s, NEW u, Editable(sl), NEW new, SlotOK(m, new), SameBase(sl, new),
         new.edited = sl.edited, new.draft # Nothing,
         \A n \in DOMAIN new.draft : \A b \in new.draft[n].triggers :
           n \in DOMAIN AsShown(sl) /\ b \in AsShown(sl)[n].triggers
  PROVE  EditKeeps(m, sl, pend, s, u, new)
<1>1. Shown(new) = Shown(sl) /\ Shown(sl) # Nothing /\ MacrosRead(sl)
  BY DEF SameBase, Shown, Editable
<1>2. ASSUME Knows(m, sl, pend, s, u) PROVE TriggersFit(new, Nothing, PadStarters(m, s))
  <2> SUFFICES ASSUME NEW b \in PadStarters(m, s), b \in TriggersOf(new.draft) PROVE Default(Shown(new), b)
    BY DEF TriggersFit, PendsMacro
  <2>1. b \in TriggersOf(AsShown(sl))
    BY StartersAre
  <2> QED
    BY <1>1, <1>2, <2>1, AsShownDefault
<1>3. ASSUME Knows(m, sl, pend, s, u), Synced(m, sl, s), Neat(sl, pend) PROVE Neat(new, Nothing)
  <2>1. StartsOnce(AsShown(sl), Shown(sl).map)
    BY <1>1, <1>3, AsShownOnce
  <2>2. StartsOnce(new.draft, Shown(new).map)
    BY <1>1, <2>1, LessOnce
  <2> QED
    BY <1>1, <2>2 DEF Neat, PendsMacro
<1> QED
  BY <1>2, <1>3 DEF EditKeeps, EditFits, EditNeat

\* A button joins a macro.
LEMMA JoinKeeps ==
  ASSUME NEW m \in Models, NEW sl, SlotOK(m, sl), NEW pend, NEW s, NEW u, Editable(sl), NEW b \in Buttons,
         NEW n \in DOMAIN ShownMacros(sl), NEW new, new = JoinMacro(sl, b, n)
  PROVE  SlotOK(m, new) /\ SameBase(sl, new) /\ EditKeeps(m, sl, pend, s, u, new)
<1>1. PICK o \in Outputs : o = DefaultMap[b]
  BY BankConstants
<1>2. PICK left : left = SetOutput(sl, b, o)
  OBVIOUS
<1>3. Shown(sl) # Nothing /\ MacrosRead(sl)
  BY DEF Editable
<1>4. EditKeeps(m, sl, pend, s, u, left)
  BY <1>2, <1>3, SetOutputKeeps
<1>5. PICK A : A = AsShown(left)
  OBVIOUS
<1>6. /\ SlotOK(m, new) /\ SameBase(sl, new) /\ SlotOK(m, left) /\ SameBase(sl, left)
      /\ left.draft = IF sl.draft = Nothing THEN Nothing ELSE Without(sl.draft, {b})
      /\ new.edited = left.edited /\ new.edited \in Profiles(m)
      /\ \A c \in Buttons : new.edited.map[c] = IF c = b THEN DefaultMap[b] ELSE Shown(sl).map[c]
      /\ new.draft \in Drafts(m) /\ DOMAIN new.draft = DOMAIN A
      /\ \A k \in DOMAIN new.draft : new.draft[k].triggers = (A[k].triggers \ {b}) \cup IF k = n THEN {b} ELSE {}
  <2>1. left = SetOutput(sl, b, DefaultMap[b])
    BY <1>1, <1>2
  <2>2. new = JoinMacro(sl, b, n) /\ Shown(sl) # Nothing
    BY <1>3
  <2>3. IsJoinedFrom(m, sl, b, n, left, new)
    BY <2>1, <2>2, JoinIs
  <2> QED
    BY <1>5, <2>3 DEF IsJoinedFrom
<1>7. new.edited # Nothing /\ Shown(new) = new.edited /\ Shown(left) = new.edited /\ new.draft # Nothing
  BY <1>6, ProfileIs, NoDraft DEF Shown
<1>8. MacrosRead(left)
  <2>1. CASE sl.draft = Nothing
    BY <1>3, <1>6, <2>1 DEF MacrosRead, SameBase
  <2>2. CASE sl.draft # Nothing
    <3>1. left.draft \in Drafts(m)
      BY <1>6, <2>2, WithoutDraft DEF SlotOK, PartsOK
    <3> QED
      BY <3>1, NoDraft DEF MacrosRead
  <2> QED
    BY <2>1, <2>2
<1>9. ASSUME Knows(m, sl, pend, s, u) PROVE Knows(m, left, Nothing, s, u)
  <2>1. PadFits(m, left, s, u)
    BY <1>6, <1>9, SameBaseFits DEF Knows
  <2> QED
    BY <1>4, <1>6, <1>9, <2>1 DEF Knows, EditKeeps, EditFits
<1>10. Default(new.edited, b)
  BY <1>6, <1>7 DEF Default
<1>11. \A c \in TriggersOf(new.draft) : c = b \/ c \in TriggersOf(A)
  BY <1>6, StartersAre
<1>12. ASSUME Knows(m, sl, pend, s, u) PROVE TriggersFit(new, Nothing, PadStarters(m, s))
  <2> SUFFICES ASSUME NEW c \in PadStarters(m, s), c \in TriggersOf(new.draft) PROVE Default(new.edited, c)
    BY <1>7 DEF TriggersFit, PendsMacro
  <2>1. CASE c = b
    BY <1>10, <2>1
  <2>2. CASE c # b
    <3>1. c \in TriggersOf(AsShown(left))
      BY <1>5, <1>11, <2>2
    <3> QED
      BY <1>7, <1>8, <1>9, <1>12, <3>1, AsShownDefault
  <2> QED
    BY <2>1, <2>2
<1>13. ASSUME Knows(m, sl, pend, s, u), Synced(m, sl, s), Neat(sl, pend) PROVE Neat(new, Nothing)
  <2>1. Synced(m, left, s) /\ Neat(left, Nothing)
    BY <1>4, <1>6, <1>13, SameBaseFits DEF EditKeeps, EditNeat
  <2>2. StartsOnce(A, new.edited.map)
    BY <1>5, <1>7, <1>9, <1>13, <2>1, AsShownOnce
  <2>3. \A c \in TriggersOf(new.draft) : new.edited.map[c] = DefaultMap[c]
    BY <1>10, <1>11, <2>2, OnceIs DEF Default
  <2>4. \A k, l \in DOMAIN A : \A c : c \in A[k].triggers /\ c \in A[l].triggers => k = l
    BY <2>2, OnceIs
  <2>5. \A k, l \in DOMAIN new.draft : \A c : c \in new.draft[k].triggers /\ c \in new.draft[l].triggers => k = l
    BY <1>6, <2>4
  <2>6. StartsOnce(new.draft, new.edited.map)
    BY <2>3, <2>5, OnceIs
  <2> QED
    BY <1>7, <2>6 DEF Neat, PendsMacro
<1> QED
  BY <1>6, <1>12, <1>13 DEF EditKeeps, EditFits, EditNeat

\* What an edit makes of a slot.
IsEdit(m, sl, pend, s, u, new) ==
  SlotOK(m, new) /\ SameBase(sl, new) /\ EditKeeps(m, sl, pend, s, u, new)

\* The slot is taken back to what the pad holds.
LEMMA ClearedKeeps ==
  ASSUME NEW m \in Models, NEW sl, SlotOK(m, sl), NEW pend, NEW s, NEW u,
         NEW new, new = [sl EXCEPT !.edited = Nothing, !.draft = Nothing]
  PROVE  IsEdit(m, sl, pend, s, u, new)
<1>1. new = SlotWith(sl.pad, Nothing, sl.macros, Nothing)
  <2>1. PICK p, e, h, d : p = sl.pad /\ e = sl.edited /\ h = sl.macros /\ d = sl.draft
    OBVIOUS
  <2>2. sl = SlotWith(p, e, h, d)
    BY <2>1 DEF SlotOK
  <2>3. BothTo(sl, Nothing, Nothing) = SlotWith(p, Nothing, h, Nothing)
    BY <2>2, BothExcept
  <2> QED
    BY <2>1, <2>3 DEF BothTo
<1>2. SlotOK(m, new) /\ SameBase(sl, new) /\ new.draft = Nothing /\ new.edited = Nothing
  BY <1>1, BothEdited
<1> QED
  BY <1>2 DEF IsEdit, EditKeeps, EditFits, EditNeat, TriggersFit, Neat, PendsMacro

\* A slot without a profile gets the default one.
LEMMA FromDefaultKeeps ==
  ASSUME NEW m \in Models, NEW sl, SlotOK(m, sl), NEW pend, NEW s, NEW u, Shown(sl) = Nothing,
         NEW new, new = [sl EXCEPT !.edited = [map |-> DefaultMap, refs |-> <<>>]]
  PROVE  IsEdit(m, sl, pend, s, u, new)
<1>1. PICK q, r : q = [map |-> DefaultMap, refs |-> r] /\ r = <<>>
  OBVIOUS
<1>2. RefsOK(m, r)
  <2>1. r \in Seq(Ref) /\ DOMAIN r = {}
    BY <1>1
  <2> QED
    BY <2>1 DEF RefsOK
<1>3. q \in Profiles(m)
  <2>1. DefaultMap \in [Buttons -> Outputs]
    BY BankConstants
  <2> QED
    BY <1>1, <1>2, <2>1, ProfileMade
<1>4. SlotOK(m, new) /\ SameBase(sl, new) /\ new.draft = sl.draft /\ new.edited = q
  <2>1. PICK p, e, h, d : p = sl.pad /\ e = sl.edited /\ h = sl.macros /\ d = sl.draft
    OBVIOUS
  <2>2. sl = SlotWith(p, e, h, d)
    BY <2>1 DEF SlotOK
  <2>3. new = SlotWith(p, q, h, d)
    BY <1>1, <2>2 DEF SlotWith
  <2>4. PartsOK(m, p, q, h, d)
    BY <1>3, <2>1 DEF SlotOK, PartsOK
  <2>5. PICK w : w = SlotWith(p, q, h, d)
    OBVIOUS
  <2>6. SlotOK(m, w) /\ w.pad = p /\ w.edited = q /\ w.macros = h /\ w.draft = d
    BY <2>4, <2>5, SlotMade
  <2> QED
    BY <2>1, <2>3, <2>5, <2>6 DEF SameBase
<1>5. sl.pad = Nothing
  BY DEF Shown
<1>6. ASSUME Knows(m, sl, pend, s, u) PROVE PadStarters(m, s) = {}
  <2>1. ASSUME NEW b \in PadStarters(m, s) PROVE FALSE
    <3>1. Default(sl.pad, b)
      BY <1>6, PadDefault DEF Knows
    <3> QED
      BY <1>5, <3>1 DEF Default
  <2> QED
    BY <2>1
<1>7. ASSUME Neat(sl, pend) PROVE Neat(new, Nothing)
  BY <1>4, <1>7 DEF Neat, PendsMacro
<1> QED
  BY <1>4, <1>6, <1>7 DEF IsEdit, EditKeeps, EditFits, EditNeat, TriggersFit

\* The draft begins as the macros that show.
LEMMA DraftKeeps ==
  ASSUME NEW m \in Models, NEW sl, SlotOK(m, sl), NEW pend, NEW s, NEW u, Editable(sl), NEW f \in Drafts(m),
         \A n \in DOMAIN f : \A b \in f[n].triggers : n \in DOMAIN AsShown(sl) /\ b \in AsShown(sl)[n].triggers,
         NEW new, new = [sl EXCEPT !.draft = f]
  PROVE  IsEdit(m, sl, pend, s, u, new)
<1>1. SlotOK(m, new) /\ SameBase(sl, new) /\ new.draft = f /\ new.edited = sl.edited
  BY DraftEdited
<1>2. new.draft # Nothing
  BY <1>1, NoDraft
<1>3. EditKeeps(m, sl, pend, s, u, new)
  BY <1>1, <1>2, TrimKeeps
<1> QED
  BY <1>1, <1>3 DEF IsEdit

LEMMA RemoveKeeps ==
  ASSUME NEW m \in Models, NEW sl, SlotOK(m, sl), NEW pend, NEW s, NEW u, Editable(sl), NEW n \in DOMAIN ShownMacros(sl),
         NEW b, NEW new, new = [sl EXCEPT !.draft = [AsShown(sl) EXCEPT ![n].triggers = @ \ {b}]]
  PROVE  IsEdit(m, sl, pend, s, u, new)
<1>1. PICK A, w, c, v, f : /\ A = AsShown(sl) /\ w = A[n] /\ c = w.triggers \ {b}
                           /\ v = [w EXCEPT !.triggers = c] /\ f = [A EXCEPT ![n] = v]
  OBVIOUS
<1>2. A \in Drafts(m) /\ n \in DOMAIN A
  BY <1>1, ShownAre
<1>3. w \in ValidMacro /\ c \in SUBSET Buttons
  <2>1. w \in ValidMacro
    BY <1>1, <1>2, DraftIs
  <2> QED
    BY <1>1, <2>1, ValidIs
<1>4. v \in ValidMacro /\ v.triggers = c
  BY <1>1, <1>3, OtherTriggers
<1>5. f \in Drafts(m) /\ DOMAIN f = DOMAIN A /\ f[n] = v /\ \A k \in DOMAIN A \ {n} : f[k] = A[k]
  BY <1>1, <1>2, <1>4, OneChanged
<1>6. new = [sl EXCEPT !.draft = f]
  BY <1>1
<1>7. \A k \in DOMAIN f : \A a \in f[k].triggers : k \in DOMAIN AsShown(sl) /\ a \in AsShown(sl)[k].triggers
  BY <1>1, <1>4, <1>5
<1> QED
  BY <1>5, <1>6, <1>7, DraftKeeps

LEMMA StepsKeep ==
  ASSUME NEW m \in Models, NEW sl, SlotOK(m, sl), NEW pend, NEW s, NEW u, Editable(sl), NEW n \in DOMAIN ShownMacros(sl),
         NEW l \in StepLists \ {NoSteps}, NEW new, new = [sl EXCEPT !.draft = [AsShown(sl) EXCEPT ![n].steps = l]]
  PROVE  IsEdit(m, sl, pend, s, u, new)
<1>1. PICK A, w, v, f : A = AsShown(sl) /\ w = A[n] /\ v = [w EXCEPT !.steps = l] /\ f = [A EXCEPT ![n] = v]
  OBVIOUS
<1>2. A \in Drafts(m) /\ n \in DOMAIN A
  BY <1>1, ShownAre
<1>3. w \in ValidMacro
  BY <1>1, <1>2, DraftIs
<1>4. v \in ValidMacro /\ v.triggers = w.triggers
  BY <1>1, <1>3, OtherSteps
<1>5. f \in Drafts(m) /\ DOMAIN f = DOMAIN A /\ f[n] = v /\ \A k \in DOMAIN A \ {n} : f[k] = A[k]
  BY <1>1, <1>2, <1>4, OneChanged
<1>6. new = [sl EXCEPT !.draft = f]
  BY <1>1
<1>7. \A k \in DOMAIN f : \A a \in f[k].triggers : k \in DOMAIN AsShown(sl) /\ a \in AsShown(sl)[k].triggers
  BY <1>1, <1>4, <1>5
<1> QED
  BY <1>5, <1>6, <1>7, DraftKeeps

\* A new macro starts nothing yet, and one that goes nothing any more.
LEMMA WithKeeps ==
  ASSUME NEW m \in Models, NEW sl, SlotOK(m, sl), NEW pend, NEW s, NEW u, Editable(sl), NEW n \in MacroSlots(m),
         NEW v \in ValidMacro \cup {Zeroed}, v = Zeroed \/ v.triggers = {},
         NEW new, new = [sl EXCEPT !.draft = With(AsShown(sl), n, v)]
  PROVE  IsEdit(m, sl, pend, s, u, new)
<1>1. PICK A, f : A = AsShown(sl) /\ f = With(A, n, v)
  OBVIOUS
<1>2. A \in Drafts(m)
  BY <1>1, ShownAre
<1>3. IsWith(m, A, n, v, f)
  BY <1>1, <1>2, WithIs
<1>4. new = [sl EXCEPT !.draft = f]
  BY <1>1
<1>5. \A k \in DOMAIN f : \A a \in f[k].triggers : k \in DOMAIN AsShown(sl) /\ a \in AsShown(sl)[k].triggers
  BY <1>1, <1>3 DEF IsWith
<1>6. f \in Drafts(m)
  BY <1>3 DEF IsWith
<1> QED
  BY <1>4, <1>5, <1>6, DraftKeeps

\* The import of a macro that waited.
LEMMA ImportedMacroKeeps ==
  ASSUME NEW m \in Models, NEW sl, SlotOK(m, sl), NEW pend, PendsMacro(pend), pend.n \in MacroSlots(m),
         pend.macro \in ValidMacro, NEW s, NEW u, Editable(sl),
         NEW f, f = With(AsShown(sl), pend.n, pend.macro), NEW new, new = [sl EXCEPT !.draft = f]
  PROVE  IsEdit(m, sl, pend, s, u, new)
<1>1. PICK A, n, v : A = AsShown(sl) /\ n = pend.n /\ v = pend.macro /\ f = With(A, n, v)
  OBVIOUS
<1>2. A \in Drafts(m)
  BY <1>1, ShownAre
<1>3. v \in ValidMacro /\ v # Zeroed /\ n \in MacroSlots(m)
  BY <1>1, ValidIs
<1>4. f \in Drafts(m) /\ DOMAIN f = DOMAIN A \cup {n} /\ \A k \in DOMAIN f : f[k] = IF k = n THEN v ELSE A[k]
  <2>1. IsWith(m, A, n, v, f)
    BY <1>1, <1>2, <1>3, WithIs
  <2> QED
    BY <1>3, <2>1 DEF IsWith
<1>5. SlotOK(m, new) /\ SameBase(sl, new) /\ new.draft = f /\ new.edited = sl.edited
  <2>1. f \in Drafts(m)
    BY <1>4
  <2> QED
    BY <2>1, DraftEdited
<1>6. new.draft # Nothing /\ Shown(new) = Shown(sl) /\ Shown(sl) # Nothing /\ MacrosRead(sl)
  BY <1>4, <1>5, NoDraft DEF SameBase, Shown, Editable
<1>7. \A b \in TriggersOf(f) : b \in v.triggers \/ b \in TriggersOf(A)
  BY <1>4, StartersAre
<1>8. ASSUME Knows(m, sl, pend, s, u) PROVE TriggersFit(new, Nothing, PadStarters(m, s))
  <2> SUFFICES ASSUME NEW b \in PadStarters(m, s), b \in TriggersOf(f) PROVE Default(Shown(sl), b)
    BY <1>5, <1>6 DEF TriggersFit, PendsMacro
  <2>1. CASE b \in v.triggers
    BY <1>1, <1>8, <2>1 DEF Knows, TriggersFit
  <2>2. CASE b \in TriggersOf(A)
    BY <1>1, <1>6, <1>8, <2>2, AsShownDefault
  <2> QED
    BY <1>7, <2>1, <2>2
<1>9. ASSUME Knows(m, sl, pend, s, u), Synced(m, sl, s), Neat(sl, pend) PROVE Neat(new, Nothing)
  <2>1. StartsOnce(A, Shown(sl).map)
    BY <1>1, <1>6, <1>9, AsShownOnce
  <2>2. \A b \in v.triggers : StartedBy(sl, b) \in {Nothing, n} /\ Shown(sl).map[b] = DefaultMap[b]
    BY <1>1, <1>9 DEF Neat, MappedTo
  <2>3. ASSUME NEW k \in DOMAIN A, NEW b, b \in A[k].triggers, b \in v.triggers PROVE k = n
    <3>1. n \in DOMAIN A /\ b \in A[n].triggers
      <4>1. PICK S : S = ShownMacros(sl)
        OBVIOUS
      <4>2. S \in Drafts(m) /\ DOMAIN A = DOMAIN S
        BY <1>1, <4>1, ShownAre
      <4>3. CASE sl.draft # Nothing
        <5>1. A = S
          BY <1>1, <4>1, <4>3 DEF AsShown, ShownMacros
        <5>2. b \in TriggersOf(S)
          BY <2>3, <5>1, StartersAre
        <5>3. StartedBy(sl, b) # Nothing
          BY <4>1, <4>3, <5>2, StartedIs
        <5>4. StartedBy(sl, b) = n
          BY <2>2, <2>3, <5>3
        <5> QED
          BY <1>3, <4>1, <5>1, <5>3, <5>4, StartedIs
      <4>4. CASE sl.draft = Nothing
        <5>1. PICK bs : bs = Dropped(sl)
          OBVIOUS
        <5>2. A = Without(S, bs)
          BY <1>1, <4>1, <4>4, <5>1 DEF AsShown, ShownMacros
        <5>3. \A j \in DOMAIN S : A[j].triggers = S[j].triggers \ bs
          BY <4>2, <5>2, WithoutDraft
        <5>4. b \in TriggersOf(S) /\ b \notin Dropped(sl)
          BY <2>3, <4>2, <5>1, <5>3, StartersAre
        <5>5. StartedBy(sl, b) # Nothing
          BY <4>1, <5>4, StartedIs
        <5>6. StartedBy(sl, b) = n
          BY <2>2, <2>3, <5>5
        <5>7. n \in DOMAIN S /\ b \in S[n].triggers
          BY <1>3, <4>1, <5>5, <5>6, StartedIs
        <5> QED
          BY <4>2, <5>1, <5>3, <5>4, <5>7
      <4> QED
        BY <4>3, <4>4
    <3> QED
      BY <2>1, <2>3, <3>1, OnceIs
  <2>4. \A k, l \in DOMAIN A : \A b : b \in A[k].triggers /\ b \in A[l].triggers => k = l
    BY <2>1, OnceIs
  <2>5. \A k, l \in DOMAIN f : \A b : b \in f[k].triggers /\ b \in f[l].triggers => k = l
    BY <1>4, <2>3, <2>4
  <2>6. \A b \in TriggersOf(f) : Shown(sl).map[b] = DefaultMap[b]
    BY <1>7, <2>1, <2>2, OnceIs
  <2>7. StartsOnce(f, Shown(sl).map)
    BY <2>5, <2>6, OnceIs
  <2> QED
    BY <1>5, <1>6, <2>7 DEF Neat, PendsMacro
<1> QED
  BY <1>5, <1>8, <1>9 DEF IsEdit, EditKeeps, EditFits, EditNeat

\* A reverted macro's buttons, and the ones it took, have the pad's output again.
LEMMA RevertedFits ==
  ASSUME NEW m \in Models, NEW sl, NEW pend, NEW s, NEW u, Knows(m, sl, pend, s, u), Shown(sl) # Nothing,
         sl.draft # Nothing, NEW n, ~RevertRefused(sl, n), NEW new, IsRevertedFrom(m, sl, n, new),
         NEW b \in PadStarters(m, s), b \in TriggersOf(new.draft)
  PROVE  Default(Shown(new), b)
<1>1. s.used /\ Default(sl.pad, b)
  BY PadDefault DEF Knows
<1>2. new.pad = sl.pad /\ (sl.edited = Nothing <=> new.edited = Nothing)
  BY DEF IsRevertedFrom, SameBase
<1>3. CASE sl.edited = Nothing
  <2>1. Shown(new) = sl.pad
    BY <1>2, <1>3 DEF Shown
  <2> QED
    BY <1>1, <2>1
<1>4. CASE sl.edited # Nothing
  <2>1. b \in Buttons
    <3>1. new.draft \in Drafts(m)
      BY DEF IsRevertedFrom
    <3>2. PICK k \in DOMAIN new.draft : b \in new.draft[k].triggers
      BY StartersAre
    <3>3. new.draft[k] \in ValidMacro
      BY <3>1, DraftIs
    <3> QED
      BY <3>2, <3>3, ValidIs
  <2>2. new.edited.map[b] = IF b \in Reverts(sl, n) THEN sl.pad.map[b] ELSE sl.edited.map[b]
    BY <1>1, <1>4, <2>1 DEF IsRevertedFrom, Default
  <2>3. Shown(new) = new.edited /\ new.edited # Nothing /\ Shown(sl) = sl.edited
    BY <1>2, <1>4 DEF Shown
  <2>4. CASE b \in Reverts(sl, n)
    BY <1>1, <2>2, <2>3, <2>4 DEF Default
  <2>5. CASE b \notin Reverts(sl, n)
    <3>1. PICK k \in DOMAIN new.draft : b \in new.draft[k].triggers
      BY StartersAre
    <3>2. k # n
      <4>1. k = n => n \in DOMAIN sl.macros /\ b \in sl.macros[n].def.triggers
        BY <3>1 DEF IsRevertedFrom
      <4> QED
        BY <2>5, <4>1 DEF Reverts, HeldTriggers
    <3>3. k \in DOMAIN sl.draft /\ b \in sl.draft[k].triggers
      <4>1. k \in DOMAIN sl.draft /\ b \in sl.draft[k].triggers \cup HomeOf(sl, n, k)
        BY <3>1, <3>2 DEF IsRevertedFrom
      <4> QED
        BY <2>5, <4>1 DEF Reverts, HomeOf
    <3>4. b \in TriggersOf(sl.draft)
      BY <3>3, StartersAre
    <3>5. Default(Shown(sl), b)
      BY <3>4 DEF Knows, TriggersFit
    <3> QED
      BY <2>2, <2>3, <2>5, <3>5 DEF Default
  <2> QED
    BY <2>4, <2>5
<1> QED
  BY <1>3, <1>4

\* A button starts one of the macros after a revert: the one that gets it back had it on the pad.
LEMMA RevertedOnce ==
  ASSUME NEW m \in Models, NEW sl, SlotOK(m, sl), NEW held, held = HeldMacros(sl), sl.draft # Nothing,
         \A k, l \in DOMAIN sl.draft : \A b : b \in sl.draft[k].triggers /\ b \in sl.draft[l].triggers => k = l,
         \A k, l \in DOMAIN held : \A b : b \in held[k].triggers /\ b \in held[l].triggers => k = l,
         NEW n, ~RevertRefused(sl, n), NEW new, IsRevertedFrom(m, sl, n, new),
         NEW k \in DOMAIN new.draft, NEW l \in DOMAIN new.draft, NEW b,
         b \in new.draft[k].triggers, b \in new.draft[l].triggers
  PROVE  k = l
<1>1. /\ held \in Drafts(m) /\ DOMAIN held = DOMAIN sl.macros
      /\ \A j \in DOMAIN held : held[j] = sl.macros[j].def
  BY HeldAre
<1>2. sl.draft \in Drafts(m)
  BY DEF SlotOK, PartsOK
<1>3. ASSUME NEW j \in DOMAIN new.draft, b \in new.draft[j].triggers
      PROVE  /\ j = n => n \in DOMAIN held /\ b \in held[n].triggers
             /\ j # n => /\ j \in DOMAIN sl.draft
                         /\ \/ b \in sl.draft[j].triggers
                            \/ b \in HomeOf(sl, n, j)
  <2>1. j \in (DOMAIN sl.draft \ {n}) \cup (DOMAIN sl.macros \cap {n})
    BY DEF IsRevertedFrom
  <2>2. CASE j = n
    <3>1. n \in DOMAIN sl.macros /\ new.draft[n].triggers = sl.macros[n].def.triggers
      BY <2>1, <2>2 DEF IsRevertedFrom
    <3> QED
      BY <1>1, <1>3, <2>2, <3>1
  <2>3. CASE j # n
    <3>1. new.draft[j].triggers = sl.draft[j].triggers \cup HomeOf(sl, n, j)
      BY <2>3 DEF IsRevertedFrom
    <3> QED
      BY <1>3, <2>1, <2>3, <3>1
  <2> QED
    BY <2>2, <2>3
<1>4. ASSUME NEW j, b \in HomeOf(sl, n, j)
      PROVE  /\ FirstOf(held, b) = j /\ n \in DOMAIN sl.draft /\ b \in sl.draft[n].triggers
             /\ ~(n \in DOMAIN held /\ b \in held[n].triggers)
  <2>1. b \in TakenBy(sl, n) /\ FirstOf(held, b) = j
    BY <1>4 DEF HomeOf
  <2> QED
    BY <1>1, <2>1 DEF TakenBy, HeldTriggers
<1>5. ASSUME NEW j \in DOMAIN sl.draft, b \in sl.draft[j].triggers, n \in DOMAIN held, b \in held[n].triggers
      PROVE  j = n
  <2>1. PICK f : f = StartedBy(sl, b)
    OBVIOUS
  <2>2. ShownMacros(sl) = sl.draft
    BY DEF ShownMacros
  <2>3. b \in TriggersOf(sl.draft)
    BY <1>5, StartersAre
  <2>4. f # Nothing /\ f \in DOMAIN sl.draft /\ b \in sl.draft[f].triggers
    BY <2>1, <2>2, <2>3, StartedIs
  <2>5. b \in HeldTriggers(sl, n)
    BY <1>1, <1>5 DEF HeldTriggers
  <2>6. f \in {Nothing, n}
    BY <2>1, <2>5 DEF RevertRefused
  <2> QED
    BY <1>5, <2>4, <2>6
<1>6. ASSUME k = n, l # n PROVE FALSE
  BY <1>3, <1>4, <1>5, <1>6
<1>7. ASSUME l = n, k # n PROVE FALSE
  BY <1>3, <1>4, <1>5, <1>7
<1>8. CASE k # n /\ l # n
  <2>1. CASE b \in HomeOf(sl, n, k) /\ b \in HomeOf(sl, n, l)
    BY <1>4, <2>1
  <2>2. CASE b \in HomeOf(sl, n, k) /\ b \in sl.draft[l].triggers
    <3>1. n \in DOMAIN sl.draft /\ b \in sl.draft[n].triggers
      BY <1>4, <2>2
    <3>2. l \in DOMAIN sl.draft
      BY <1>3, <1>8
    <3> QED
      BY <1>8, <2>2, <3>1, <3>2
  <2>3. CASE b \in sl.draft[k].triggers /\ b \in HomeOf(sl, n, l)
    <3>1. n \in DOMAIN sl.draft /\ b \in sl.draft[n].triggers
      BY <1>4, <2>3
    <3>2. k \in DOMAIN sl.draft
      BY <1>3, <1>8
    <3> QED
      BY <1>8, <2>3, <3>1, <3>2
  <2>4. CASE b \in sl.draft[k].triggers /\ b \in sl.draft[l].triggers
    <3>1. k \in DOMAIN sl.draft /\ l \in DOMAIN sl.draft
      BY <1>3, <1>8
    <3> QED
      BY <2>4, <3>1
  <2> QED
    BY <1>3, <1>8, <2>1, <2>2, <2>3, <2>4
<1> QED
  BY <1>6, <1>7, <1>8

LEMMA RevertKeeps ==
  ASSUME NEW m \in Models, NEW sl, SlotOK(m, sl), NEW pend, NEW s, NEW u, NEW n \in MacroSlots(m),
         MacroUnsaved(sl, n), Editable(sl), ~RevertRefused(sl, n), NEW new, new = Reverted(sl, n)
  PROVE  IsEdit(m, sl, pend, s, u, new)
<1>1. sl.draft # Nothing /\ Shown(sl) # Nothing
  BY DEF MacroUnsaved, Editable
<1>2. IsRevertedFrom(m, sl, n, new)
  BY <1>1, RevertedIs
<1>3. SlotOK(m, new) /\ SameBase(sl, new) /\ new.draft \in Drafts(m)
  BY <1>2 DEF IsRevertedFrom
<1>4. new.draft # Nothing
  BY <1>3, NoDraft
<1>5. ASSUME Knows(m, sl, pend, s, u), NEW b \in PadStarters(m, s), b \in TriggersOf(new.draft)
      PROVE  Default(Shown(new), b)
  BY <1>1, <1>2, <1>5, RevertedFits
<1>6. ASSUME Knows(m, sl, pend, s, u) PROVE TriggersFit(new, Nothing, PadStarters(m, s))
  BY <1>4, <1>5, <1>6 DEF TriggersFit, PendsMacro
<1>7. ASSUME Knows(m, sl, pend, s, u), Synced(m, sl, s), Neat(sl, pend) PROVE Neat(new, Nothing)
  <2>1. PICK held, F : held = HeldMacros(sl) /\ F = FoundIn(m, s)
    OBVIOUS
  <2>2. held \in Drafts(m) /\ F \in Drafts(m) /\ DOMAIN held = DOMAIN sl.macros
        /\ \A j \in DOMAIN held : held[j] = sl.macros[j].def
    BY <1>7, <2>1, HeldAre DEF Knows, PadOK
  <2>3. DOMAIN held = DOMAIN F /\ \A j \in DOMAIN held : held[j].triggers = F[j].triggers
    <3>1. DOMAIN held = DOMAIN F /\ \A j \in DOMAIN held : Descriptor(held[j]) = Descriptor(F[j])
      BY <1>7, <2>1, <2>2, SyncedIs DEF Synced, Knows
    <3>2. \A j \in DOMAIN held : held[j] \in ValidMacro /\ F[j] \in ValidMacro
      BY <2>2, <3>1, DraftIs
    <3> QED
      BY <3>1, <3>2, SameDescriptor
  <2>4. \A j, l \in DOMAIN held : \A b : b \in held[j].triggers /\ b \in held[l].triggers => j = l
    <3>1. \A j, l \in DOMAIN F : \A b : b \in F[j].triggers /\ b \in F[l].triggers => j = l
      BY <1>7, <2>1, OnceIs DEF Knows, PadFits
    <3> QED
      BY <2>3, <3>1
  <2>5. /\ \A b \in TriggersOf(sl.draft) : Shown(sl).map[b] = DefaultMap[b]
        /\ \A j, l \in DOMAIN sl.draft : \A b : b \in sl.draft[j].triggers /\ b \in sl.draft[l].triggers => j = l
    BY <1>1, <1>7, OnceIs DEF Neat
  <2>6. \A j, l \in DOMAIN new.draft : \A b : b \in new.draft[j].triggers /\ b \in new.draft[l].triggers => j = l
    BY <1>1, <1>2, <2>1, <2>4, <2>5, RevertedOnce
  <2>7. Shown(new) # Nothing
    <3>1. new.pad = sl.pad /\ (sl.edited = Nothing <=> new.edited = Nothing)
      BY <1>2 DEF IsRevertedFrom, SameBase
    <3> QED
      BY <1>1, <3>1 DEF Shown
  <2>8. ASSUME NEW b \in TriggersOf(new.draft) PROVE Shown(new).map[b] = DefaultMap[b]
    <3>1. CASE b \in PadStarters(m, s)
      BY <1>5, <1>7, <3>1 DEF Default
    <3>2. CASE b \notin PadStarters(m, s)
      <4>1. b \notin TriggersOf(held)
        BY <1>7, <2>1, <3>2, SyncedTriggers DEF PadStarters, Knows
      <4>2. PICK k \in DOMAIN new.draft : b \in new.draft[k].triggers
        BY <2>8, StartersAre
      <4>3. b \notin HeldTriggers(sl, n)
        BY <2>2, <4>1, StartersAre DEF HeldTriggers
      <4>4. k # n
        <5>1. k = n => n \in DOMAIN sl.macros /\ b \in sl.macros[n].def.triggers
          BY <1>2, <4>2 DEF IsRevertedFrom
        <5> QED
          BY <4>3, <5>1 DEF HeldTriggers
      <4>5. k \in DOMAIN sl.draft /\ (b \in sl.draft[k].triggers \/ b \in HomeOf(sl, n, k))
        BY <1>2, <4>2, <4>4 DEF IsRevertedFrom
      <4>6. b \notin HomeOf(sl, n, k)
        <5>1. PICK f : f = FirstOf(held, b)
          OBVIOUS
        <5>2. f = Nothing
          BY <2>2, <4>1, <5>1, FirstOne
        <5>3. k # Nothing
          <6>1. k \in MacroSlots(m)
            BY <1>3, <4>2, DraftIs
          <6> QED
            BY <6>1, EditorConstants DEF MacroSlots
        <5> QED
          BY <2>1, <5>1, <5>2, <5>3 DEF HomeOf
      <4>7. b \in sl.draft[k].triggers /\ b \in TriggersOf(sl.draft)
        BY <4>5, <4>6, StartersAre
      <4>8. b \notin Reverts(sl, n)
        <5>1. n \in DOMAIN sl.draft /\ b \in sl.draft[n].triggers => k = n
          BY <2>5, <4>5, <4>7
        <5> QED
          BY <4>3, <4>4, <5>1 DEF Reverts, TakenBy
      <4>9. b \in Buttons
        <5>1. sl.draft \in Drafts(m)
          BY <1>1 DEF SlotOK, PartsOK
        <5>2. sl.draft[k] \in ValidMacro
          BY <4>5, <5>1, DraftIs
        <5> QED
          BY <4>7, <5>2, ValidIs
      <4>10. new.pad = sl.pad /\ (sl.edited = Nothing <=> new.edited = Nothing)
             /\ (sl.edited # Nothing => new.edited.map[b] = sl.edited.map[b])
        BY <1>2, <4>8, <4>9 DEF IsRevertedFrom, SameBase
      <4>11. Shown(sl).map[b] = DefaultMap[b]
        BY <2>5, <4>7
      <4> QED
        BY <4>10, <4>11 DEF Shown
    <3> QED
      BY <3>1, <3>2
  <2>9. StartsOnce(new.draft, Shown(new).map)
    BY <2>6, <2>8, OnceIs
  <2> QED
    BY <2>7, <2>9 DEF Neat, PendsMacro
<1> QED
  BY <1>3, <1>6, <1>7 DEF IsEdit, EditKeeps, EditFits, EditNeat

\* A profile is taken in from a file, with its macros or without.
LEMMA ImportKeeps ==
  ASSUME NEW m \in Models, NEW sl, SlotOK(m, sl), NEW pend, NEW s, NEW u, NEW map \in [Buttons -> Outputs],
         NEW macros \in Drafts(m) \cup {Nothing}, macros # Nothing => StartsOnce(macros, map),
         NEW new, new = Imported(sl, map, macros)
  PROVE  IsEdit(m, sl, pend, s, u, new)
<1>1. IsImportedFrom(m, sl, map, macros, new)
  BY ImportedIs
<1>2. SlotOK(m, new) /\ SameBase(sl, new) /\ new.edited \in Profiles(m) /\ new.edited.map = map
  BY <1>1 DEF IsImportedFrom
<1>3. new.edited # Nothing /\ Shown(new) = new.edited
  BY <1>2, ProfileIs DEF Shown
<1>4. ASSUME NEW b, \/ b \in TriggersOf(ShownMacros(sl)) /\ b \in Buttons /\ b \notin Leaves(sl, map)
      PROVE  map[b] = DefaultMap[b]
  BY <1>4 DEF Leaves
<1>5. ASSUME sl.draft # Nothing, macros = Nothing
      PROVE  /\ new.draft # Nothing
             /\ \A k \in DOMAIN new.draft : \A b \in new.draft[k].triggers :
                  k \in DOMAIN sl.draft /\ b \in sl.draft[k].triggers /\ map[b] = DefaultMap[b]
  <2>1. /\ new.draft \in Drafts(m) /\ DOMAIN new.draft = DOMAIN sl.draft
        /\ \A k \in DOMAIN new.draft : new.draft[k].triggers = sl.draft[k].triggers \ Leaves(sl, map)
    BY <1>1, <1>5 DEF IsImportedFrom
  <2>2. new.draft # Nothing
    BY <2>1, NoDraft
  <2>3. ASSUME NEW k \in DOMAIN new.draft, NEW b \in new.draft[k].triggers
        PROVE  k \in DOMAIN sl.draft /\ b \in sl.draft[k].triggers /\ map[b] = DefaultMap[b]
    <3>1. k \in DOMAIN sl.draft /\ b \in sl.draft[k].triggers /\ b \notin Leaves(sl, map)
      BY <2>1, <2>3
    <3>2. b \in Buttons
      <4>1. new.draft[k] \in ValidMacro
        BY <2>1, DraftIs
      <4> QED
        BY <4>1, ValidIs
    <3>3. b \in TriggersOf(ShownMacros(sl))
      <4>1. ShownMacros(sl) = sl.draft
        BY <1>5 DEF ShownMacros
      <4> QED
        BY <3>1, <4>1, StartersAre
    <3> QED
      BY <1>4, <3>1, <3>2, <3>3
  <2> QED
    BY <2>2, <2>3
<1>6. ASSUME Knows(m, sl, pend, s, u) PROVE TriggersFit(new, Nothing, PadStarters(m, s))
  <2> SUFFICES ASSUME NEW b \in PadStarters(m, s),
                      \/ new.draft # Nothing /\ b \in TriggersOf(new.draft)
                      \/ new.draft = Nothing /\ b \in RefTriggers(new.edited)
               PROVE  map[b] = DefaultMap[b]
    BY <1>2, <1>3 DEF TriggersFit, PendsMacro, Default
  <2>1. CASE macros # Nothing
    <3>1. new.draft = macros
      BY <1>1, <2>1 DEF IsImportedFrom
    <3> QED
      BY <2>1, <3>1, OnceIs
  <2>2. CASE macros = Nothing /\ sl.draft # Nothing
    <3>1. b \in TriggersOf(new.draft)
      BY <1>5, <2>2
    <3> QED
      BY <1>5, <2>2, <3>1, StartersAre
  <2>3. CASE macros = Nothing /\ sl.draft = Nothing
    <3>1. new.draft = Nothing /\ RefTriggers(new.edited) = RefTriggers(sl.pad) \ Leaves(sl, map)
      BY <1>1, <2>3 DEF IsImportedFrom
    <3>2. b \notin Leaves(sl, map) /\ b \in Buttons
      <4>1. RefTriggers(new.edited) \subseteq Buttons
        BY <1>2, RefsTyped
      <4> QED
        BY <3>1, <4>1
    <3>3. b \in TriggersOf(ShownMacros(sl))
      BY <1>6, <2>3 DEF Knows, PadFits, ShownMacros
    <3> QED
      BY <1>4, <3>2, <3>3
  <2> QED
    BY <2>1, <2>2, <2>3
<1>7. ASSUME Neat(sl, pend) PROVE Neat(new, Nothing)
  <2>1. ASSUME new.draft # Nothing PROVE StartsOnce(new.draft, map)
    <3>1. CASE macros # Nothing
      BY <1>1, <3>1 DEF IsImportedFrom
    <3>2. CASE macros = Nothing
      <4>1. sl.draft # Nothing
        BY <1>1, <2>1, <3>2 DEF IsImportedFrom
      <4>2. /\ \A k \in DOMAIN new.draft : \A b \in new.draft[k].triggers :
                  k \in DOMAIN sl.draft /\ b \in sl.draft[k].triggers /\ map[b] = DefaultMap[b]
        BY <1>5, <3>2, <4>1
      <4>3. StartsOnce(sl.draft, Shown(sl).map)
        BY <1>7, <4>1 DEF Neat
      <4> QED
        BY <4>2, <4>3 DEF StartsOnce
    <3> QED
      BY <3>1, <3>2
  <2> QED
    BY <1>2, <1>3, <2>1 DEF Neat, PendsMacro
<1> QED
  BY <1>2, <1>6, <1>7 DEF IsEdit, EditKeeps, EditFits, EditNeat

\* The macros of a file: a button it maps elsewhere starts none.
LEMMA FileIs ==
  ASSUME NEW m \in Models, NEW file \in ProfileFiles
  PROVE  /\ file.map \in [Buttons -> Outputs]
         /\ file.macros # Nothing => FileMacros(file) \in Drafts(m) /\ StartsOnce(FileMacros(file), file.map)
<1>1. /\ file.map \in [Buttons -> Outputs]
      /\ file.macros # Nothing => file.macros \in Drafts(m) /\ StartsOnce(file.macros, DefaultMap)
  BY EditorData
<1>2. ASSUME file.macros # Nothing
      PROVE  FileMacros(file) \in Drafts(m) /\ StartsOnce(FileMacros(file), file.map)
  <2>1. PICK f, bs, g : f = file.macros /\ bs = {b \in Buttons : file.map[b] # DefaultMap[b]} /\ g = Without(f, bs)
    OBVIOUS
  <2>2. f \in Drafts(m) /\ g = FileMacros(file)
    BY <1>1, <1>2, <2>1 DEF FileMacros
  <2>3. g \in Drafts(m) /\ DOMAIN g = DOMAIN f /\ \A n \in DOMAIN f : g[n].triggers = f[n].triggers \ bs
    BY <2>1, <2>2, WithoutDraft
  <2>4. \A n, k \in DOMAIN f : \A b : b \in f[n].triggers /\ b \in f[k].triggers => n = k
    BY <1>1, <1>2, <2>1, OnceIs
  <2>5. ASSUME NEW b \in TriggersOf(g) PROVE file.map[b] = DefaultMap[b]
    <3>1. PICK n \in DOMAIN g : b \in g[n].triggers
      BY StartersAre
    <3>2. g[n] \in ValidMacro
      BY <2>3, DraftIs
    <3>3. b \in Buttons
      BY <3>1, <3>2, ValidIs
    <3> QED
      BY <2>1, <2>3, <3>1, <3>3
  <2>6. \A n, k \in DOMAIN g : \A b : b \in g[n].triggers /\ b \in g[k].triggers => n = k
    BY <2>3, <2>4
  <2>7. StartsOnce(g, file.map)
    BY <2>5, <2>6, OnceIs
  <2> QED
    BY <2>2, <2>3, <2>7
<1> QED
  BY <1>1, <1>2

\* What waits for a yes.
PendOK(m, pend) ==
  \/ pend = Nothing
  \/ /\ pend.kind = "macro"
     /\ pend.n \in MacroSlots(m) /\ pend.macro \in ValidMacro
  \/ /\ pend.kind = "profile"
     /\ pend.map \in [Buttons -> Outputs] /\ pend.macros \in Drafts(m) \cup {Nothing}
     /\ pend.macros # Nothing => StartsOnce(pend.macros, pend.map)

\* The macro of a file is made ready for the slot: no button of it clashes.
LEMMA ReadyIs ==
  ASSUME NEW m \in Models, NEW sl, SlotOK(m, sl), Shown(sl) # Nothing, NEW n \in MacroSlots(m), NEW macro \in ValidMacro,
         NEW pend, pend = [kind |-> "macro", n |-> n, macro |-> ReadyMacro(sl, n, macro)]
  PROVE  /\ PendOK(m, pend)
         /\ \A T : TriggersFit(sl, Nothing, T) => TriggersFit(sl, pend, T)
         /\ Neat(sl, Nothing) => Neat(sl, pend)
<1>1. PICK bs, w : /\ bs = {b \in macro.triggers : StartedBy(sl, b) \in {Nothing, n} /\ ~MappedTo(sl, b)}
                   /\ w = [macro EXCEPT !.triggers = bs]
  OBVIOUS
<1>2. w = ReadyMacro(sl, n, macro)
  BY <1>1 DEF ReadyMacro
<1>3. bs \in SUBSET Buttons
  BY <1>1, ValidIs
<1>4. w \in ValidMacro /\ w.triggers = bs
  BY <1>1, <1>3, OtherTriggers
<1>5. pend.kind = "macro" /\ pend.n = n /\ pend.macro = w
  BY <1>2
<1>6. \A b \in pend.macro.triggers : /\ StartedBy(sl, b) \in {Nothing, n} /\ ~MappedTo(sl, b)
                                     /\ Default(Shown(sl), b)
  BY <1>1, <1>4, <1>5 DEF MappedTo, Default
<1>7. PendOK(m, pend)
  BY <1>4, <1>5 DEF PendOK
<1>8. ASSUME NEW T, TriggersFit(sl, Nothing, T) PROVE TriggersFit(sl, pend, T)
  BY <1>6, <1>8 DEF TriggersFit
<1>9. ASSUME Neat(sl, Nothing) PROVE Neat(sl, pend)
  BY <1>5, <1>6, <1>9 DEF Neat
<1> QED
  BY <1>7, <1>8, <1>9

\* What waits is let go, or a profile waits.
LEMMA NoMacroPends ==
  ASSUME NEW sl, NEW pend, NEW other, ~PendsMacro(other)
  PROVE  /\ \A T : TriggersFit(sl, pend, T) => TriggersFit(sl, other, T)
         /\ Neat(sl, pend) => Neat(sl, other)
BY DEF TriggersFit, Neat

LEMMA SameKeeps ==
  ASSUME NEW m \in Models, NEW sl, SlotOK(m, sl), NEW pend, NEW s, NEW u
  PROVE  IsEdit(m, sl, pend, s, u, sl)
<1>1. ~PendsMacro(Nothing)
  BY DEF PendsMacro
<1> QED
  BY <1>1, NoMacroPends DEF IsEdit, EditKeeps, EditFits, EditNeat, SameBase, Knows

-------------------------------------------------------------------------------
(***************************************************************************)
(* Reads.                                                                  *)
(***************************************************************************)
Exist(sl, pend) == sl.edited # Nothing \/ sl.draft # Nothing \/ pend # Nothing

SameStarts(f, g) == DOMAIN f = DOMAIN g /\ \A n \in DOMAIN f : f[n].triggers = g[n].triggers

LEMMA SameFirst ==
  ASSUME NEW f, NEW g, SameStarts(f, g), NEW b
  PROVE  FirstOf(f, b) = FirstOf(g, b) /\ TriggersOf(f) = TriggersOf(g)
<1>1. {n \in DOMAIN f : b \in f[n].triggers} = {n \in DOMAIN g : b \in g[n].triggers}
  BY DEF SameStarts
<1>2. TriggersOf(f) = TriggersOf(g)
  BY DEF SameStarts, TriggersOf
<1>3. PICK ns : ns = {n \in DOMAIN f : b \in f[n].triggers}
  OBVIOUS
<1>4. FirstOf(f, b) = IF ns = {} THEN Nothing ELSE CHOOSE n \in ns : \A k \in ns : n <= k
  BY <1>3 DEF FirstOf
<1>5. PICK ms : ms = {n \in DOMAIN g : b \in g[n].triggers}
  OBVIOUS
<1>6. FirstOf(g, b) = IF ms = {} THEN Nothing ELSE CHOOSE n \in ms : \A k \in ms : n <= k
  BY <1>5 DEF FirstOf
<1>7. ms = ns
  BY <1>1, <1>3, <1>5
<1> QED
  BY <1>2, <1>4, <1>6, <1>7

\* Macros with the same descriptors have the same triggers.
LEMMA DescribedStarts ==
  ASSUME NEW m, NEW f \in Drafts(m), NEW g \in Drafts(m), Descriptors(f) = Descriptors(g)
  PROVE  SameStarts(f, g)
<1>1. PICK d, e : d = Descriptors(f) /\ e = Descriptors(g)
  OBVIOUS
<1>2. DOMAIN d = DOMAIN f /\ \A n \in DOMAIN f : d[n] = Descriptor(f[n])
  BY <1>1, DescriptorsAre
<1>3. DOMAIN e = DOMAIN g /\ \A n \in DOMAIN g : e[n] = Descriptor(g[n])
  BY <1>1, DescriptorsAre
<1>4. DOMAIN f = DOMAIN g /\ \A n \in DOMAIN f : Descriptor(f[n]) = Descriptor(g[n])
  BY <1>1, <1>2, <1>3
<1>5. \A n \in DOMAIN f : f[n] \in ValidMacro /\ g[n] \in ValidMacro
  BY <1>4, DraftIs
<1> QED
  BY <1>4, <1>5, SameDescriptor DEF SameStarts

\* What a slot starts is told by its profile, its draft and the triggers of its macros.
LEMMA SameStarted ==
  ASSUME NEW sl, NEW new, new.pad = sl.pad, new.edited = sl.edited, new.draft = sl.draft,
         SameStarts(HeldMacros(sl), HeldMacros(new)), NEW b
  PROVE  StartedBy(new, b) = StartedBy(sl, b) /\ Dropped(new) = Dropped(sl) /\ (MappedTo(new, b) <=> MappedTo(sl, b))
<1>1. Dropped(new) = Dropped(sl) /\ Shown(new) = Shown(sl)
  BY DEF Dropped, Shown
<1>2. PICK f, g : f = ShownMacros(sl) /\ g = ShownMacros(new)
  OBVIOUS
<1>3. SameStarts(f, g)
  BY <1>2 DEF ShownMacros, SameStarts
<1>4. FirstOf(f, b) = FirstOf(g, b)
  BY <1>3, SameFirst
<1> QED
  BY <1>1, <1>2, <1>4 DEF StartedBy, MappedTo

\* The slot as it was just read.
LEMMA SyncedFits ==
  ASSUME NEW m \in Models, NEW sl, SlotOK(m, sl), NEW s, PadOK(m, s), Synced(m, sl, s), NEW u,
         StartsOnce(FoundIn(m, s), ViewFor(m, s).map)
  PROVE  PadFits(m, sl, s, u)
<1>1. PICK p : p = ProfileIn(m, s)
  OBVIOUS
<1>2. /\ s.used \in BOOLEAN
      /\ ~s.used => p = Nothing
      /\ s.used => p \in Profiles(m) /\ p.map = ViewFor(m, s).map
      /\ RefTriggers(p) = TriggersOf(FoundIn(m, s))
  BY <1>1, ProfileFound
<1>3. s.used => p # Nothing
  BY <1>2, ProfileIs
<1>4. TriggersOf(HeldMacros(sl)) = TriggersOf(FoundIn(m, s))
  BY SyncedTriggers
<1>5. sl.pad = p
  BY <1>1 DEF Synced
<1> QED
  BY <1>2, <1>3, <1>4, <1>5 DEF PadFits, PadStarters

IsReadKept(m, sl, pend, s, u, new) ==
  /\ PadFits(m, new, s, u)
  /\ TriggersFit(new, pend, PadStarters(m, s))

LEMMA ReadFits ==
  ASSUME model \in Models, NEW sl, NEW pend, NEW s, NEW u, Knows(model, sl, pend, s, u),
         NEW new, IsReadFrom(sl, s, new), NEW w
  PROVE  IsReadKept(model, sl, pend, s, w, new)
<1>1. SlotOK(model, new) /\ PadOK(model, s) /\ SlotOK(model, sl)
  BY DEF IsReadFrom, Knows
<1>2. PadFits(model, new, s, w)
  BY <1>1, SyncedFits DEF IsReadFrom, Knows, PadFits
<1>3. new.edited = Nothing \/ new.edited = sl.edited
  BY DEF IsReadFrom
<1>4. ASSUME NEW b \in PadStarters(model, s), Default(Shown(sl), b) PROVE Default(Shown(new), b)
  <2>1. CASE new.edited # Nothing
    BY <1>3, <1>4, <2>1 DEF Shown
  <2>2. CASE new.edited = Nothing
    <3>1. Default(new.pad, b)
      BY <1>1, <1>2, PadDefault
    <3> QED
      BY <2>2, <3>1 DEF Shown
  <2> QED
    BY <2>1, <2>2
<1>5. ASSUME NEW b \in PadStarters(model, s)
      PROVE  /\ (new.draft # Nothing /\ b \in TriggersOf(new.draft)) => Default(Shown(new), b)
             /\ (new.draft = Nothing /\ new.edited # Nothing /\ b \in RefTriggers(new.edited)) => Default(new.edited, b)
             /\ (PendsMacro(pend) /\ b \in pend.macro.triggers) => Default(Shown(new), b)
  <2>1. ASSUME new.draft # Nothing, b \in TriggersOf(new.draft) PROVE Default(Shown(new), b)
    <3>1. new.draft = sl.draft
      BY <2>1 DEF IsReadFrom
    <3>2. Default(Shown(sl), b)
      BY <2>1, <3>1 DEF Knows, TriggersFit
    <3> QED
      BY <1>4, <3>2
  <2>2. ASSUME new.draft = Nothing, new.edited # Nothing, b \in RefTriggers(new.edited)
        PROVE  Default(new.edited, b)
    <3>1. new.edited = sl.edited
      BY <1>3, <2>2
    <3>2. CASE sl.draft = Nothing
      BY <2>2, <3>1, <3>2 DEF Knows, TriggersFit
    <3>3. CASE sl.draft # Nothing
      <4>1. sl.draft = HeldMacros(sl)
        BY <2>2, <3>3 DEF IsReadFrom, MacrosUnsaved
      <4>2. b \in TriggersOf(sl.draft)
        BY <4>1 DEF Knows, PadFits
      <4>3. Default(Shown(sl), b)
        BY <3>3, <4>2 DEF Knows, TriggersFit
      <4> QED
        BY <2>2, <3>1, <4>3 DEF Shown
    <3> QED
      BY <3>2, <3>3
  <2>3. ASSUME PendsMacro(pend), b \in pend.macro.triggers PROVE Default(Shown(new), b)
    <3>1. Default(Shown(sl), b)
      BY <2>3 DEF Knows, TriggersFit
    <3> QED
      BY <1>4, <3>1
  <2> QED
    BY <2>1, <2>2, <2>3
<1>6. TriggersFit(new, pend, PadStarters(model, s))
  BY <1>5 DEF TriggersFit
<1> QED
  BY <1>2, <1>6 DEF IsReadKept

\* Nobody but the window wrote: a read finds what the edits began on.
LEMMA ReadNeat ==
  ASSUME model \in Models, NEW sl, NEW pend, NEW s, NEW u, Knows(model, sl, pend, s, u), Neat(sl, pend),
         Exist(sl, pend) => Synced(model, sl, s),
         NEW new, IsReadFrom(sl, s, new)
  PROVE  Neat(new, pend) /\ ~ChangedUnderEdits(sl, s)
<1>1. SlotOK(model, new) /\ PadOK(model, s) /\ SlotOK(model, sl) /\ Synced(model, new, s)
  BY DEF IsReadFrom, Knows
<1>2. CASE ~Exist(sl, pend)
  <2>1. sl.edited = Nothing /\ sl.draft = Nothing /\ pend = Nothing
    BY <1>2 DEF Exist
  <2>2. new.draft = Nothing
    BY <2>1 DEF IsReadFrom
  <2>3. Neat(new, pend)
    BY <2>1, <2>2 DEF Neat, PendsMacro
  <2> QED
    BY <2>1, <2>3 DEF ChangedUnderEdits, MacrosChanged, ProfileUnsaved, MacrosUnsaved
<1>3. CASE Exist(sl, pend)
  <2>1. Synced(model, sl, s)
    BY <1>3
  <2>2. sl.pad = ProfileIn(model, s) /\ new.pad = sl.pad
    BY <1>1, <2>1 DEF Synced
  <2>3. new.edited = sl.edited /\ Shown(new) = Shown(sl)
    BY <2>2 DEF IsReadFrom, Shown
  <2>4. ~ChangedUnderEdits(sl, s)
    <3>1. Descriptors(HeldMacros(sl)) = Descriptors(FoundMacros(s)) /\ sl.pad = FoundProfile(s)
      BY <2>1, <2>2, FoundAre DEF Synced
    <3> QED
      BY <3>1 DEF ChangedUnderEdits, MacrosChanged
  <2>5. PICK H, G : H = HeldMacros(sl) /\ G = HeldMacros(new)
    OBVIOUS
  <2>6. H \in Drafts(model) /\ G \in Drafts(model)
    BY <1>1, <2>5, HeldAre
  <2>7. SameStarts(H, G)
    BY <1>1, <2>1, <2>5, <2>6, DescribedStarts DEF Synced
  <2>8. ASSUME NEW b, NEW n, StartedBy(sl, b) \in {Nothing, n}, ~MappedTo(sl, b)
        PROVE  StartedBy(new, b) \in {Nothing, n} /\ ~MappedTo(new, b)
    <3>1. ~MappedTo(new, b)
      BY <2>3, <2>8 DEF MappedTo
    <3>2. CASE new.draft = sl.draft
      BY <2>2, <2>3, <2>5, <2>7, <2>8, <3>2, SameStarted
    <3>3. CASE new.draft # sl.draft
      <4>1. new.draft = Nothing /\ sl.draft # Nothing /\ sl.draft = H
        BY <2>5, <3>3 DEF IsReadFrom, MacrosUnsaved
      <4>2. StartedBy(sl, b) = FirstOf(H, b)
        BY <4>1 DEF StartedBy, ShownMacros
      <4>3. FirstOf(G, b) = FirstOf(H, b)
        BY <2>7, SameFirst
      <4>4. StartedBy(new, b) \in {Nothing, FirstOf(G, b)}
        BY <2>5, <4>1 DEF StartedBy, ShownMacros
      <4> QED
        BY <2>8, <3>1, <4>2, <4>3, <4>4
    <3> QED
      BY <3>1, <3>2, <3>3
  <2>9. new.draft # Nothing => Shown(new) # Nothing /\ StartsOnce(new.draft, Shown(new).map)
    <3>1. new.draft # Nothing => new.draft = sl.draft
      BY DEF IsReadFrom
    <3> QED
      BY <2>3, <3>1 DEF Neat
  <2>10. PendsMacro(pend) =>
            /\ Shown(new) # Nothing
            /\ \A b \in pend.macro.triggers : StartedBy(new, b) \in {Nothing, pend.n} /\ ~MappedTo(new, b)
    BY <2>3, <2>8 DEF Neat
  <2> QED
    BY <2>4, <2>9, <2>10 DEF Neat
<1> QED
  BY <1>2, <1>3

\* Steps that come change nothing else.
LEMMA FilledKeeps ==
  ASSUME NEW m \in Models, NEW sl, SlotOK(m, sl), NEW pend, NEW s, NEW u, PadOK(m, s), u # NoMacros,
         NEW new, IsFilledFrom(m, sl, new)
  PROVE  /\ Synced(m, sl, s) <=> Synced(m, new, s)
         /\ PadFits(m, sl, s, u) => PadFits(m, new, s, NoMacros)
         /\ \A T : TriggersFit(sl, pend, T) => TriggersFit(new, pend, T)
         /\ Neat(sl, pend) => Neat(new, pend)
         /\ \A job : JobFits(m, sl, job) => JobFits(m, new, job)
<1>1. /\ SlotOK(m, new) /\ new.pad = sl.pad /\ new.edited = sl.edited /\ new.draft = sl.draft
      /\ DOMAIN new.macros = DOMAIN sl.macros
      /\ \A n \in DOMAIN sl.macros : Descriptor(new.macros[n].def) = Descriptor(sl.macros[n].def)
  BY DEF IsFilledFrom
<1>2. PICK H, G : H = HeldMacros(sl) /\ G = HeldMacros(new)
  OBVIOUS
<1>3. /\ H \in Drafts(m) /\ DOMAIN H = DOMAIN sl.macros
      /\ \A n \in DOMAIN H : H[n] = sl.macros[n].def
  BY <1>2, HeldAre
<1>4. /\ G \in Drafts(m) /\ DOMAIN G = DOMAIN new.macros
      /\ \A n \in DOMAIN G : G[n] = new.macros[n].def
  BY <1>1, <1>2, HeldAre
<1>5. Descriptors(G) = Descriptors(H)
  <2>1. PICK d, e : d = Descriptors(H) /\ e = Descriptors(G)
    OBVIOUS
  <2>2. d \in Drafts(m) /\ DOMAIN d = DOMAIN H /\ \A n \in DOMAIN H : d[n] = Descriptor(H[n])
    BY <1>3, <2>1, DescriptorsAre
  <2>3. e \in Drafts(m) /\ DOMAIN e = DOMAIN G /\ \A n \in DOMAIN G : e[n] = Descriptor(G[n])
    BY <1>4, <2>1, DescriptorsAre
  <2>4. DOMAIN d = DOMAIN e /\ \A n \in DOMAIN d : d[n] = e[n]
    BY <1>1, <1>3, <1>4, <2>2, <2>3
  <2>5. d = e
    BY <2>2, <2>3, <2>4, SameDraft
  <2> QED
    BY <2>1, <2>5
<1>6. SameStarts(H, G)
  BY <1>3, <1>4, <1>5, DescribedStarts
<1>7. TriggersOf(H) = TriggersOf(G)
  BY <1>6, SameFirst
<1>8. Synced(m, sl, s) <=> Synced(m, new, s)
  BY <1>1, <1>2, <1>5 DEF Synced
<1>9. PadFits(m, sl, s, u) => PadFits(m, new, s, NoMacros)
  BY <1>1, <1>2, <1>7 DEF PadFits
<1>10. Shown(new) = Shown(sl)
  BY <1>1 DEF Shown
<1>11. \A T : TriggersFit(sl, pend, T) => TriggersFit(new, pend, T)
  BY <1>1, <1>10 DEF TriggersFit
<1>12. \A b : StartedBy(new, b) = StartedBy(sl, b) /\ Dropped(new) = Dropped(sl) /\ (MappedTo(new, b) <=> MappedTo(sl, b))
  BY <1>1, <1>2, <1>6, SameStarted
<1>13. Neat(sl, pend) => Neat(new, pend)
  BY <1>1, <1>10, <1>12 DEF Neat
<1>14. ASSUME NEW job, JobFits(m, sl, job) PROVE JobFits(m, new, job)
  <2>1. ProfileUnsaved(new) <=> ProfileUnsaved(sl)
    BY <1>1 DEF ProfileUnsaved
  <2>2. Dropped(new) = Dropped(sl)
    BY <1>12
  <2>3. \A n : PutFor(new, n) = PutFor(sl, n)
    BY <1>1, <2>2 DEF PutFor
  <2>4. EditsFit(m, sl, job.edits)
    BY <1>14 DEF JobFits
  <2>5. EditsFit(m, new, job.edits)
    <3>1. \A n \in DOMAIN new.draft : n \in DOMAIN sl.macros => Descriptor(new.macros[n].def) = Descriptor(sl.macros[n].def)
      BY <1>1
    <3> QED
      BY <1>1, <2>3, <2>4, <3>1 DEF EditsFit
  <2> QED
    BY <1>1, <1>14, <2>1, <2>2, <2>5 DEF JobFits
<1> QED
  BY <1>8, <1>9, <1>11, <1>13, <1>14

-------------------------------------------------------------------------------
(***************************************************************************)
(* Writes.                                                                 *)
(***************************************************************************)
\* A model that packs its macros takes each of them once.
LEMMA SettledEach ==
  ASSUME NEW m \in Models, NEW f \in Drafts(m), NEW g, g = Settled(m, f)
  PROVE  \E e \in [DOMAIN g -> DOMAIN f] :
           \A i, j \in DOMAIN g : g[i] = f[e[i]] /\ (e[i] = e[j] => i = j)
<1>1. CASE ~IsPacked(m)
  <2>1. g = f
    BY <1>1 DEF Settled
  <2>2. PICK e : e = [n \in DOMAIN f |-> n]
    OBVIOUS
  <2>3. e \in [DOMAIN g -> DOMAIN f] /\ \A i, j \in DOMAIN g : g[i] = f[e[i]] /\ (e[i] = e[j] => i = j)
    BY <2>1, <2>2
  <2> QED
    BY <2>3
<1>2. CASE IsPacked(m)
  <2>1. PICK b \in Nat : MacroSlots(m) = 1..b
    BY BankConstants DEF MacroSlots
  <2>2. DOMAIN f \subseteq 1..b
    BY <2>1, DraftIs
  <2>3. Upto(b, DOMAIN f)
    BY <2>2 DEF Upto
  <2>4. PICK c, e : c = Cardinality(DOMAIN f) /\ e = InOrder(DOMAIN f)
    OBVIOUS
  <2>5. Enum(DOMAIN f, c, e) /\ c \in 0..b
    BY <2>3, <2>4, InOrderSorts
  <2>6. g = [k \in 1..c |-> f[e[k]]]
    BY <1>2, <2>3, <2>5, PackIs DEF Settled
  <2>7. e \in [1..c -> DOMAIN f] /\ \A i, j \in 1..c : i < j => e[i] < e[j]
    BY <2>5 DEF Enum
  <2>8. ASSUME NEW i \in 1..c, NEW j \in 1..c, e[i] = e[j] PROVE i = j
    <3>1. e[i] \in Nat /\ e[j] \in Nat /\ i \in Nat /\ j \in Nat
      BY <2>2, <2>5, <2>7
    <3>2. ~(i < j) /\ ~(j < i)
      BY <2>7, <2>8, <3>1
    <3> QED
      BY <3>1, <3>2
  <2>9. DOMAIN g = 1..c /\ \A i \in 1..c : g[i] = f[e[i]]
    BY <2>6
  <2>10. e \in [DOMAIN g -> DOMAIN f] /\ \A i, j \in DOMAIN g : g[i] = f[e[i]] /\ (e[i] = e[j] => i = j)
    BY <2>7, <2>8, <2>9
  <2> QED
    BY <2>10
<1> QED
  BY <1>1, <1>2

LEMMA SettledOnce ==
  ASSUME NEW m \in Models, NEW f \in Drafts(m), NEW map, StartsOnce(f, map), NEW g, g = Settled(m, f)
  PROVE  StartsOnce(g, map)
<1>1. PICK e \in [DOMAIN g -> DOMAIN f] :
         \A i, j \in DOMAIN g : g[i] = f[e[i]] /\ (e[i] = e[j] => i = j)
  BY SettledEach
<1>2. \A n, k \in DOMAIN f : \A b : b \in f[n].triggers /\ b \in f[k].triggers => n = k
  BY OnceIs
<1>3. \A b \in TriggersOf(g) : map[b] = DefaultMap[b]
  <2>1. TriggersOf(g) = TriggersOf(f)
    BY SettledIs
  <2> QED
    BY <2>1, OnceIs
<1>4. \A n, k \in DOMAIN g : \A b : b \in g[n].triggers /\ b \in g[k].triggers => n = k
  BY <1>1, <1>2
<1> QED
  BY <1>3, <1>4, OnceIs

\* What the plan shows of an upload's job on the slot that was read.
LEMMA UploadAsks ==
  ASSUME model \in Models, NEW sl, SlotOK(model, sl), NEW s, PadOK(model, s), Synced(model, sl, s),
         NEW job, job.op = "upload", JobFits(model, sl, job), s.used \/ job.map # Keep,
         NEW E, E = EditedFor(Without(FoundIn(model, s), Dropped(sl)), job.edits),
         NEW v, v = ViewFor(model, s)
  PROVE  /\ Shown(sl) # Nothing
         /\ AskedFor(model, v, job) = UsedView(Shown(sl).map, Settled(model, E))
<1>1. PICK p : p = ProfileIn(model, s)
  OBVIOUS
<1>2. /\ v.used = s.used /\ s.used \in BOOLEAN
      /\ s.used => p \in Profiles(model) /\ p.map = v.map
  BY <1>1, ProfileFound
<1>3. sl.pad = p
  BY <1>1 DEF Synced
<1>4. job.drops = Dropped(sl) /\ v.macros = FoundIn(model, s)
  BY DEF JobFits, FoundIn
<1>5. CASE job.map = Keep
  <2>1. ~ProfileUnsaved(sl)
    <3>1. ASSUME ProfileUnsaved(sl) PROVE FALSE
      <4>1. sl.edited \in Profiles(model) /\ sl.edited.map = Keep
        BY <1>5, <3>1 DEF JobFits, ProfileUnsaved, SlotOK, PartsOK
      <4> QED
        BY <4>1, ProfileIs, PlanConstants
    <3> QED
      BY <3>1
  <2>2. s.used /\ p # Nothing
    BY <1>2, <1>5, ProfileIs
  <2>3. Shown(sl) = p
    BY <1>3, <2>1 DEF ProfileUnsaved, Shown
  <2>4. AskedFor(model, v, job) = UsedView(v.map, Settled(model, E))
    BY <1>2, <1>4, <1>5, <2>2 DEF AskedFor
  <2> QED
    BY <1>2, <2>2, <2>3, <2>4
<1>6. CASE job.map # Keep
  <2>1. ProfileUnsaved(sl) /\ job.map = sl.edited.map
    BY <1>6 DEF JobFits
  <2>2. Shown(sl) = sl.edited /\ sl.edited # Nothing
    BY <2>1 DEF ProfileUnsaved, Shown
  <2>3. AskedFor(model, v, job) = UsedView(job.map, Settled(model, E))
    BY <1>4, <1>6 DEF AskedFor
  <2> QED
    BY <2>1, <2>2, <2>3
<1> QED
  BY <1>5, <1>6

MacrosTo(view, macros) == [view EXCEPT !.macros = macros]

LEMMA MacrosExcept ==
  ASSUME NEW u, NEW p, NEW g, NEW d, NEW view, view = [used |-> u, map |-> p, macros |-> g]
  PROVE  MacrosTo(view, d) = [used |-> u, map |-> p, macros |-> d]
BY DEF MacrosTo

LEMMA WantedIs ==
  ASSUME model \in Models, NEW sl, SlotOK(model, sl), NEW W, W = ShownFor(sl), W \in Drafts(model),
         NEW f \in Drafts(model), NEW g, g = Settled(model, f), Descriptors(f) = Descriptors(W),
         NEW view, view = UsedView(Shown(sl).map, g)
  PROVE  Described(view) = Wanted(sl)
<1>1. PICK D : D = Descriptors(W)
  OBVIOUS
<1>2. DOMAIN D = DOMAIN W /\ \A n \in DOMAIN W : D[n] = Descriptor(W[n])
  BY <1>1, DescriptorsAre
<1>3. D = [n \in DOMAIN W |-> Encoded(Descriptor(W[n]))]
  <2>1. D = [n \in DOMAIN W |-> Descriptor(W[n])]
    BY <1>1 DEF Descriptors
  <2>2. ASSUME NEW n \in DOMAIN W PROVE Encoded(Descriptor(W[n])) = Descriptor(W[n])
    <3>1. PICK w, d : w = W[n] /\ d = Descriptor(w)
      OBVIOUS
    <3>2. w \in ValidMacro
      BY <3>1, DraftIs
    <3>3. d \in ValidMacro
      BY <3>1, <3>2, DescriptorIs
    <3> QED
      BY <3>1, <3>3, ValidIs
  <2> QED
    BY <2>1, <2>2
<1>4. Wanted(sl) = [used |-> TRUE, map |-> Shown(sl).map, macros |-> Settled(model, D)]
  BY <1>3 DEF Wanted, ShownFor
<1>5. Descriptors(g) = Settled(model, D)
  BY <1>1, SettledIs
<1>6. Described(view) = [used |-> TRUE, map |-> Shown(sl).map, macros |-> Descriptors(g)]
  <2>1. PICK p, d, u : p = Shown(sl).map /\ d = Descriptors(g) /\ u = TRUE
    OBVIOUS
  <2>2. view = [used |-> u, map |-> p, macros |-> g]
    BY <2>1, Zenon DEF UsedView
  <2>3. MacrosTo(view, d) = [used |-> u, map |-> p, macros |-> d]
    BY <2>2, MacrosExcept
  <2>4. view.macros = g
    BY <2>2
  <2>5. Described(view) = MacrosTo(view, Descriptors(view.macros))
    BY DEF Described, MacrosTo
  <2> QED
    BY <2>1, <2>3, <2>4, <2>5, Zenon
<1> QED
  BY <1>4, <1>5, <1>6

\* One job for the slot is planned.
LEMMA OneShows ==
  ASSUME Sound, Faithful, batch # <<>>, Len(batch) = 1, planned = 1, Place(batch[1]) = Here, NEW v, v = ViewFor(model, pad[Here])
  PROVE  ViewFor(model, banks[Here]) = AskedFor(model, v, batch[1])
<1>1. 1 \in Doing /\ base = pad
  BY DEF Doing, Sound, Based
<1> QED
  BY <1>1 DEF Faithful, ShowsAsked

LEMMA UploadShows ==
  ASSUME Sound, Faithful, model \in Models, NEW sl, SlotOK(model, sl), NEW s, s = pad[Here], PadOK(model, s), Synced(model, sl, s),
         batch # <<>>, Len(batch) = 1, planned = 1, Place(batch[1]) = Here,
         batch[1].op = "upload", JobFits(model, sl, batch[1]), s.used \/ batch[1].map # Keep,
         NEW E, E = EditedFor(Without(FoundIn(model, s), Dropped(sl)), batch[1].edits)
  PROVE  /\ Shown(sl) # Nothing
         /\ ViewFor(model, banks[Here]) = UsedView(Shown(sl).map, Settled(model, E))
         /\ Described(View(banks[Here])) = Wanted(sl)
<1>1. PICK v, job : v = ViewFor(model, s) /\ job = batch[1]
  OBVIOUS
<1>2. ViewFor(model, banks[Here]) = AskedFor(model, v, job)
  BY <1>1, OneShows
<1>3. Shown(sl) # Nothing /\ AskedFor(model, v, job) = UsedView(Shown(sl).map, Settled(model, E))
  BY <1>1, UploadAsks
<1>4. PICK q, W : q = job.edits /\ W = ShownFor(sl)
  OBVIOUS
<1>5. EditsFit(model, sl, q) /\ E = EditedFor(Without(FoundIn(model, s), Dropped(sl)), q)
  BY <1>1, <1>4 DEF JobFits
<1>6. E \in Drafts(model) /\ W \in Drafts(model) /\ Descriptors(E) = Descriptors(W)
  BY <1>4, <1>5, EditedIs
<1>7. PICK g, view : g = Settled(model, E) /\ view = UsedView(Shown(sl).map, g)
  OBVIOUS
<1>8. Described(view) = Wanted(sl)
  BY <1>4, <1>6, <1>7, WantedIs
<1>9. View(banks[Here]) = view
  BY <1>2, <1>3, <1>7, ViewForIs
<1> QED
  BY <1>2, <1>3, <1>8, <1>9

-------------------------------------------------------------------------------
\* What an upload leaves a macro with: a button the slot's own macro had, or an edit's.
LEMMA EditedHas ==
  ASSUME NEW m \in Models, NEW F \in Drafts(m), NEW d, NEW q, NEW E, E = EditedFor(Without(F, d), q), NEW n \in DOMAIN E, NEW b,
         b \in E[n].triggers
  PROVE  \/ \E e \in ToSet(q) : e.macro = E[n]
         \/ n \in DOMAIN F /\ b \in F[n].triggers
<1>1. PICK G : G = Without(F, d)
  OBVIOUS
<1>2. /\ DOMAIN G = DOMAIN F
      /\ \A k \in DOMAIN F : G[k].triggers = F[k].triggers \ d
  BY <1>1, WithoutDraft
<1>3. PICK T, Q : T = {q[i].at : i \in DOMAIN q} /\ Q = {k \in T : EditAt(q, k) # Zeroed}
  OBVIOUS
<1>4. E = [k \in (DOMAIN G \ T) \cup Q |-> IF k \in Q THEN EditAt(q, k) ELSE G[k]]
  BY <1>1, <1>3 DEF EditedFor
<1>5. CASE n \in Q
  <2>1. PICK k : k = CHOOSE i \in DOMAIN q : q[i].at = n
    OBVIOUS
  <2>2. k \in DOMAIN q /\ q[k].at = n
    BY <1>3, <1>5, <2>1
  <2>3. E[n] = q[k].macro
    BY <1>4, <1>5, <2>1 DEF EditAt
  <2>4. q[k] \in ToSet(q)
    BY <2>2 DEF ToSet
  <2> QED
    BY <2>3, <2>4
<1>6. CASE n \notin Q
  BY <1>2, <1>4, <1>6
<1> QED
  BY <1>5, <1>6

LEMMA OnlyOne ==
  ASSUME NEW m \in Models, NEW S \in SUBSET MacroSlots(m), Cardinality(S) = 1, NEW k \in S, NEW l \in S
  PROVE  k = l
<1>1. IsFiniteSet(MacroSlots(m))
  <2>1. MacroSlots(m) = 1..MacroCount[m] /\ MacroCount[m] \in Nat
    BY BankConstants DEF MacroSlots
  <2> QED
    BY <2>1, FS_Interval
<1>2. IsFiniteSet(S)
  BY <1>1, FS_Subset
<1>3. \E x : S = {x}
  BY <1>2, FS_Singleton
<1> QED
  BY <1>3

AloneShown(m, t, macro) ==
  \A b \in macro.triggers :
    /\ ViewFor(m, t).map[b] = DefaultMap[b]
    /\ \A k, l \in DOMAIN FoundIn(m, t) : b \in FoundIn(m, t)[k].triggers /\ b \in FoundIn(m, t)[l].triggers => k = l

LEMMA AloneIsShown ==
  ASSUME model \in Models, NEW t, PadOK(model, t), t.used, NEW macro, AloneFor(model, t, macro)
  PROVE  AloneShown(model, t, macro)
<1>1. PICK M, G : M = MacrosOf(model, t) /\ G = EachEncoded(M)
  OBVIOUS
<1>2. FoundIn(model, t) = G /\ ViewFor(model, t).map = MapOf(model, t)
  BY <1>1 DEF FoundIn, ViewFor, UsedView
<1>3. G \in Drafts(model) /\ DOMAIN G = DOMAIN M
  BY <1>1, <1>2 DEF PadOK, EachEncoded
<1>4. DOMAIN M \subseteq MacroSlots(model)
  BY <1>3, DraftIs
<1>5. \A n \in DOMAIN M : G[n].triggers = M[n].triggers
  <2>1. PICK b : Size(b)
    BY SizeIs
  <2>2. PICK K \in SUBSET (1..b) : M \in [K -> Macro]
    BY <1>1, <2>1, MacrosAreTyped DEF PadOK
  <2>3. \A w \in Macro : Encoded(w).triggers = w.triggers
    BY DEF Encoded, Macro
  <2> QED
    BY <1>1, <2>2, <2>3 DEF EachEncoded
<1>6. ASSUME NEW b \in macro.triggers
      PROVE  /\ MapOf(model, t)[b] = DefaultMap[b]
             /\ \A k, l \in DOMAIN G : b \in G[k].triggers /\ b \in G[l].triggers => k = l
  <2>1. PICK S : S = {n \in DOMAIN M : b \in M[n].triggers}
    OBVIOUS
  <2>2. Cardinality(S) = 1 /\ MapOf(model, t)[b] = DefaultMap[b]
    BY <1>1, <2>1 DEF AloneFor
  <2>3. S \in SUBSET MacroSlots(model)
    BY <1>4, <2>1
  <2>4. \A k, l \in S : k = l
    BY <2>2, <2>3, OnlyOne
  <2> QED
    BY <1>3, <1>5, <2>1, <2>2, <2>4
<1> QED
  BY <1>2, <1>6 DEF AloneShown

\* No button the slot started a macro with before is left with another output by an upload
\* of what the slot shows, and no button starts two macros then.
LEMMA UploadStartsOnce ==
  ASSUME model \in Models, NEW sl, NEW pend, NEW s, NEW u, Knows(model, sl, pend, s, u), Synced(model, sl, s), Shown(sl) # Nothing,
         NEW q, EditsFit(model, sl, q), NEW E, E = EditedFor(Without(FoundIn(model, s), Dropped(sl)), q),
         NEW t, PadOK(model, t), ViewFor(model, t) = UsedView(Shown(sl).map, Settled(model, E)),
         \A e \in ToSet(q) : AloneShown(model, t, e.macro)
  PROVE  /\ StartsOnce(FoundIn(model, t), ViewFor(model, t).map)
         /\ TriggersOf(FoundIn(model, t)) \subseteq TriggersOf(AsShown(sl))
         /\ sl.draft = Nothing => TriggersOf(FoundIn(model, t)) \subseteq PadStarters(model, s)
<1>1. PICK F, G, W : F = FoundIn(model, s) /\ G = Settled(model, E) /\ W = ShownFor(sl)
  OBVIOUS
<1>2. SlotOK(model, sl) /\ PadOK(model, s) /\ PadFits(model, sl, s, u)
  BY DEF Knows
<1>3. F \in Drafts(model)
  BY <1>1, <1>2 DEF PadOK
<1>4. FoundIn(model, t) = G /\ ViewFor(model, t).map = Shown(sl).map
  BY <1>1 DEF FoundIn, UsedView
<1>5. E \in Drafts(model) /\ W \in Drafts(model) /\ Descriptors(E) = Descriptors(W)
  BY <1>1, <1>2, EditedIs
<1>6. TriggersOf(E) = TriggersOf(W)
  BY <1>5, DescribedStarts, SameFirst
<1>7. TriggersOf(G) = TriggersOf(E)
  BY <1>1, <1>5, SettledIs
<1>8. TriggersOf(W) \subseteq TriggersOf(AsShown(sl))
  <2>1. CASE sl.draft = Nothing
    BY <1>1, <2>1 DEF ShownFor
  <2>2. CASE sl.draft # Nothing
    <3>1. PICK d, D : d = sl.draft /\ D = Dropped(sl)
      OBVIOUS
    <3>2. d \in Drafts(model) /\ W = Without(d, D) /\ AsShown(sl) = d
      BY <1>1, <1>2, <2>2, <3>1 DEF ShownFor, AsShown, SlotOK, PartsOK
    <3>3. DOMAIN W = DOMAIN d /\ \A n \in DOMAIN d : W[n].triggers = d[n].triggers \ D
      BY <3>2, WithoutDraft
    <3> QED
      BY <3>2, <3>3, StartersAre
  <2> QED
    BY <2>1, <2>2
<1>9. ASSUME NEW n \in DOMAIN E, NEW b \in E[n].triggers
      PROVE  \/ \E e \in ToSet(q) : b \in e.macro.triggers
             \/ n \in DOMAIN F /\ b \in F[n].triggers
  BY <1>1, <1>3, <1>9, EditedHas
<1>10. ASSUME NEW b \in TriggersOf(G) PROVE Shown(sl).map[b] = DefaultMap[b]
  <2>1. CASE b \in PadStarters(model, s)
    <3>1. Default(Shown(sl), b)
      BY <1>6, <1>7, <1>8, <1>10, <2>1, AsShownDefault
    <3> QED
      BY <3>1 DEF Default
  <2>2. CASE b \notin PadStarters(model, s)
    <3>1. PICK n \in DOMAIN E : b \in E[n].triggers
      BY <1>7, <1>10, StartersAre
    <3>2. \E e \in ToSet(q) : b \in e.macro.triggers
      BY <1>1, <1>9, <2>2, <3>1, StartersAre DEF PadStarters
    <3> QED
      BY <1>4, <3>2 DEF AloneShown
  <2> QED
    BY <2>1, <2>2
<1>11. PICK at \in [DOMAIN G -> DOMAIN E] :
         \A i, j \in DOMAIN G : G[i] = E[at[i]] /\ (at[i] = at[j] => i = j)
  BY <1>1, <1>5, SettledEach
<1>12. ASSUME NEW k \in DOMAIN G, NEW l \in DOMAIN G, NEW b, b \in G[k].triggers, b \in G[l].triggers
       PROVE  k = l
  <2>1. CASE \E e \in ToSet(q) : b \in e.macro.triggers
    BY <1>4, <1>12, <2>1 DEF AloneShown
  <2>2. CASE ~\E e \in ToSet(q) : b \in e.macro.triggers
    <3>1. PICK i, j : i = at[k] /\ j = at[l]
      OBVIOUS
    <3>2. i \in DOMAIN E /\ j \in DOMAIN E /\ b \in E[i].triggers /\ b \in E[j].triggers
      BY <1>11, <1>12, <3>1
    <3>3. i \in DOMAIN F /\ b \in F[i].triggers /\ j \in DOMAIN F /\ b \in F[j].triggers
      BY <1>9, <2>2, <3>2
    <3>4. \A n, h \in DOMAIN F : \A c : c \in F[n].triggers /\ c \in F[h].triggers => n = h
      BY <1>1, <1>2, OnceIs DEF PadFits
    <3>5. i = j
      BY <3>3, <3>4
    <3> QED
      BY <1>11, <3>1, <3>5
  <2> QED
    BY <2>1, <2>2
<1>13. StartsOnce(G, Shown(sl).map)
  BY <1>10, <1>12, OnceIs
<1>14. ASSUME sl.draft = Nothing, NEW b \in TriggersOf(G) PROVE b \in PadStarters(model, s)
  <2>1. PICK H : H = HeldMacros(sl)
    OBVIOUS
  <2>2. H \in Drafts(model) /\ AsShown(sl) = Without(H, Dropped(sl))
    BY <1>2, <1>14, <2>1, HeldAre DEF AsShown
  <2>3. DOMAIN AsShown(sl) = DOMAIN H /\ \A n \in DOMAIN H : AsShown(sl)[n].triggers = H[n].triggers \ Dropped(sl)
    BY <2>2, WithoutDraft
  <2>4. b \in TriggersOf(AsShown(sl))
    BY <1>6, <1>7, <1>8, <1>14
  <2>5. b \in TriggersOf(H)
    BY <2>3, <2>4, StartersAre
  <2> QED
    BY <1>2, <2>1, <2>5, SyncedTriggers DEF PadStarters
<1> QED
  BY <1>4, <1>6, <1>7, <1>8, <1>13, <1>14
LEMMA UsedIsNotEmpty ==
  ASSUME NEW map, NEW g
  PROVE  UsedView(map, g) # EmptyView
<1>1. UsedView(map, g).used = TRUE /\ EmptyView.used = FALSE
  BY Zenon DEF UsedView, EmptyView
<1>2. TRUE # FALSE
  OBVIOUS
<1> QED
  BY <1>1, <1>2, Zenon

LEMMA BankIs ==
  ASSUME Sound
  PROVE  model \in Models /\ IsSlot(model, pad[Here]) /\ IsSlot(model, banks[Here]) /\ base = pad
BY HereIs DEF Sound, TypeOK, IsPad, Based

\* The controller holds what an upload showed.
LEMMA UploadTaken ==
  ASSUME Sound, Faithful, NEW sl, SlotOK(model, sl), NEW s, s = pad[Here], PadOK(model, s), Synced(model, sl, s),
         batch # <<>>, Len(batch) = 1, planned = 1, Place(batch[1]) = Here,
         batch[1].op = "upload", JobFits(model, sl, batch[1]), s.used \/ batch[1].map # Keep,
         NEW t, t = banks[Here], NEW new, new = TakenAsHeld(sl), NEW pend
  PROVE  /\ PadOK(model, t) /\ SlotOK(model, new) /\ new.edited = Nothing /\ new.draft = Nothing
         /\ Knows(model, sl, pend, s, NoMacros) => PadFits(model, new, t, NoMacros)
<1>1. PICK q, E : q = batch[1].edits /\ E = EditedFor(Without(FoundIn(model, s), Dropped(sl)), q)
  OBVIOUS
<1>2. model \in Models /\ IsSlot(model, t)
  BY BankIs
<1>3. Shown(sl) # Nothing /\ ViewFor(model, t) = UsedView(Shown(sl).map, Settled(model, E))
  BY <1>1, <1>2, UploadShows
<1>4. EditsFit(model, sl, q)
  BY <1>1 DEF JobFits
<1>5. E \in Drafts(model)
  BY <1>1, <1>4, EditedIs
<1>6. PadOK(model, t)
  <2>1. PICK g : g = Settled(model, E)
    OBVIOUS
  <2>2. FoundIn(model, t) = g
    BY <1>3, <2>1 DEF FoundIn, UsedView
  <2>3. g \in Drafts(model)
    BY <1>2, <1>5, <2>1, SettledIs
  <2> QED
    BY <1>2, <2>2, <2>3 DEF PadOK
<1>7. /\ SlotOK(model, new) /\ new.pad = Shown(sl) /\ new.edited = Nothing /\ new.draft = Nothing
      /\ TriggersOf(HeldMacros(new)) = TriggersOf(ShownMacros(sl))
  BY TakenIs
<1>8. t.used
  BY <1>3, UsedIsNotEmpty DEF ViewFor
<1>9. \A e \in ToSet(q) : AloneShown(model, t, e.macro)
  <2> SUFFICES ASSUME NEW e \in ToSet(q) PROVE AloneShown(model, t, e.macro)
    OBVIOUS
  <2>1. 1 \in Doing
    BY DEF Doing
  <2>2. AloneFor(model, t, e.macro)
    BY <1>1, <2>1 DEF Sound, PutsAreAlone
  <2> QED
    BY <1>2, <1>6, <1>8, <2>2, AloneIsShown
<1>10. ASSUME Knows(model, sl, pend, s, NoMacros) PROVE PadFits(model, new, t, NoMacros)
  <2>1. /\ StartsOnce(FoundIn(model, t), ViewFor(model, t).map)
        /\ TriggersOf(FoundIn(model, t)) \subseteq TriggersOf(AsShown(sl))
        /\ sl.draft = Nothing => TriggersOf(FoundIn(model, t)) \subseteq PadStarters(model, s)
    BY <1>1, <1>2, <1>3, <1>4, <1>6, <1>9, <1>10, UploadStartsOnce
  <2>2. /\ TriggersOf(AsShown(sl)) \subseteq TriggersOf(ShownMacros(sl))
        /\ sl.draft = Nothing => TriggersOf(AsShown(sl)) \cap Dropped(sl) = {}
    <3>1. CASE sl.draft # Nothing
      BY <3>1 DEF AsShown, ShownMacros
    <3>2. CASE sl.draft = Nothing
      <4>1. PICK H, D : H = HeldMacros(sl) /\ D = Dropped(sl)
        OBVIOUS
      <4>2. H \in Drafts(model) /\ AsShown(sl) = Without(H, D) /\ ShownMacros(sl) = H
        BY <3>2, <4>1, HeldAre DEF AsShown, ShownMacros
      <4>3. DOMAIN AsShown(sl) = DOMAIN H /\ \A n \in DOMAIN H : AsShown(sl)[n].triggers = H[n].triggers \ D
        BY <4>2, WithoutDraft
      <4> QED
        BY <4>1, <4>2, <4>3, StartersAre
    <3> QED
      BY <3>1, <3>2
  <2>3. ASSUME AllLoaded(new), NEW b \in PadStarters(model, t) PROVE b \in RefTriggers(new.pad)
    <3>1. b \in TriggersOf(AsShown(sl)) /\ b \in TriggersOf(ShownMacros(sl))
      BY <2>1, <2>2, <2>3 DEF PadStarters
    <3>2. CASE sl.draft # Nothing
      <4>1. PICK n \in DOMAIN sl.draft : b \in sl.draft[n].triggers
        BY <3>1, <3>2, StartersAre DEF ShownMacros
      <4>2. new.macros = [k \in DOMAIN sl.draft |-> [def |-> Descriptor(sl.draft[k]), loaded |-> FALSE]]
        BY <3>2 DEF TakenAsHeld
      <4>3. n \in DOMAIN new.macros /\ new.macros[n].loaded = FALSE
        BY <4>2
      <4> QED
        BY <2>3, <4>3 DEF AllLoaded
    <3>3. CASE sl.draft = Nothing
      <4>1. b \in PadStarters(model, s) /\ b \notin Dropped(sl)
        BY <2>1, <2>2, <2>3, <3>1, <3>3 DEF PadStarters
      <4>2. b \in RefTriggers(sl.pad)
        BY <1>2, <4>1, ProfileFound DEF PadStarters, Synced
      <4> QED
        BY <1>7, <3>3, <4>1, <4>2 DEF Dropped, Shown
    <3> QED
      BY <3>2, <3>3
  <2>4. ViewFor(model, t).map = Shown(sl).map
    BY <1>3 DEF UsedView
  <2> QED
    BY <1>3, <1>7, <1>8, <2>1, <2>2, <2>3, <2>4 DEF PadFits, PadStarters
<1> QED
  BY <1>6, <1>7, <1>10

\* ... and nothing of a slot that was cleared.
LEMMA ClearTaken ==
  ASSUME Sound, Faithful, batch # <<>>, Len(batch) = 1, planned = 1, Place(batch[1]) = Here, batch[1].op = "clear",
         NEW t, t = banks[Here]
  PROVE  PadOK(model, t) /\ PadFits(model, EmptySlot, t, NoMacros)
<1>1. model \in Models /\ IsSlot(model, t)
  BY BankIs
<1>2. PICK sl : sl = EmptySlot
  OBVIOUS
<1>3. sl.pad = Nothing /\ HeldMacros(sl) = NoMacros
  BY <1>2, EmptyIs
<1>4. ViewFor(model, t) = EmptyView
  <2>1. PICK v : v = ViewFor(model, pad[Here])
    OBVIOUS
  <2>2. ViewFor(model, t) = AskedFor(model, v, batch[1])
    BY <2>1, OneShows
  <2> QED
    BY <2>2 DEF AskedFor
<1>5. FoundIn(model, t) = NoMacros
  BY <1>4 DEF FoundIn, EmptyView
<1>6. NoMacros \in Drafts(model) /\ DOMAIN NoMacros = {}
  BY DraftIs DEF NoMacros
<1>7. PadOK(model, t)
  BY <1>1, <1>5, <1>6 DEF PadOK
<1>8. ~t.used
  BY <1>4, UsedIsNotEmpty DEF ViewFor
<1>9. StartsOnce(NoMacros, ViewFor(model, t).map)
  BY <1>6 DEF StartsOnce
<1>10. TriggersOf(NoMacros) = {}
  BY <1>6, StartersAre
<1> QED
  BY <1>2, <1>3, <1>5, <1>7, <1>8, <1>9, <1>10 DEF PadFits, PadStarters

-------------------------------------------------------------------------------
\* The macros a slot is left with start as those it shows.
LEMMA EditedOnce ==
  ASSUME NEW m \in Models, NEW sl, SlotOK(m, sl), NEW s, PadOK(m, s), Synced(m, sl, s), sl.draft # Nothing,
         NEW map, StartsOnce(sl.draft, map), NEW q, EditsFit(m, sl, q),
         NEW E, E = EditedFor(Without(FoundIn(m, s), Dropped(sl)), q)
  PROVE  E \in Drafts(m) /\ StartsOnce(Settled(m, E), map)
<1>1. PICK W, d, D : W = ShownFor(sl) /\ d = sl.draft /\ D = Dropped(sl)
  OBVIOUS
<1>2. E \in Drafts(m) /\ W \in Drafts(m) /\ Descriptors(E) = Descriptors(W)
  BY <1>1, EditedIs
<1>3. DOMAIN E = DOMAIN W /\ \A n \in DOMAIN E : E[n].triggers = W[n].triggers
  BY <1>2, DescribedStarts DEF SameStarts
<1>4. d \in Drafts(m) /\ W = Without(d, D)
  BY <1>1 DEF ShownFor, SlotOK, PartsOK
<1>5. DOMAIN W = DOMAIN d /\ \A n \in DOMAIN d : W[n].triggers = d[n].triggers \ D
  BY <1>4, WithoutDraft
<1>6. \A n \in DOMAIN E : \A b \in E[n].triggers : n \in DOMAIN d /\ b \in d[n].triggers
  BY <1>3, <1>5
<1>7. StartsOnce(E, map)
  BY <1>1, <1>6, LessOnce
<1> QED
  BY <1>2, <1>7, SettledOnce

\* The macro of a put is the only one to start with its buttons.
LEMMA PutsStart ==
  ASSUME model \in Models, NEW V, PadOK(model, V), V.used, NEW map, MapOf(model, V) = map,
         StartsOnce(FoundIn(model, V), map), NEW put,
         \E k \in DOMAIN MacrosOf(model, V) : MacrosOf(model, V)[k].triggers = put.macro.triggers
  PROVE  ~StartsAnother(MacrosOf(model, V), put) /\ ~IsMapped(map, put)
<1>1. PICK M, G : M = MacrosOf(model, V) /\ G = EachEncoded(M)
  OBVIOUS
<1>2. FoundIn(model, V) = G /\ DOMAIN G = DOMAIN M
  BY <1>1 DEF FoundIn, ViewFor, UsedView, EachEncoded
<1>3. \A n \in DOMAIN M : G[n].triggers = M[n].triggers
  <2>1. PICK b : Size(b)
    BY SizeIs
  <2>2. PICK K \in SUBSET (1..b) : M \in [K -> Macro]
    BY <1>1, <2>1, MacrosAreTyped DEF PadOK
  <2>3. \A w \in Macro : Encoded(w).triggers = w.triggers
    BY DEF Encoded, Macro
  <2> QED
    BY <1>1, <2>2, <2>3 DEF EachEncoded
<1>4. \A n \in DOMAIN M : \A b \in M[n].triggers :
        map[b] = DefaultMap[b] /\ \A k \in DOMAIN M : b \in M[k].triggers => k = n
  BY <1>2, <1>3 DEF StartsOnce
<1>5. PICK k \in DOMAIN M : M[k].triggers = put.macro.triggers
  BY <1>1
<1>6. PICK same : same = {n \in DOMAIN M : M[n].triggers = put.macro.triggers}
  OBVIOUS
<1>7. PICK own : own = IF put.at \in same THEN {put.at} ELSE {n \in same : \A l \in same : n <= l}
  OBVIOUS
<1>8. ASSUME NEW n \in DOMAIN M \ own, NEW b \in M[n].triggers \cap put.macro.triggers PROVE FALSE
  <2>1. \A l \in same : l = n
    BY <1>4, <1>6, <1>8
  <2>2. k \in same /\ k = n
    BY <1>5, <1>6, <2>1
  <2>3. same = {n}
    BY <2>1, <2>2
  <2>4. n \in Nat
    <3>1. G \in Drafts(model)
      BY <1>2 DEF PadOK
    <3>2. n \in MacroSlots(model)
      BY <1>2, <1>8, <3>1, DraftIs
    <3> QED
      BY <3>2, SlotsAreFinite
  <2>5. n \in own
    BY <1>7, <2>3, <2>4
  <2> QED
    BY <1>8, <2>5
<1>9. ~StartsAnother(M, put)
  <2>1. ~\E n \in DOMAIN M \ own : M[n].triggers \cap put.macro.triggers # {}
    BY <1>8
  <2> QED
    BY <1>6, <1>7, <2>1 DEF StartsAnother
<1>10. ~IsMapped(map, put)
  BY <1>4, <1>5 DEF IsMapped
<1> QED
  BY <1>1, <1>9, <1>10

\* Of a slot whose edits fit, the checks of the plan take the job.
LEMMA EditsAreTaken ==
  ASSUME Sound, Faithful, batch # <<>>, Len(batch) = 1, planned = 0, ForHere(batch[1]), batch[1].op = "upload",
         NEW sl, SlotOK(model, sl), NEW s, s = pad[Here], PadOK(model, s), Synced(model, sl, s),
         JobFits(model, sl, batch[1]), Neat(sl, Nothing)
  PROVE  ~MacrosRefused
<1>1. PICK job, q : job = batch[1] /\ q = job.edits
  OBVIOUS
<1>2. /\ Job = job /\ Place(Job) = Here /\ Here \in Places /\ Doing = {} /\ JobShape(job) /\ job.sound
      /\ planned < Len(batch)
  BY <1>1, HereIs DEF Job, ForHere, Doing
<1>3. /\ Before = base[Here] /\ banks[Here] = Before /\ IsSlot(model, Before) /\ \E b : Size(b)
  BY <1>2, NextJob
<1>4. Before = s /\ model \in Models
  BY <1>3, BankIs
<1>5. PICK b : Size(b)
  BY <1>3
<1> SUFFICES ASSUME q # <<>> PROVE ~MacrosRefused
  BY <1>1, <1>2 DEF MacrosRefused
<1>6. q \in Seq(Edit) /\ EditsFit(model, sl, q)
  BY <1>1, <1>2 DEF JobShape, JobFits
<1>7. DOMAIN q # {}
  BY <1>6
<1>8. sl.draft # Nothing
  BY <1>6, <1>7 DEF EditsFit
<1>9. PICK map : map = Shown(sl).map
  OBVIOUS
<1>10. Shown(sl) # Nothing /\ StartsOnce(sl.draft, map)
  BY <1>8, <1>9 DEF Neat
<1>11. s.used \/ job.map # Keep
  <2>1. SUFFICES ASSUME job.map = Keep PROVE s.used
    OBVIOUS
  <2>2. ~ProfileUnsaved(sl)
    <3>1. ASSUME ProfileUnsaved(sl) PROVE FALSE
      <4>1. sl.edited \in Profiles(model) /\ sl.edited.map = Keep
        BY <1>1, <2>1, <3>1 DEF JobFits, ProfileUnsaved, SlotOK, PartsOK
      <4> QED
        BY <4>1, ProfileIs, PlanConstants
    <3> QED
      BY <3>1
  <2>3. sl.pad # Nothing
    BY <1>10, <2>2 DEF ProfileUnsaved, Shown
  <2> QED
    BY <2>3 DEF Synced, ProfileIn
<1>12. /\ \A i \in DOMAIN q : q[i].at \in MacroSlots(model)
       /\ \A i, j \in DOMAIN q : q[i].at = q[j].at => i = j
  BY <1>6 DEF EditsFit
<1>13. ~EditsRefused
  BY <1>1, <1>2, <1>4, <1>11, <1>12 DEF EditsRefused
<1>14. Uploads(b)
  BY <1>1, <1>2, <1>3, <1>5, <1>13 DEF Uploads
<1>15. PICK V : V = Built
  OBVIOUS
<1>16. IsPacked(model) \/ SteppedSlot(Before)
  BY <1>2, <1>3 DEF Faithful, AreStepped, SteppedPad
<1>17. View(V) = Promise!AsAsked(View(Before), Job)
  BY <1>14, <1>15, <1>16, JobShows
<1>18. PICK v, E : v = ViewFor(model, s) /\ E = EditedFor(Without(FoundIn(model, s), Dropped(sl)), q)
  OBVIOUS
<1>19. AskedFor(model, v, job) = UsedView(map, Settled(model, E))
  BY <1>1, <1>4, <1>9, <1>11, <1>18, UploadAsks
<1>20. E \in Drafts(model) /\ StartsOnce(Settled(model, E), map)
  BY <1>4, <1>6, <1>8, <1>10, <1>18, EditedOnce
<1>21. PICK G : G = Settled(model, E)
  OBVIOUS
<1>22. ViewFor(model, V) = UsedView(map, G)
  BY <1>2, <1>4, <1>17, <1>18, <1>19, <1>21, ViewForIs, AskedForIs
<1>23. IsSlot(model, V) /\ Landed(V, Effective)
  BY <1>14, <1>15, PutsLand
<1>24. V.used
  BY <1>22, UsedIsNotEmpty DEF ViewFor
<1>25. FoundIn(model, V) = G /\ MapOf(model, V) = map
  <2>1. UsedView(MapOf(model, V), EachEncoded(MacrosOf(model, V))) = UsedView(map, G)
    BY <1>22, <1>24 DEF ViewFor
  <2> QED
    BY <1>22, <2>1 DEF FoundIn, UsedView
<1>26. PadOK(model, V)
  BY <1>4, <1>20, <1>21, <1>23, <1>25, SettledIs DEF PadOK
<1>27. ASSUME NEW put \in Puts(Effective) PROVE ~PutRefused(put)
  <2>1. put \in Effective /\ put.macro # Zeroed
    BY DEF Puts
  <2>2. \E k \in DOMAIN MacrosOf(model, V) : MacrosOf(model, V)[k].triggers = put.macro.triggers
    BY <1>23, <2>1 DEF Landed
  <2>3. ~StartsAnother(MacrosOf(model, V), put) /\ ~IsMapped(map, put)
    BY <1>4, <1>20, <1>21, <1>24, <1>25, <1>26, <2>2, PutsStart
  <2> QED
    BY <1>15, <1>25, <2>3 DEF PutRefused
<1> QED
  BY <1>1, <1>2, <1>4, <1>11, <1>12, <1>27 DEF MacrosRefused

LEMMA NothingRefused ==
  ASSUME Sound, batch # <<>>, Len(batch) = 1, planned = 0, ForHere(batch[1]), batch[1].op \in {"upload", "clear"}, policy = "force",
         batch[1].op = "upload" => ~MacrosRefused
  PROVE  ~MustRefuse
<1>1. Job = batch[1] /\ Place(Job) \in Places /\ Job.sound /\ Job.op # "remap" /\ 1..planned = {}
  BY HereIs DEF Job, ForHere
<1> QED
  BY <1>1 DEF MustRefuse
\* A slot whose edits are neat starts every button once.
LEMMA StartsOne ==
  ASSUME NEW m \in Models, NEW sl, NEW pend, NEW s, NEW u, Knows(m, sl, pend, s, u), Synced(m, sl, s), Neat(sl, pend),
         Shown(sl) # Nothing, NEW b, StartedBy(sl, b) # Nothing
  PROVE  /\ ~MappedTo(sl, b)
         /\ Cardinality({n \in DOMAIN ShownMacros(sl) : b \in ShownMacros(sl)[n].triggers}) = 1
<1>1. PICK A, M, D : A = AsShown(sl) /\ M = ShownMacros(sl) /\ D = Dropped(sl)
  OBVIOUS
<1>2. SlotOK(m, sl)
  BY DEF Knows
<1>3. StartsOnce(A, Shown(sl).map)
  BY <1>1, AsShownOnce
<1>4. b \in TriggersOf(M) /\ ~(sl.draft = Nothing /\ b \in D)
  BY <1>1, <1>2, StartedIs
<1>5. DOMAIN A = DOMAIN M /\ \A n \in DOMAIN M : b \in A[n].triggers <=> b \in M[n].triggers
  <2>1. CASE sl.draft # Nothing
    BY <1>1, <2>1 DEF AsShown, ShownMacros
  <2>2. CASE sl.draft = Nothing
    <3>1. M \in Drafts(m) /\ A = Without(M, D)
      BY <1>1, <1>2, <2>2, HeldAre DEF AsShown, ShownMacros
    <3>2. DOMAIN A = DOMAIN M /\ \A n \in DOMAIN M : A[n].triggers = M[n].triggers \ D
      BY <3>1, WithoutDraft
    <3> QED
      BY <1>4, <2>2, <3>2
  <2> QED
    BY <2>1, <2>2
<1>6. PICK n \in DOMAIN M : b \in M[n].triggers
  BY <1>4, StartersAre
<1>7. Shown(sl).map[b] = DefaultMap[b] /\ \A k \in DOMAIN M : b \in M[k].triggers => k = n
  BY <1>3, <1>5, <1>6 DEF StartsOnce
<1>8. {k \in DOMAIN M : b \in M[k].triggers} = {n}
  BY <1>6, <1>7
<1>9. Cardinality({n}) = 1
  BY FS_Singleton
<1> QED
  BY <1>1, <1>7, <1>8, <1>9 DEF MappedTo

-------------------------------------------------------------------------------
(***************************************************************************)
(* The invariant.                                                          *)
(***************************************************************************)
EditorTyped ==
  /\ SlotOK(model, slot) /\ PadOK(model, pad[Here])
  /\ UnreadOK(model, unread, pad[Here]) /\ PendOK(model, pending)
  /\ review \in {"none", "reading", "open"}
  /\ changed \in BOOLEAN /\ reading \in BOOLEAN /\ fresh \in BOOLEAN /\ blind \in BOOLEAN
  /\ edits \in 0 .. MaxEdits /\ elsewhere \in 0 .. MaxElsewhere

\* A write is one job, and modal.
Writing ==
  /\ Len(batch) = 1 /\ ForHere(batch[1]) /\ batch[1].op \in {"upload", "clear"} /\ policy = "force"
  /\ ~changed /\ ~reading /\ pending = Nothing /\ review = "none"
Modal ==
  /\ batch # <<>> => Writing
  /\ review = "reading" => reading
  /\ review = "open" => ~reading

Uploading == batch # <<>> /\ batch[1].op = "upload"
JobIsShown ==
  /\ (review = "open" \/ Uploading) => Synced(model, slot, pad[Here])
  /\ Uploading => JobFits(model, slot, batch[1])
  /\ (Uploading /\ planned = 1) => pad[Here].used \/ batch[1].map # Keep

\* Until another program writes ...
Fits ==
  elsewhere = 0 => PadFits(model, slot, pad[Here], unread) /\ TriggersFit(slot, pending, PadStarters(model, pad[Here]))
InStep ==
  (elsewhere = 0 /\ (fresh \/ (~blind /\ Exist(slot, pending)))) => Synced(model, slot, pad[Here])
Clean == Undisturbed => ~changed /\ Neat(slot, pending)

EInv == Sound /\ Faithful /\ EditorTyped /\ Modal /\ JobIsShown /\ Fits /\ InStep /\ Clean

LEMMA Known ==
  ASSUME EInv
  PROVE  /\ model \in Models /\ SlotOK(model, slot) /\ PadOK(model, pad[Here]) /\ PendOK(model, pending)
         /\ elsewhere = 0 => Knows(model, slot, pending, pad[Here], unread)
<1>1. model \in Models
  BY BankIs DEF EInv
<1> QED
  BY <1>1 DEF EInv, EditorTyped, Fits, Knows

LEMMA FitsRead ==
  ASSUME NEW m, NEW sl, NEW s, NEW u, PadFits(m, sl, s, u)
  PROVE  PadFits(m, sl, s, NoMacros)
BY DEF PadFits

LEMMA NoneExist ==
  ASSUME NEW sl, sl.edited = Nothing, sl.draft = Nothing
  PROVE  /\ ~Exist(sl, Nothing) /\ Neat(sl, Nothing) /\ \A T : TriggersFit(sl, Nothing, T)
BY DEF Exist, Neat, TriggersFit, PendsMacro

\* Steps that leave the slot as it is.
LEMMA SlotStays ==
  ASSUME EInv, UNCHANGED <<vars, slot, changed, pending, fresh, blind, edits, elsewhere>>,
         unread' \in {unread, NoMacros}, reading' \in BOOLEAN, review' \in {"none", "reading", "open"},
         Modal', review' = "open" => review = "open"
  PROVE  EInv'
<1>1. model' = model /\ pad' = pad /\ batch' = batch /\ planned' = planned
  BY DEF vars
<1>2. Sound' /\ Faithful'
  BY StandsStill DEF EInv
<1>3. UnreadOK(model, unread', pad[Here])
  BY NothingUnread DEF EInv, EditorTyped
<1>4. EditorTyped'
  BY <1>1, <1>3 DEF EInv, EditorTyped
<1>5. JobIsShown'
  BY <1>1 DEF EInv, JobIsShown, Uploading
<1>6. elsewhere = 0 => PadFits(model, slot, pad[Here], unread')
  BY FitsRead DEF EInv, Fits
<1>7. Fits'
  BY <1>1, <1>6 DEF EInv, Fits
<1>8. InStep' /\ Clean'
  BY <1>1 DEF EInv, InStep, Clean, Undisturbed
<1> QED
  BY <1>2, <1>4, <1>5, <1>7, <1>8 DEF EInv

\* A question about an import comes, or goes.
LEMMA PendingTo ==
  ASSUME EInv, batch = <<>>, UNCHANGED <<vars, slot, changed, review, reading, unread, fresh, edits, elsewhere>>,
         PendOK(model, pending'), blind' \in BOOLEAN, ~blind' => ~blind /\ (fresh \/ pending' = Nothing),
         \A T : TriggersFit(slot, pending, T) => TriggersFit(slot, pending', T),
         Neat(slot, pending) => Neat(slot, pending')
  PROVE  EInv'
<1>1. model' = model /\ pad' = pad /\ batch' = batch /\ planned' = planned
  BY DEF vars
<1>2. Sound' /\ Faithful'
  BY StandsStill DEF EInv
<1>3. EditorTyped'
  BY <1>1 DEF EInv, EditorTyped
<1>4. Modal' /\ JobIsShown'
  BY <1>1 DEF EInv, Modal, JobIsShown, Uploading
<1>5. Fits'
  BY <1>1 DEF EInv, Fits
<1>6. InStep'
  BY <1>1 DEF EInv, InStep, Exist
<1>7. Clean'
  BY <1>1 DEF EInv, Clean, Undisturbed
<1> QED
  BY <1>2, <1>3, <1>4, <1>5, <1>6, <1>7 DEF EInv

LEMMA ShowsMeans ==
  ASSUME EInv, NEW new, Shows(new)
  PROVE  /\ slot' = new /\ blind' \in BOOLEAN
         /\ ~blind' => (~blind /\ fresh) \/ (new.edited = Nothing /\ new.draft = Nothing /\ pending = Nothing)
BY DEF Shows, EInv, EditorTyped

\* A slot that is edited.
LEMMA SlotTo ==
  ASSUME EInv, batch = <<>>, NEW new, Shows(new), SlotOK(model, new), SameBase(slot, new),
         pending' \in {pending, Nothing}, review' \in {review, "none"}, changed' \in BOOLEAN, edits' \in 0 .. MaxEdits,
         UNCHANGED <<vars, reading, unread, fresh, elsewhere>>,
         elsewhere = 0 => TriggersFit(new, pending', PadStarters(model, pad[Here])),
         Undisturbed' => ~changed' /\ Neat(new, pending')
  PROVE  EInv'
<1>1. model' = model /\ pad' = pad /\ batch' = batch /\ planned' = planned
  BY DEF vars
<1>2. Sound' /\ Faithful'
  BY StandsStill DEF EInv
<1>3. /\ slot' = new /\ blind' \in BOOLEAN
      /\ ~blind' => (~blind /\ fresh) \/ (new.edited = Nothing /\ new.draft = Nothing /\ pending = Nothing)
  BY ShowsMeans
<1>4. PendOK(model, pending')
  BY DEF EInv, EditorTyped, PendOK
<1>5. EditorTyped'
  BY <1>1, <1>3, <1>4 DEF EInv, EditorTyped
<1>6. Modal'
  BY <1>1 DEF EInv, Modal
<1>7. /\ PadFits(model, slot, pad[Here], unread) => PadFits(model, new, pad[Here], unread)
      /\ Synced(model, slot, pad[Here]) => Synced(model, new, pad[Here])
  BY SameBaseFits
<1>8. JobIsShown'
  BY <1>1, <1>3, <1>7 DEF EInv, JobIsShown, Uploading
<1>9. Fits'
  BY <1>1, <1>3, <1>7 DEF EInv, Fits
<1>10. InStep'
  BY <1>1, <1>3, <1>7 DEF EInv, InStep, Exist
<1>11. Clean'
  BY <1>3 DEF Clean
<1> QED
  BY <1>2, <1>5, <1>6, <1>8, <1>9, <1>10, <1>11 DEF EInv

LEMMA EditedTo ==
  ASSUME EInv, batch = <<>>, ~changed, NEW new, Shows(new), IsEdit(model, slot, pending, pad[Here], unread, new),
         pending' = Nothing, edits' \in 0 .. MaxEdits,
         UNCHANGED <<vars, changed, review, reading, unread, fresh, elsewhere>>
  PROVE  EInv'
<1>1. /\ slot' = new /\ blind' \in BOOLEAN
      /\ ~blind' => (~blind /\ fresh) \/ (new.edited = Nothing /\ new.draft = Nothing /\ pending = Nothing)
  BY ShowsMeans
<1>2. SlotOK(model, new) /\ SameBase(slot, new) /\ EditKeeps(model, slot, pending, pad[Here], unread, new)
  BY DEF IsEdit
<1>3. elsewhere = 0 => Knows(model, slot, pending, pad[Here], unread)
  BY Known
<1>4. elsewhere = 0 => TriggersFit(new, Nothing, PadStarters(model, pad[Here]))
  BY <1>2, <1>3 DEF EditKeeps, EditFits
<1>5. ASSUME Undisturbed' PROVE ~changed' /\ Neat(new, Nothing)
  <2>1. ~blind' /\ elsewhere = 0
    BY <1>5 DEF Undisturbed
  <2>2. CASE ~blind /\ fresh
    <3>1. Synced(model, slot, pad[Here]) /\ Neat(slot, pending)
      BY <2>1, <2>2 DEF EInv, InStep, Clean, Undisturbed
    <3> QED
      BY <1>2, <1>3, <2>1, <3>1 DEF EditKeeps, EditNeat
  <2>3. CASE new.edited = Nothing /\ new.draft = Nothing
    BY <2>3, NoneExist
  <2> QED
    BY <1>1, <2>1, <2>2, <2>3
<1>6. review' \in {review, "none"} /\ changed' \in BOOLEAN /\ pending' \in {pending, Nothing}
  BY DEF EInv, EditorTyped
<1> QED
  BY <1>2, <1>4, <1>5, <1>6, SlotTo

-------------------------------------------------------------------------------
(***************************************************************************)
(* The steps of the window.                                                *)
(***************************************************************************)
\* The edits that are a step of the user's.
LEMMA EditStep ==
  ASSUME EInv, NEW new, EditTo(new), IsEdit(model, slot, Nothing, pad[Here], unread, new)
  PROVE  EInv'
<1>1. batch = <<>> /\ ~changed /\ pending = Nothing /\ pending' = Nothing /\ Shows(new)
      /\ UNCHANGED <<vars, changed, review, reading, unread, fresh, elsewhere>>
  BY DEF EditTo, Open
<1>2. edits' \in 0 .. MaxEdits
  BY EditorConstants DEF EditTo, EInv, EditorTyped
<1> QED
  BY <1>1, <1>2, EditedTo

LEMMA PickOutputKeeps ==
  ASSUME EInv, PickOutput
  PROVE  EInv'
<1>1. PICK b \in Buttons, output \in Outputs : EditTo(SetOutput(slot, b, output))
  BY DEF PickOutput
<1>2. PICK new : new = SetOutput(slot, b, output)
  OBVIOUS
<1>3. model \in Models /\ SlotOK(model, slot) /\ Shown(slot) # Nothing
  BY Known DEF PickOutput
<1>4. IsMappedFrom(model, slot, b, output, new)
  BY <1>2, <1>3, SetOutputIs
<1>5. EditKeeps(model, slot, Nothing, pad[Here], unread, new)
  BY <1>2, <1>3, SetOutputKeeps
<1>6. IsEdit(model, slot, Nothing, pad[Here], unread, new)
  BY <1>4, <1>5 DEF IsEdit, IsMappedFrom
<1> QED
  BY <1>1, <1>2, <1>6, EditStep

LEMMA JoinStep ==
  ASSUME EInv, Editable(slot), NEW b \in Buttons, NEW n \in DOMAIN ShownMacros(slot), EditTo(JoinMacro(slot, b, n))
  PROVE  EInv'
<1>1. PICK new : new = JoinMacro(slot, b, n)
  OBVIOUS
<1>2. model \in Models /\ SlotOK(model, slot)
  BY Known
<1>3. SlotOK(model, new) /\ SameBase(slot, new) /\ EditKeeps(model, slot, Nothing, pad[Here], unread, new)
  BY <1>1, <1>2, JoinKeeps
<1>4. IsEdit(model, slot, Nothing, pad[Here], unread, new)
  BY <1>3 DEF IsEdit
<1> QED
  BY <1>1, <1>4, EditStep

LEMMA JoinsKeep ==
  ASSUME EInv, PickMacro \/ AddMacroButton
  PROVE  EInv'
<1>1. CASE PickMacro
  <2>1. PICK b \in Starters, n \in DOMAIN ShownMacros(slot) : EditTo(JoinMacro(slot, b, n))
    BY <1>1 DEF PickMacro
  <2>2. Editable(slot) /\ b \in Buttons
    BY <1>1, EditorConstants DEF PickMacro
  <2> QED
    BY <2>1, <2>2, JoinStep
<1>2. CASE AddMacroButton
  <2>1. PICK b \in Starters, n \in DOMAIN ShownMacros(slot) : EditTo(JoinMacro(slot, b, n))
    BY <1>2 DEF AddMacroButton
  <2>2. Editable(slot) /\ b \in Buttons
    BY <1>2, EditorConstants DEF AddMacroButton
  <2> QED
    BY <2>1, <2>2, JoinStep
<1> QED
  BY <1>1, <1>2

LEMMA RemoveStep ==
  ASSUME EInv, RemoveMacroButton
  PROVE  EInv'
<1>1. PICK n \in DOMAIN ShownMacros(slot) : \E b \in ShownMacros(slot)[n].triggers :
        EditMacros([AsShown(slot) EXCEPT ![n].triggers = @ \ {b}])
  BY DEF RemoveMacroButton
<1>2. PICK b \in ShownMacros(slot)[n].triggers : EditMacros([AsShown(slot) EXCEPT ![n].triggers = @ \ {b}])
  BY <1>1
<1>3. PICK new : new = [slot EXCEPT !.draft = [AsShown(slot) EXCEPT ![n].triggers = @ \ {b}]]
  OBVIOUS
<1>4. Editable(slot) /\ EditTo(new)
  BY <1>2, <1>3 DEF EditMacros
<1>5. IsEdit(model, slot, Nothing, pad[Here], unread, new)
  BY <1>3, <1>4, Known, RemoveKeeps
<1> QED
  BY <1>4, <1>5, EditStep

LEMMA NewMacroIs ==
  ASSUME NEW v, v = [Zeroed EXCEPT !.steps = NewSteps]
  PROVE  v \in ValidMacro /\ v.triggers = {}
<1>1. v = [triggers |-> {}, unknown |-> FALSE, steps |-> NewSteps]
  BY DEF Zeroed
<1>2. {} \in SUBSET Buttons /\ NewSteps \in StepLists \ {NoSteps}
  BY EditorConstants
<1>3. v \in ValidMacro
  BY <1>1, <1>2, MadeValid, Zenon
<1>4. v.triggers = {}
  BY DEF Zeroed
<1> QED
  BY <1>3, <1>4

LEMMA NewMacroStep ==
  ASSUME EInv, NewMacro
  PROVE  EInv'
<1>1. PICK n \in MacroSlots(model) : EditMacros(With(AsShown(slot), n, [Zeroed EXCEPT !.steps = NewSteps]))
  BY DEF NewMacro
<1>2. PICK v : v = [Zeroed EXCEPT !.steps = NewSteps]
  OBVIOUS
<1>3. PICK new : new = [slot EXCEPT !.draft = With(AsShown(slot), n, v)]
  OBVIOUS
<1>4. Editable(slot) /\ EditTo(new)
  BY <1>1, <1>2, <1>3 DEF EditMacros
<1>5. v \in ValidMacro /\ v.triggers = {}
  BY <1>2, NewMacroIs
<1>6. IsEdit(model, slot, Nothing, pad[Here], unread, new)
  BY <1>3, <1>4, <1>5, Known, WithKeeps
<1> QED
  BY <1>4, <1>6, EditStep

LEMMA DeleteMacroStep ==
  ASSUME EInv, DeleteMacro
  PROVE  EInv'
<1>1. PICK n \in DOMAIN ShownMacros(slot) : EditMacros(With(AsShown(slot), n, Zeroed))
  BY DEF DeleteMacro
<1>2. PICK v : v = Zeroed
  OBVIOUS
<1>3. PICK new : new = [slot EXCEPT !.draft = With(AsShown(slot), n, v)]
  OBVIOUS
<1>4. Editable(slot) /\ EditTo(new)
  BY <1>1, <1>2, <1>3 DEF EditMacros
<1>5. n \in MacroSlots(model)
  BY Known, ShownAre, DraftIs
<1>6. IsEdit(model, slot, Nothing, pad[Here], unread, new)
  BY <1>2, <1>3, <1>4, <1>5, Known, WithKeeps
<1> QED
  BY <1>4, <1>6, EditStep

LEMMA EditMacroStep ==
  ASSUME EInv, EditMacro
  PROVE  EInv'
<1>1. PICK n \in DOMAIN ShownMacros(slot), l \in StepLists \ {NoSteps} : EditMacros([AsShown(slot) EXCEPT ![n].steps = l])
  BY DEF EditMacro
<1>2. PICK new : new = [slot EXCEPT !.draft = [AsShown(slot) EXCEPT ![n].steps = l]]
  OBVIOUS
<1>3. Editable(slot) /\ EditTo(new)
  BY <1>1, <1>2 DEF EditMacros
<1>4. IsEdit(model, slot, Nothing, pad[Here], unread, new)
  BY <1>2, <1>3, Known, StepsKeep
<1> QED
  BY <1>3, <1>4, EditStep

LEMMA RevertStep ==
  ASSUME EInv, RevertMacro
  PROVE  EInv'
<1>1. PICK n \in MacroSlots(model) : /\ MacroUnsaved(slot, n) /\ Editable(slot) /\ ~RevertRefused(slot, n)
                                     /\ EditTo(Reverted(slot, n))
  BY DEF RevertMacro
<1>2. PICK new : new = Reverted(slot, n)
  OBVIOUS
<1>3. IsEdit(model, slot, Nothing, pad[Here], unread, new)
  BY <1>1, <1>2, Known, RevertKeeps
<1> QED
  BY <1>1, <1>2, <1>3, EditStep

LEMMA DiscardStep ==
  ASSUME EInv, Discard
  PROVE  EInv'
<1>1. PICK new : new = [slot EXCEPT !.edited = Nothing, !.draft = Nothing]
  OBVIOUS
<1>2. IsEdit(model, slot, Nothing, pad[Here], unread, new)
  BY <1>1, Known, ClearedKeeps
<1> QED
  BY <1>1, <1>2, EditStep DEF Discard

LEMMA FromDefaultStep ==
  ASSUME EInv, StartFromDefault
  PROVE  EInv'
<1>1. PICK new : new = [slot EXCEPT !.edited = [map |-> DefaultMap, refs |-> <<>>]]
  OBVIOUS
<1>2. Shown(slot) = Nothing /\ EditTo(new)
  BY <1>1 DEF StartFromDefault
<1>3. IsEdit(model, slot, Nothing, pad[Here], unread, new)
  BY <1>1, <1>2, Known, FromDefaultKeeps
<1> QED
  BY <1>2, <1>3, EditStep

-------------------------------------------------------------------------------
\* The imports.
LEMMA ImportProfileStep ==
  ASSUME EInv, ImportProfile
  PROVE  EInv'
<1>1. PICK file \in ProfileFiles :
        LET macros == IF file.macros = Nothing THEN Nothing ELSE FileMacros(file)
        IN  \/ /\ Open
               /\ pending' = [kind |-> "profile", map |-> file.map, macros |-> macros]
               /\ blind' = (blind \/ ~fresh)
               /\ UNCHANGED <<vars, slot, changed, review, reading, unread, fresh, edits, elsewhere>>
            \/ EditTo(Imported(slot, file.map, macros))
  BY DEF ImportProfile
<1>2. PICK map, macros : map = file.map /\ macros = IF file.macros = Nothing THEN Nothing ELSE FileMacros(file)
  OBVIOUS
<1>3. model \in Models /\ SlotOK(model, slot)
  BY Known
<1>4. /\ map \in [Buttons -> Outputs] /\ macros \in Drafts(model) \cup {Nothing}
      /\ macros # Nothing => StartsOnce(macros, map)
  BY <1>2, <1>3, FileIs
<1>5. ASSUME Open, pending' = [kind |-> "profile", map |-> map, macros |-> macros], blind' = (blind \/ ~fresh),
             UNCHANGED <<vars, slot, changed, review, reading, unread, fresh, edits, elsewhere>>
      PROVE  EInv'
  <2>1. /\ pending' # Nothing => pending'.kind = "profile" /\ pending'.map = map /\ pending'.macros = macros
    BY <1>5
  <2>2. PendOK(model, pending') /\ ~PendsMacro(pending')
    BY <1>4, <2>1 DEF PendOK, PendsMacro
  <2>3. blind' \in BOOLEAN /\ (~blind' => ~blind /\ fresh)
    BY <1>5 DEF EInv, EditorTyped
  <2>4. /\ \A T : TriggersFit(slot, pending, T) => TriggersFit(slot, pending', T)
        /\ Neat(slot, pending) => Neat(slot, pending')
    BY <2>2, NoMacroPends
  <2> QED
    BY <1>5, <2>2, <2>3, <2>4, PendingTo DEF Open
<1>6. ASSUME EditTo(Imported(slot, map, macros)) PROVE EInv'
  <2>1. PICK new : new = Imported(slot, map, macros)
    OBVIOUS
  <2>2. IsEdit(model, slot, Nothing, pad[Here], unread, new)
    BY <1>3, <1>4, <2>1, ImportKeeps
  <2> QED
    BY <1>6, <2>1, <2>2, EditStep
<1> QED
  BY <1>1, <1>2, <1>5, <1>6

LEMMA ImportMacroStep ==
  ASSUME EInv, ImportMacro
  PROVE  EInv'
<1>1. PICK n \in MacroSlots(model), macro \in MacroImports :
        pending' = [kind |-> "macro", n |-> n, macro |-> ReadyMacro(slot, n, macro)]
  BY DEF ImportMacro
<1>2. PICK pend : pend = [kind |-> "macro", n |-> n, macro |-> ReadyMacro(slot, n, macro)]
  OBVIOUS
<1>3. model \in Models /\ SlotOK(model, slot) /\ Shown(slot) # Nothing /\ macro \in ValidMacro
  BY Known, EditorData DEF ImportMacro
<1>4. /\ PendOK(model, pend)
      /\ \A T : TriggersFit(slot, Nothing, T) => TriggersFit(slot, pend, T)
      /\ Neat(slot, Nothing) => Neat(slot, pend)
  BY <1>2, <1>3, ReadyIs
<1>5. pending = Nothing /\ pending' = pend /\ batch = <<>>
      /\ UNCHANGED <<vars, slot, changed, review, reading, unread, fresh, edits, elsewhere>>
  BY <1>1, <1>2 DEF ImportMacro, Open
<1>6. blind' \in BOOLEAN /\ (~blind' => ~blind /\ fresh)
  BY DEF ImportMacro, EInv, EditorTyped
<1> QED
  BY <1>4, <1>5, <1>6, PendingTo

LEMMA ConfirmStep ==
  ASSUME EInv, NEW new, Confirms(new), IsEdit(model, slot, pending, pad[Here], unread, new)
  PROVE  EInv'
<1>1. ~changed /\ pending # Nothing /\ pending' = Nothing /\ Shows(new)
      /\ UNCHANGED <<vars, changed, review, reading, unread, fresh, elsewhere>>
  BY DEF Confirms
<1>2. edits' \in 0 .. MaxEdits
  BY EditorConstants DEF Confirms, EInv, EditorTyped
<1>3. batch = <<>>
  BY <1>1 DEF EInv, Modal, Writing
<1> QED
  BY <1>1, <1>2, <1>3, EditedTo

LEMMA ConfirmImportStep ==
  ASSUME EInv, ConfirmImport
  PROVE  EInv'
<1>1. pending # Nothing /\ pending.kind = "profile"
  BY DEF ConfirmImport
<1>2. PICK macros \in {pending.macros, Nothing} : Confirms(Imported(slot, pending.map, macros))
  BY DEF ConfirmImport
<1>3. model \in Models /\ SlotOK(model, slot) /\ PendOK(model, pending)
  BY Known
<1>4. PICK map : map = pending.map
  OBVIOUS
<1>5. /\ map \in [Buttons -> Outputs] /\ macros \in Drafts(model) \cup {Nothing}
      /\ macros # Nothing => StartsOnce(macros, map)
  BY <1>1, <1>3, <1>4 DEF PendOK
<1>6. PICK new : new = Imported(slot, map, macros)
  OBVIOUS
<1>7. IsEdit(model, slot, pending, pad[Here], unread, new)
  BY <1>3, <1>5, <1>6, ImportKeeps
<1> QED
  BY <1>2, <1>4, <1>6, <1>7, ConfirmStep

LEMMA ConfirmMacroStep ==
  ASSUME EInv, ConfirmMacroImport
  PROVE  EInv'
<1>1. pending # Nothing /\ pending.kind = "macro" /\ PendsMacro(pending)
  BY DEF ConfirmMacroImport, PendsMacro
<1>2. model \in Models /\ SlotOK(model, slot) /\ PendOK(model, pending)
  BY Known
<1>3. CASE ~Editable(slot)
  <2>1. Confirms(slot)
    BY <1>3 DEF ConfirmMacroImport
  <2>2. IsEdit(model, slot, pending, pad[Here], unread, slot)
    BY <1>2, SameKeeps
  <2> QED
    BY <2>1, <2>2, ConfirmStep
<1>4. CASE Editable(slot)
  <2>1. PICK f : f = With(AsShown(slot), pending.n, pending.macro)
    OBVIOUS
  <2>2. PICK new : new = [slot EXCEPT !.draft = f]
    OBVIOUS
  <2>3. Confirms(new)
    BY <1>4, <2>1, <2>2 DEF ConfirmMacroImport
  <2>4. pending.n \in MacroSlots(model) /\ pending.macro \in ValidMacro
    BY <1>1, <1>2 DEF PendOK
  <2>5. IsEdit(model, slot, pending, pad[Here], unread, new)
    BY <1>1, <1>2, <1>4, <2>1, <2>2, <2>4, ImportedMacroKeeps
  <2> QED
    BY <2>3, <2>5, ConfirmStep
<1> QED
  BY <1>3, <1>4

LEMMA CancelImportStep ==
  ASSUME EInv, CancelImport
  PROVE  EInv'
<1>1. pending # Nothing /\ pending' = Nothing
      /\ UNCHANGED <<vars, slot, changed, review, reading, unread, fresh, blind, edits, elsewhere>>
  BY DEF CancelImport
<1>2. batch = <<>> /\ blind' \in BOOLEAN
  BY <1>1 DEF EInv, Modal, Writing, EditorTyped
<1>3. PendOK(model, pending') /\ ~PendsMacro(pending')
  BY <1>1 DEF PendOK, PendsMacro
<1>4. /\ \A T : TriggersFit(slot, pending, T) => TriggersFit(slot, pending', T)
      /\ Neat(slot, pending) => Neat(slot, pending')
  BY <1>3, NoMacroPends
<1>5. ~blind' => ~blind
  BY <1>1
<1> QED
  BY <1>1, <1>2, <1>3, <1>4, <1>5, PendingTo

-------------------------------------------------------------------------------
(***************************************************************************)
(* Reads.                                                                  *)
(***************************************************************************)
LEMMA ReadOkStep ==
  ASSUME EInv, ReadOk
  PROVE  EInv'
<1>1. PICK s, new : s = pad[Here] /\ new = ReadInto(slot, s)
  OBVIOUS
<1>2. /\ slot' = new /\ unread' = Unread(new) /\ reading /\ reading' = FALSE /\ fresh' = TRUE
      /\ changed' = (changed \/ ChangedUnderEdits(slot, s))
      /\ review' = IF review = "reading" THEN "open" ELSE review
      /\ UNCHANGED <<vars, pending, blind, edits, elsewhere>>
  BY <1>1 DEF ReadOk
<1>3. model' = model /\ pad' = pad /\ batch' = batch /\ batch = <<>>
  BY <1>2 DEF vars, EInv, Modal, Writing
<1>4. /\ model \in Models /\ SlotOK(model, slot) /\ PadOK(model, s) /\ PendOK(model, pending)
      /\ elsewhere = 0 => Knows(model, slot, pending, s, unread)
  BY <1>1, Known
<1>5. Sound' /\ Faithful'
  BY <1>2, StandsStill DEF EInv
<1>6. IsReadFrom(slot, s, new)
  BY <1>1, <1>4, ReadIs
<1>7. SlotOK(model, new) /\ Synced(model, new, s)
  BY <1>6 DEF IsReadFrom
<1>8. PICK w : w = Unread(new)
  OBVIOUS
<1>9. UnreadOK(model, w, s)
  BY <1>4, <1>7, <1>8, UnreadAre
<1>10. review' \in {"none", "reading", "open"} /\ review' # "reading"
  BY <1>2 DEF EInv, EditorTyped
<1>11. EditorTyped'
  BY <1>1, <1>2, <1>3, <1>4, <1>7, <1>8, <1>9, <1>10 DEF EInv, EditorTyped
<1>12. Modal'
  BY <1>2, <1>3, <1>10 DEF Modal
<1>13. JobIsShown'
  BY <1>1, <1>2, <1>3, <1>7 DEF JobIsShown, Uploading
<1>14. Fits'
  <2>1. ASSUME elsewhere = 0 PROVE IsReadKept(model, slot, pending, s, w, new)
    BY <1>4, <1>6, <2>1, ReadFits
  <2> QED
    BY <1>1, <1>2, <1>3, <1>8, <2>1 DEF Fits, IsReadKept
<1>15. InStep'
  BY <1>1, <1>2, <1>3, <1>7 DEF InStep
<1>16. Clean'
  <2> SUFFICES ASSUME Undisturbed PROVE ~changed' /\ Neat(new, pending)
    BY <1>2 DEF Clean, Undisturbed
  <2>1. elsewhere = 0 /\ ~blind /\ ~changed /\ Neat(slot, pending)
    BY DEF Undisturbed, EInv, Clean
  <2>2. Exist(slot, pending) => Synced(model, slot, s)
    BY <1>1, <2>1 DEF EInv, InStep
  <2>3. Neat(new, pending) /\ ~ChangedUnderEdits(slot, s)
    BY <1>4, <1>6, <2>1, <2>2, ReadNeat
  <2> QED
    BY <1>2, <2>1, <2>3
<1> QED
  BY <1>5, <1>11, <1>12, <1>13, <1>14, <1>15, <1>16 DEF EInv

LEMMA StepsReadStep ==
  ASSUME EInv, StepsRead
  PROVE  EInv'
<1>1. PICK s, u, found : s = pad[Here] /\ u = unread /\ found = FoundIn(model, s)
  OBVIOUS
<1>2. PICK new : new = [slot EXCEPT !.macros = FilledWith(slot, u, found)]
  OBVIOUS
<1>3. /\ slot' = new /\ u # NoMacros /\ unread' = NoMacros
      /\ UNCHANGED <<vars, changed, review, reading, pending, fresh, blind, edits, elsewhere>>
  <2>1. FoundMacros(pad[Here]) = found
    BY <1>1, FoundAre
  <2>2. slot' = [slot EXCEPT !.macros = FilledWith(slot, u, found)]
    BY <1>1, <2>1, Zenon DEF StepsRead, FilledWith
  <2> QED
    BY <1>1, <1>2, <2>2 DEF StepsRead, Answered
<1>4. model' = model /\ pad' = pad /\ batch' = batch /\ planned' = planned
  BY <1>3 DEF vars
<1>5. /\ model \in Models /\ SlotOK(model, slot) /\ PadOK(model, s) /\ PendOK(model, pending)
      /\ UnreadOK(model, u, s)
  BY <1>1, Known DEF EInv, EditorTyped
<1>6. Sound' /\ Faithful'
  BY <1>3, StandsStill DEF EInv
<1>7. IsFilledFrom(model, slot, new)
  BY <1>1, <1>2, <1>5, FilledIs
<1>8. SlotOK(model, new)
  BY <1>7 DEF IsFilledFrom
<1>9. new.edited = slot.edited /\ new.draft = slot.draft
  BY <1>7 DEF IsFilledFrom
<1>10. UnreadOK(model, NoMacros, s)
  BY NothingUnread
<1>11. /\ Synced(model, slot, s) <=> Synced(model, new, s)
       /\ PadFits(model, slot, s, u) => PadFits(model, new, s, NoMacros)
       /\ \A T : TriggersFit(slot, pending, T) => TriggersFit(new, pending, T)
       /\ Neat(slot, pending) => Neat(new, pending)
       /\ \A job : JobFits(model, slot, job) => JobFits(model, new, job)
  BY <1>3, <1>5, <1>7, FilledKeeps
<1>12. EditorTyped'
  BY <1>1, <1>3, <1>4, <1>8, <1>10 DEF EInv, EditorTyped
<1>13. Modal'
  <2>1. batch' = batch /\ policy' = policy /\ changed' = changed /\ reading' = reading /\ pending' = pending /\ review' = review
    BY <1>3 DEF vars
  <2> QED
    BY <2>1 DEF EInv, Modal, Writing
<1>14. JobIsShown'
  BY <1>1, <1>3, <1>4, <1>11 DEF EInv, JobIsShown, Uploading
<1>15. Fits'
  BY <1>1, <1>3, <1>4, <1>11 DEF EInv, Fits
<1>16. InStep'
  BY <1>1, <1>3, <1>4, <1>9, <1>11 DEF EInv, InStep, Exist
<1>17. Clean'
  BY <1>3, <1>11 DEF EInv, Clean, Undisturbed
<1> QED
  BY <1>6, <1>12, <1>13, <1>14, <1>15, <1>16, <1>17 DEF EInv

\* The steps that leave the slot as it is.
LEMMA QuietSteps ==
  ASSUME EInv, ReadFails \/ StepsFail \/ ReadAgain \/ BeginReview \/ CancelReview \/ UNCHANGED <<vars, evars>>
  PROVE  EInv'
<1> USE DEF EInv, EditorTyped, Modal
<1>1. CASE ReadFails
  <2>1. batch' = batch /\ batch = <<>>
    BY <1>1 DEF ReadFails, vars, Writing
  <2>2. review' \in {"none", "reading", "open"} /\ review' # "reading" /\ (review' = "open" => review = "open")
        /\ reading' = FALSE /\ unread' = unread
    BY <1>1 DEF ReadFails
  <2>3. Modal'
    BY <2>1, <2>2
  <2> QED
    BY <1>1, <2>2, <2>3, SlotStays DEF ReadFails
<1>2. CASE StepsFail
  <2>1. Modal'
    BY <1>2 DEF StepsFail, vars, Writing
  <2> QED
    BY <1>2, <2>1, SlotStays DEF StepsFail
<1>3. CASE ReadAgain
  <2>1. Modal'
    BY <1>3 DEF ReadAgain, vars, Writing
  <2> QED
    BY <1>3, <2>1, SlotStays DEF ReadAgain
<1>4. CASE BeginReview
  <2>1. Modal'
    BY <1>4 DEF BeginReview, Open, vars, Writing
  <2> QED
    BY <1>4, <2>1, SlotStays DEF BeginReview
<1>5. CASE CancelReview
  <2>1. Modal'
    BY <1>5 DEF CancelReview, vars, Writing
  <2> QED
    BY <1>5, <2>1, SlotStays DEF CancelReview
<1>6. CASE UNCHANGED <<vars, evars>>
  <2>1. Modal'
    BY <1>6 DEF evars, vars, Writing
  <2> QED
    BY <1>6, <2>1, SlotStays DEF evars
<1> QED
  BY <1>1, <1>2, <1>3, <1>4, <1>5, <1>6

\* Macros with a button have steps on a model with step pages.
LEMMA SteppedIs ==
  ASSUME NEW m, ~IsPacked(m), NEW s, HasSteps(m, s)
  PROVE  SteppedSlot(s)
<1> SUFFICES ASSUME NEW n \in DOMAIN s.macros, s.macros[n].triggers # {} PROVE s.macros[n].steps # NoSteps
  BY DEF SteppedSlot
<1>1. Zeroed.triggers = {}
  BY DEF Zeroed
<1>2. s.macros[n] # Zeroed
  BY <1>1
<1>3. n \in DOMAIN MacrosOf(m, s) /\ MacrosOf(m, s)[n] = s.macros[n]
  BY <1>2 DEF MacrosOf
<1> QED
  BY <1>3 DEF HasSteps

\* Another program's slot.
LEMMA OtherProgramStep ==
  ASSUME EInv, OtherProgram
  PROVE  EInv'
<1>1. PICK s \in Elsewhere[model] : pad' = [pad EXCEPT ![Here] = s]
  BY DEF OtherProgram
<1>2. /\ batch = <<>> /\ batch' = <<>> /\ review # "open" /\ Answered /\ elsewhere' = elsewhere + 1 /\ elsewhere < MaxElsewhere
      /\ base' = pad' /\ banks' = pad' /\ model' = model /\ planned' = planned /\ policy' = policy
      /\ dirty' = dirty /\ pages' = pages /\ asked' = asked
      /\ UNCHANGED <<slot, changed, review, reading, unread, pending, fresh, blind, edits>>
  BY DEF OtherProgram
<1>3. model \in Models
  BY Known
<1>4. HasSteps(model, s) /\ Here \in Places
  BY <1>1, <1>3, EditorData, HereIs
<1>5. PadOK(model, s)
  BY <1>3, <1>4, FoundStepped
<1>6. DOMAIN pad = Places /\ \A at \in Places : IsSlot(model, pad[at])
  BY DEF EInv, Sound, TypeOK, IsPad
<1>7. pad'[Here] = s /\ \A at \in Places : at = Here
  BY <1>1, <1>4, <1>6, EditorConstants
<1>8. IsPad(model, pad')
  BY <1>1, <1>4, <1>6, <1>7 DEF IsPad, HasSteps
<1>9. planned = 0
  BY <1>2 DEF EInv, Sound, TypeOK
<1>10. TypeOK'
  BY <1>2, <1>3, <1>8 DEF EInv, Sound, TypeOK
<1>11. Sound'
  <2>1. (Based /\ OnePlaceEach /\ Untouched /\ OnlyDirty /\ PutsAreAlone)'
    BY <1>2, <1>9 DEF Based, OnePlaceEach, Untouched, OnlyDirty, PutsAreAlone, Doing
  <2>2. PagesArePlanned'
    BY <1>2 DEF PagesArePlanned
  <2> QED
    BY <1>10, <2>1, <2>2 DEF Sound
<1>12. Faithful'
  <2>1. ~IsPacked(model) => SteppedSlot(s)
    BY <1>3, <1>4, SteppedIs
  <2>2. ~IsPacked(model') => SteppedPad(pad')
    BY <1>2, <1>7, <2>1 DEF SteppedPad
  <2> QED
    BY <1>2, <1>9, <2>2, NothingShown
<1>13. elsewhere' \in 0 .. MaxElsewhere /\ elsewhere' # 0
  BY <1>2, EditorConstants DEF EInv, EditorTyped
<1>14. UnreadOK(model, unread', s)
  BY <1>2, NothingUnread DEF Answered
<1>15. EditorTyped'
  BY <1>2, <1>5, <1>7, <1>13, <1>14 DEF EInv, EditorTyped
<1>16. Modal' /\ JobIsShown'
  BY <1>2 DEF EInv, Modal, JobIsShown, Uploading
<1>17. Fits' /\ InStep' /\ Clean'
  BY <1>13 DEF Fits, InStep, Clean, Undisturbed
<1> QED
  BY <1>11, <1>12, <1>15, <1>16, <1>17 DEF EInv

\* The question about a slot that changed under its edits.
LEMMA ApplyChangedStep ==
  ASSUME EInv, ApplyChanged
  PROVE  EInv'
<1>1. PICK keep \in BOOLEAN :
        Shows(IF keep THEN slot ELSE [slot EXCEPT !.edited = Nothing, !.draft = Nothing])
  BY DEF ApplyChanged
<1>2. PICK new : new = IF keep THEN slot ELSE [slot EXCEPT !.edited = Nothing, !.draft = Nothing]
  OBVIOUS
<1>3. PICK s : s = pad[Here]
  OBVIOUS
<1>4. /\ changed /\ ~changed' /\ changed' \in BOOLEAN /\ Shows(new) /\ review' \in {review, "none"}
      /\ UNCHANGED <<vars, reading, unread, pending, fresh, edits, elsewhere>>
  BY <1>1, <1>2 DEF ApplyChanged
<1>5. batch = <<>> /\ edits' \in 0 .. MaxEdits
  BY <1>4 DEF EInv, Modal, Writing, EditorTyped
<1>6. /\ model \in Models /\ SlotOK(model, slot)
      /\ elsewhere = 0 => Knows(model, slot, pending, s, unread)
  BY <1>3, Known
<1>7. new = slot \/ (IsEdit(model, slot, pending, s, unread, new) /\ new.edited = Nothing /\ new.draft = Nothing)
  <2>1. CASE keep
    BY <1>2, <2>1
  <2>2. CASE ~keep
    <3>1. new = [slot EXCEPT !.edited = Nothing, !.draft = Nothing]
      BY <1>2, <2>2
    <3>2. IsEdit(model, slot, pending, s, unread, new)
      BY <1>6, <3>1, ClearedKeeps
    <3>3. new.edited = Nothing /\ new.draft = Nothing
      <4>1. PICK x : x = Nothing
        OBVIOUS
      <4>2. new = BothTo(slot, x, x)
        BY <3>1, <4>1 DEF BothTo
      <4>3. BothTo(slot, x, x) = SlotWith(slot.pad, x, slot.macros, x)
        BY <1>6, BothExcept DEF SlotOK
      <4> QED
        BY <4>1, <4>2, <4>3 DEF SlotWith
    <3> QED
      BY <3>2, <3>3
  <2> QED
    BY <2>1, <2>2
<1>8. SlotOK(model, new) /\ SameBase(slot, new)
  BY <1>6, <1>7 DEF IsEdit, SameBase
<1>9. ASSUME elsewhere = 0 PROVE TriggersFit(new, pending, PadStarters(model, s))
  <2>1. Knows(model, slot, pending, s, unread)
    BY <1>6, <1>9
  <2>2. CASE new = slot
    BY <2>1, <2>2 DEF Knows
  <2>3. CASE new.edited = Nothing /\ new.draft = Nothing
    <3>1. PadOK(model, s) /\ PadFits(model, slot, s, unread)
      BY <2>1 DEF Knows
    <3>2. \A b \in PadStarters(model, s) : Default(slot.pad, b)
      BY <1>6, <3>1, PadDefault
    <3>3. Shown(new) = slot.pad
      BY <1>8, <2>3 DEF Shown, SameBase
    <3> QED
      BY <2>3, <3>2, <3>3 DEF TriggersFit
  <2> QED
    BY <1>7, <2>2, <2>3
<1>10. ASSUME Undisturbed' PROVE ~changed' /\ Neat(new, pending')
  <2>1. ~blind' /\ elsewhere = 0
    BY <1>4, <1>10 DEF Undisturbed
  <2>2. blind
    BY <1>4, <2>1 DEF EInv, Clean, Undisturbed
  <2>3. new.edited = Nothing /\ new.draft = Nothing /\ pending = Nothing
    BY <1>4, <2>1, <2>2, ShowsMeans
  <2> QED
    BY <1>4, <2>3, NoneExist
<1> QED
  BY <1>3, <1>4, <1>5, <1>8, <1>9, <1>10, SlotTo

-------------------------------------------------------------------------------
(***************************************************************************)
(* Writes.                                                                 *)
(***************************************************************************)
LEMMA SendsSound ==
  ASSUME Sound, Faithful, batch = <<>>, NEW job, JobShape(job), Sends(job), "force" \in Policies
  PROVE  Sound' /\ Faithful'
<1>1. /\ batch' = <<job>> /\ policy' = "force" /\ asked' = asked + 1 /\ asked < MaxBatches
      /\ model' = model /\ pad' = pad /\ base' = base /\ banks' = banks /\ dirty' = dirty /\ pages' = pages /\ planned' = planned
  BY DEF Sends
<1>2. planned = 0
  BY DEF Sound, TypeOK
<1>3. IsBatch(batch') /\ planned' \in 0 .. Len(batch')
  BY <1>1, <1>2, OneIsBatch
<1>4. asked' \in 0 .. MaxBatches
  BY <1>1, PlanConstants DEF Sound, TypeOK
<1>5. TypeOK'
  BY <1>1, <1>3, <1>4 DEF Sound, TypeOK
<1>6. Doing = {} /\ Doing' = {}
  BY <1>1, <1>2 DEF Doing
<1>7. Sound'
  <2>1. (Based /\ OnePlaceEach /\ PutsAreAlone)'
    BY <1>1, <1>6 DEF Sound, Based, OnePlaceEach, PutsAreAlone
  <2>2. Untouched'
    BY <1>1, <1>6 DEF Sound, Untouched
  <2>3. OnlyDirty'
    BY <1>1 DEF Sound, OnlyDirty
  <2>4. PagesArePlanned'
    BY <1>1 DEF Sound, PagesArePlanned, HasPage
  <2> QED
    BY <1>5, <2>1, <2>2, <2>3, <2>4 DEF Sound
<1>8. Faithful'
  <2>1. AreStepped'
    BY <1>1 DEF Faithful, AreStepped
  <2>2. ShowsAsked' /\ KeepsShown'
    BY <1>6 DEF ShowsAsked, KeepsShown
  <2> QED
    BY <2>1, <2>2 DEF Faithful
<1> QED
  BY <1>7, <1>8

\* A job goes to the worker.
LEMMA SendsKeeps ==
  ASSUME EInv, batch = <<>>, ~changed, ~reading, pending = Nothing, review' = "none", NEW job, Sends(job),
         ForHere(job), job.op \in {"upload", "clear"},
         job.op = "upload" => Synced(model, slot, pad[Here]) /\ JobFits(model, slot, job),
         UNCHANGED <<slot, changed, reading, unread, pending, fresh, blind, edits, elsewhere>>
  PROVE  EInv'
<1>1. /\ batch' = <<job>> /\ policy' = "force" /\ model' = model /\ pad' = pad /\ planned' = planned
      /\ batch'[1] = job /\ Len(batch') = 1
  BY DEF Sends
<1>2. planned = 0
  BY DEF EInv, Sound, TypeOK
<1>3. "force" \in Policies
  BY DEF Policies
<1>4. Sound' /\ Faithful'
  BY <1>3, SendsSound DEF EInv, ForHere
<1>5. EditorTyped'
  BY <1>1 DEF EInv, EditorTyped
<1>6. Modal'
  BY <1>1 DEF Modal, Writing
<1>7. JobIsShown'
  BY <1>1, <1>2 DEF JobIsShown, Uploading
<1>8. Fits'
  BY <1>1 DEF EInv, Fits
<1>9. InStep' /\ Clean'
  BY <1>1 DEF EInv, InStep, Clean, Undisturbed
<1> QED
  BY <1>4, <1>5, <1>6, <1>7, <1>8, <1>9 DEF EInv

LEMMA ConfirmReviewStep ==
  ASSUME EInv, ConfirmReview
  PROVE  EInv'
<1>1. PICK job : job = UploadJob(slot)
  OBVIOUS
<1>2. /\ review = "open" /\ ~changed /\ Unsaved(slot) /\ batch = <<>> /\ pending = Nothing
      /\ Sends(job) /\ review' = "none"
      /\ UNCHANGED <<slot, changed, reading, unread, pending, fresh, blind, edits, elsewhere>>
  BY <1>1 DEF ConfirmReview, ReviewOpen
<1>3. Synced(model, slot, pad[Here]) /\ ~reading
  BY <1>2 DEF EInv, JobIsShown, Modal
<1>4. ForHere(job) /\ job.op = "upload" /\ JobFits(model, slot, job)
  BY <1>1, <1>2, Known, UploadJobIs
<1> QED
  BY <1>2, <1>3, <1>4, SendsKeeps

LEMMA ConfirmClearStep ==
  ASSUME EInv, ConfirmClear
  PROVE  EInv'
<1>1. PICK job : job = ClearJob
  OBVIOUS
<1>2. batch = <<>> /\ ~changed /\ pending = Nothing /\ ~reading /\ review = "none" /\ Sends(job) /\ UNCHANGED evars
  BY <1>1 DEF ConfirmClear, Open
<1>3. ForHere(job) /\ job.op = "clear"
  BY <1>1, Known, ClearJobIs
<1> QED
  BY <1>2, <1>3, SendsKeeps DEF evars

LEMMA PlanUploadStep ==
  ASSUME EInv, PlanUpload
  PROVE  EInv'
<1>1. batch # <<>> /\ PlanJob /\ UNCHANGED evars
  BY DEF PlanUpload
<1>2. /\ model' = model /\ pad' = pad /\ batch' = batch /\ policy' = policy /\ planned' = planned + 1
      /\ ~MustRefuse /\ planned < Len(batch)
  BY <1>1 DEF PlanJob
<1>3. Sound' /\ Faithful'
  BY <1>1, PlanStepKeeps DEF PlanStep, EInv
<1>4. Writing
  BY <1>1 DEF EInv, Modal
<1>5. planned = 0 /\ planned' = 1 /\ Job = batch[1]
  BY <1>2, <1>4 DEF EInv, Sound, TypeOK, Writing, Job
<1>6. EditorTyped'
  BY <1>1, <1>2 DEF EInv, EditorTyped, evars
<1>7. Modal'
  BY <1>1, <1>2 DEF EInv, Modal, Writing, evars
<1>8. ASSUME Uploading PROVE pad[Here].used \/ batch[1].map # Keep
  <2>1. PICK job : job = batch[1]
    OBVIOUS
  <2>2. ~MacrosRefused
    BY <1>2, <1>5, <1>8 DEF MustRefuse, Uploading
  <2>3. Before = pad[Here]
    BY <1>4, <1>5 DEF Before, Writing, ForHere, EInv, Sound, Based
  <2>4. job.map # Keep \/ DOMAIN job.edits # {}
    BY <1>8, <2>1 DEF EInv, JobIsShown, JobFits
  <2>5. job.edits \in Seq(Edit)
    BY <1>4, <2>1 DEF Writing, ForHere, JobShape
  <2> QED
    BY <1>5, <2>1, <2>2, <2>3, <2>4, <2>5 DEF MacrosRefused
<1>9. JobIsShown'
  BY <1>1, <1>2, <1>8 DEF EInv, JobIsShown, Uploading, evars
<1>10. Fits' /\ InStep' /\ Clean'
  BY <1>1, <1>2 DEF EInv, Fits, InStep, Clean, Undisturbed, evars
<1> QED
  BY <1>3, <1>6, <1>7, <1>9, <1>10 DEF EInv

LEMMA WriteFailsStep ==
  ASSUME EInv, WriteFails
  PROVE  EInv'
<1>1. /\ RefuseBatch /\ batch # <<>> /\ batch' = <<>> /\ model' = model /\ pad' = pad
      /\ reading' = TRUE /\ fresh' = FALSE
      /\ UNCHANGED <<slot, changed, review, unread, pending, blind, edits, elsewhere>>
  BY DEF WriteFails, RefuseBatch, Idle
<1>2. Sound' /\ Faithful'
  BY <1>1, PlanStepKeeps DEF PlanStep, EInv
<1>3. review = "none"
  BY <1>1 DEF EInv, Modal, Writing
<1>4. EditorTyped'
  BY <1>1 DEF EInv, EditorTyped
<1>5. Modal' /\ JobIsShown'
  BY <1>1, <1>3 DEF Modal, JobIsShown, Uploading
<1>6. Fits' /\ Clean'
  BY <1>1 DEF EInv, Fits, Clean, Undisturbed
<1>7. InStep'
  BY <1>1 DEF EInv, InStep
<1> QED
  BY <1>2, <1>4, <1>5, <1>6, <1>7 DEF EInv

\* What a write of the window's leaves.
LEMMA WriteSucceedsStep ==
  ASSUME EInv, WriteSucceeds
  PROVE  /\ EInv'
         /\ batch[1].op = "upload" => Described(View(pad'[Here])) = Wanted(slot)
<1>1. PICK s, t, new : /\ s = pad[Here] /\ t = banks[Here]
                       /\ new = IF batch[1].op = "clear" THEN EmptySlot ELSE TakenAsHeld(slot)
  OBVIOUS
<1>2. /\ Write /\ batch # <<>> /\ planned = Len(batch) /\ unread = NoMacros /\ slot' = new
      /\ batch' = <<>> /\ model' = model /\ reading' = TRUE /\ fresh' = FALSE /\ blind' = FALSE
      /\ UNCHANGED <<changed, review, unread, pending, edits, elsewhere>>
  BY <1>1 DEF WriteSucceeds, Answered, Write, Idle
<1>3. Sound' /\ Faithful'
  BY <1>2, PlanStepKeeps DEF PlanStep, EInv
<1>4. pad'[Here] = t
  BY <1>1, <1>2, WriteIs, HereIs DEF EInv
<1>5. Writing
  BY <1>2 DEF EInv, Modal
<1>6. /\ Len(batch) = 1 /\ planned = 1 /\ Place(batch[1]) = Here /\ ~changed /\ pending = Nothing /\ review = "none"
      /\ batch[1].op \in {"upload", "clear"}
  BY <1>2, <1>5 DEF Writing, ForHere
<1>7. /\ model \in Models /\ SlotOK(model, slot) /\ PadOK(model, s)
      /\ elsewhere = 0 => Knows(model, slot, pending, s, unread)
  BY <1>1, Known
<1>8. /\ PadOK(model, t) /\ SlotOK(model, new) /\ new.edited = Nothing /\ new.draft = Nothing
      /\ elsewhere = 0 => PadFits(model, new, t, NoMacros)
      /\ batch[1].op = "upload" => Described(View(pad'[Here])) = Wanted(slot)
  <2>1. CASE batch[1].op = "clear"
    <3>1. new = EmptySlot
      BY <1>1, <2>1
    <3>2. PadOK(model, t) /\ PadFits(model, new, t, NoMacros)
      BY <1>1, <1>2, <1>6, <2>1, <3>1, ClearTaken DEF EInv
    <3> QED
      BY <2>1, <3>1, <3>2, EmptyIs
  <2>2. CASE batch[1].op = "upload"
    <3>1. new = TakenAsHeld(slot) /\ Uploading
      BY <1>1, <1>2, <2>2 DEF Uploading
    <3>2. Synced(model, slot, s) /\ JobFits(model, slot, batch[1]) /\ (s.used \/ batch[1].map # Keep)
      BY <1>1, <1>6, <3>1 DEF EInv, JobIsShown
    <3>3. /\ PadOK(model, t) /\ SlotOK(model, new) /\ new.edited = Nothing /\ new.draft = Nothing
          /\ Knows(model, slot, pending, s, NoMacros) => PadFits(model, new, t, NoMacros)
      BY <1>1, <1>2, <1>6, <1>7, <2>2, <3>1, <3>2, UploadTaken DEF EInv
    <3>4. PICK E : E = EditedFor(Without(FoundIn(model, s), Dropped(slot)), batch[1].edits)
      OBVIOUS
    <3>5. Described(View(banks[Here])) = Wanted(slot)
      BY <1>1, <1>2, <1>6, <1>7, <2>2, <3>2, <3>4, UploadShows DEF EInv
    <3>6. View(pad'[Here]) = View(banks[Here])
      BY <1>1, <1>4
    <3> QED
      BY <1>2, <1>7, <3>3, <3>5, <3>6
  <2> QED
    BY <1>6, <2>1, <2>2
<1>9. UnreadOK(model, NoMacros, t)
  BY NothingUnread
<1>10. EditorTyped'
  BY <1>2, <1>4, <1>8, <1>9 DEF EInv, EditorTyped
<1>11. Modal' /\ JobIsShown'
  BY <1>2, <1>6 DEF Modal, JobIsShown, Uploading
<1>12. /\ ~Exist(new, Nothing) /\ Neat(new, Nothing) /\ \A T : TriggersFit(new, Nothing, T)
  BY <1>8, NoneExist
<1>13. Fits'
  BY <1>2, <1>4, <1>6, <1>8, <1>12 DEF Fits
<1>14. InStep' /\ Clean'
  BY <1>2, <1>6, <1>12 DEF InStep, Clean
<1> QED
  BY <1>3, <1>8, <1>10, <1>11, <1>13, <1>14 DEF EInv

-------------------------------------------------------------------------------
(***************************************************************************)
(* The theorems.                                                           *)
(***************************************************************************)
LEMMA EditorStarts ==
  ASSUME EditorInit
  PROVE  EInv
<1>1. PICK p \in Pads : model = p.model /\ pad = p.banks
  BY DEF EditorInit, Init
<1>2. PICK s, e : s = pad[Here] /\ e = EmptySlot
  OBVIOUS
<1>3. /\ Init /\ slot = ReadInto(e, s) /\ changed = FALSE /\ review = "none" /\ reading = FALSE
      /\ unread = Unread(slot) /\ pending = Nothing /\ fresh = TRUE /\ blind = FALSE /\ edits = 0 /\ elsewhere = 0
  BY <1>2 DEF EditorInit
<1>4. /\ Here \in Places /\ \A at \in Places : at = Here /\ HasSteps(model, pad[at])
      /\ s.used => StartsOnce(MacrosOf(model, s), MapOf(model, s))
  BY <1>1, <1>2, EditorData, EditorConstants, HereIs
<1>5. HasSteps(model, s)
  BY <1>2, <1>4
<1>6. Sound
  BY <1>3, InitSound
<1>7. model \in Models /\ base = pad /\ banks = pad /\ batch = <<>> /\ planned = 0
  BY <1>3, <1>6, BankIs DEF Init
<1>8. Faithful
  <2>1. ~IsPacked(model) => SteppedPad(pad)
    BY <1>4, SteppedIs DEF SteppedPad
  <2>2. ShowsAsked /\ KeepsShown
    BY <1>7 DEF ShowsAsked, KeepsShown, Doing
  <2> QED
    BY <1>7, <2>1, <2>2 DEF Faithful, AreStepped
<1>9. PadOK(model, s)
  BY <1>5, <1>7, FoundStepped
<1>10. SlotOK(model, e) /\ e.edited = Nothing /\ e.draft = Nothing
  BY <1>2, EmptyIs
<1>11. PICK sl : sl = slot
  OBVIOUS
<1>12. IsReadFrom(e, s, sl)
  BY <1>3, <1>7, <1>9, <1>10, <1>11, ReadIs
<1>13. SlotOK(model, sl) /\ Synced(model, sl, s) /\ sl.edited = Nothing /\ sl.draft = Nothing
  BY <1>10, <1>12 DEF IsReadFrom, MacrosUnsaved
<1>14. UnreadOK(model, unread, s)
  BY <1>3, <1>9, <1>11, <1>13, UnreadAre
<1>15. StartsOnce(FoundIn(model, s), ViewFor(model, s).map)
  <2>1. CASE s.used
    <3>1. PICK M, G, map : M = MacrosOf(model, s) /\ G = EachEncoded(M) /\ map = MapOf(model, s)
      OBVIOUS
    <3>2. FoundIn(model, s) = G /\ ViewFor(model, s).map = map
      BY <2>1, <3>1 DEF FoundIn, ViewFor, UsedView
    <3>3. StartsOnce(M, map)
      BY <1>4, <2>1, <3>1
    <3>4. DOMAIN G = DOMAIN M /\ \A n \in DOMAIN M : G[n].triggers = M[n].triggers
      <4>1. PICK b : Size(b)
        BY <1>7, SizeIs
      <4>2. PICK K \in SUBSET (1..b) : M \in [K -> Macro]
        BY <1>5, <3>1, <4>1, MacrosAreTyped DEF HasSteps
      <4>3. \A w \in Macro : Encoded(w).triggers = w.triggers
        BY DEF Encoded, Macro
      <4> QED
        BY <3>1, <4>2, <4>3 DEF EachEncoded
    <3> QED
      BY <3>2, <3>3, <3>4, LessOnce
  <2>2. CASE ~s.used
    <3>1. FoundIn(model, s) = NoMacros
      BY <1>7, <1>9, <2>2, ProfileFound
    <3> QED
      BY <3>1 DEF StartsOnce, NoMacros
  <2> QED
    BY <2>1, <2>2
<1>16. PadFits(model, sl, s, unread)
  BY <1>7, <1>9, <1>13, <1>15, SyncedFits
<1>17. Neat(sl, pending) /\ \A T : TriggersFit(sl, pending, T)
  BY <1>3, <1>13, NoneExist
<1>18. EditorTyped
  <2>1. PendOK(model, pending)
    BY <1>3 DEF PendOK
  <2>2. edits \in 0 .. MaxEdits /\ elsewhere \in 0 .. MaxElsewhere
    BY <1>3, EditorConstants
  <2>3. changed \in BOOLEAN /\ reading \in BOOLEAN /\ fresh \in BOOLEAN /\ blind \in BOOLEAN
    BY <1>3
  <2>4. SlotOK(model, slot) /\ PadOK(model, pad[Here]) /\ UnreadOK(model, unread, pad[Here])
    BY <1>2, <1>9, <1>11, <1>13, <1>14
  <2> QED
    BY <1>3, <2>1, <2>2, <2>3, <2>4 DEF EditorTyped
<1>19. Modal /\ JobIsShown
  BY <1>3, <1>7 DEF Modal, JobIsShown, Uploading
<1>20. Fits /\ InStep /\ Clean
  BY <1>2, <1>3, <1>11, <1>13, <1>16, <1>17 DEF Fits, InStep, Clean
<1> QED
  BY <1>6, <1>8, <1>18, <1>19, <1>20 DEF EInv

LEMMA EditorSteps ==
  ASSUME EInv, [EditorNext]_<<vars, evars>>
  PROVE  EInv'
<1>1. CASE PickOutput \/ PickMacro \/ AddMacroButton \/ RemoveMacroButton \/ NewMacro \/ DeleteMacro
  BY <1>1, PickOutputKeeps, JoinsKeep, RemoveStep, NewMacroStep, DeleteMacroStep
<1>2. CASE EditMacro \/ RevertMacro \/ Discard \/ StartFromDefault
  BY <1>2, EditMacroStep, RevertStep, DiscardStep, FromDefaultStep
<1>3. CASE ImportProfile \/ ImportMacro \/ ConfirmImport \/ ConfirmMacroImport \/ CancelImport
  BY <1>3, ImportProfileStep, ImportMacroStep, ConfirmImportStep, ConfirmMacroStep, CancelImportStep
<1>4. CASE ReadOk \/ StepsRead \/ OtherProgram \/ ApplyChanged
  BY <1>4, ReadOkStep, StepsReadStep, OtherProgramStep, ApplyChangedStep
<1>5. CASE ReadFails \/ StepsFail \/ ReadAgain \/ BeginReview \/ CancelReview \/ UNCHANGED <<vars, evars>>
  BY <1>5, QuietSteps
<1>6. CASE ConfirmReview \/ ConfirmClear \/ PlanUpload \/ WriteFails \/ WriteSucceeds
  BY <1>6, ConfirmReviewStep, ConfirmClearStep, PlanUploadStep, WriteFailsStep, WriteSucceedsStep
<1> QED
  BY <1>1, <1>2, <1>3, <1>4, <1>5, <1>6 DEF EditorNext

\* EInv holds always: of the slot as edited, of what waits for an answer and of the batch that
\* writes it, whatever the tabs, Revert, files, reads and another program do.
THEOREM EditorKeepsInvariant == EditorSpec => []EInv
<1>1. EditorInit => EInv
  BY EditorStarts
<1>2. EInv /\ [EditorNext]_<<vars, evars>> => EInv'
  BY EditorSteps
<1> QED
  BY <1>1, <1>2, PTL DEF EditorSpec

LEMMA TypesAre ==
  ASSUME EInv
  PROVE  EditorTypeOK
<1>1. /\ TypeOK /\ model \in Models
      /\ SlotOK(model, slot) /\ UnreadOK(model, unread, pad[Here])
  BY Known DEF EInv, Sound, EditorTyped
<1>2. \A p \in Profiles(model) : IsProfile(p)
  BY ProfileIs DEF IsProfile, RefsOK
<1>3. \A f \in Drafts(model) : IsMacros(f)
  <2> SUFFICES ASSUME NEW f \in Drafts(model) PROVE IsMacros(f)
    OBVIOUS
  <2>1. DOMAIN f \subseteq MacroSlots(model) /\ f \in [DOMAIN f -> ValidMacro]
    BY DraftIs
  <2>2. \A n \in DOMAIN f : f[n] \in Macro
    BY <2>1 DEF ValidMacro
  <2> QED
    BY <2>1, <2>2 DEF IsMacros
<1>4. slot.pad \in Profiles(model) \cup {Nothing} /\ slot.edited \in Profiles(model) \cup {Nothing}
      /\ slot.draft \in Drafts(model) \cup {Nothing}
  BY <1>1 DEF SlotOK, PartsOK
<1>5. HeldMacros(slot) \in Drafts(model) /\ unread \in Drafts(model)
  BY <1>1, HeldAre DEF UnreadOK
<1>6. {changed, reading, fresh, blind} \subseteq BOOLEAN
  BY DEF EInv, EditorTyped
<1> QED
  BY <1>1, <1>2, <1>3, <1>4, <1>5, <1>6 DEF EditorTypeOK, EInv, EditorTyped

\* Slots, drafts, imports and jobs keep their shape: no edit makes a macro without steps or
\* with a slot that the model has not.
THEOREM EditorTypeCorrect == EditorSpec => []EditorTypeOK
<1>1. EInv => EditorTypeOK
  BY TypesAre
<1> QED
  BY <1>1, EditorKeepsInvariant, PTL

LEMMA StartersAlone ==
  ASSUME EInv
  PROVE  OneStarter
<1> SUFFICES ASSUME Undisturbed, fresh \/ Unsaved(slot), Shown(slot) # Nothing,
                    NEW b \in Buttons, StartedBy(slot, b) # Nothing
             PROVE  /\ ~MappedTo(slot, b)
                    /\ Cardinality({n \in DOMAIN ShownMacros(slot) : b \in ShownMacros(slot)[n].triggers}) = 1
  BY DEF OneStarter
<1>1. elsewhere = 0 /\ ~blind /\ Neat(slot, pending)
  BY DEF Undisturbed, EInv, Clean
<1>2. model \in Models /\ Knows(model, slot, pending, pad[Here], unread)
  BY <1>1, Known
<1>3. fresh \/ Exist(slot, pending)
  BY DEF Unsaved, ProfileUnsaved, MacrosUnsaved, Exist
<1>4. Synced(model, slot, pad[Here])
  BY <1>1, <1>3 DEF EInv, InStep
<1> QED
  BY <1>1, <1>2, <1>4, StartsOne

\* However set_output, join_macro, revert_macro and apply_import are mixed, a button of the
\* slot shown starts one macro at most, and one that starts a macro has its default output,
\* as long as no other program writes the slot.
THEOREM OneStarterHolds == EditorSpec => []OneStarter
<1>1. EInv => OneStarter
  BY StartersAlone
<1> QED
  BY <1>1, EditorKeepsInvariant, PTL

LEMMA JobsAreTaken ==
  ASSUME EInv
  PROVE  JobIsAccepted
<1> SUFFICES ASSUME batch # <<>>, planned < Len(batch), Undisturbed PROVE ~MustRefuse
  BY DEF JobIsAccepted
<1>1. Writing
  BY DEF EInv, Modal
<1>2. planned = 0
  BY <1>1 DEF EInv, Sound, TypeOK, Writing
<1>3. ASSUME batch[1].op = "upload" PROVE ~MacrosRefused
  <2>1. Neat(slot, Nothing)
    BY <1>1 DEF EInv, Clean, Writing
  <2>2. /\ Synced(model, slot, pad[Here]) /\ JobFits(model, slot, batch[1])
        /\ SlotOK(model, slot) /\ PadOK(model, pad[Here])
    BY <1>3 DEF EInv, JobIsShown, Uploading, EditorTyped
  <2> QED
    BY <1>1, <1>2, <1>3, <2>1, <2>2, EditsAreTaken DEF EInv, Writing
<1> QED
  BY <1>1, <1>2, <1>3, NothingRefused DEF EInv, Writing

\* The job that confirm_review makes of the edits is one that the plan takes: no macro put
\* has a trigger of another one or of a mapped button, and no clear is refused, as long as no
\* other program writes the slot.
THEOREM JobIsAcceptedHolds == EditorSpec => []JobIsAccepted
<1>1. EInv => JobIsAccepted
  BY JobsAreTaken
<1> QED
  BY <1>1, EditorKeepsInvariant, PTL

\* A write that succeeds leaves on the pad what the window showed: the map, the macros that
\* upload_job left out as unedited, and none of the buttons that dropped_buttons names.
THEOREM ShownIsWrittenHolds == EditorSpec => ShownIsWritten
<1>1. EInv /\ [EditorNext]_<<vars, evars>> =>
        [(WriteSucceeds /\ batch[1].op = "upload") =>
          Described(View(pad'[Here])) = Wanted(slot)]_<<vars, evars>>
  BY WriteSucceedsStep
<1> QED
  BY <1>1, EditorKeepsInvariant, PTL DEF EditorSpec, ShownIsWritten

\* What a macro is when a macro is reverted: it has the steps it had, or its own as read.
LEMMA RevertedMacros ==
  ASSUME NEW m \in Models, NEW sl, SlotOK(m, sl), sl.draft # Nothing, NEW n, NEW new, new = Reverted(sl, n),
         NEW k \in DOMAIN new.draft,
         DOMAIN new.draft = (DOMAIN sl.draft \ {n}) \cup (DOMAIN sl.macros \cap {n})
  PROVE  /\ k = n => new.draft[n] = sl.macros[n].def
         /\ k # n => new.draft[k].steps = sl.draft[k].steps
<1>1. PICK p, e, h, d : p = sl.pad /\ e = sl.edited /\ h = sl.macros /\ d = sl.draft
  OBVIOUS
<1>2. sl = SlotWith(p, e, h, d) /\ d \in Drafts(m)
  BY <1>1 DEF SlotOK, PartsOK
<1>3. PICK f : f = [j \in (DOMAIN sl.draft \ {n}) \cup (DOMAIN sl.macros \cap {n}) |->
                     IF j = n THEN sl.macros[j].def
                     ELSE [sl.draft[j] EXCEPT !.triggers =
                             @ \cup {b \in TakenBy(sl, n) : FirstOf(HeldMacros(sl), b) = j}]]
  OBVIOUS
<1>4. PICK q : q = IF sl.pad = Nothing \/ sl.edited = Nothing THEN sl.edited
                   ELSE Restored(sl.edited, sl.pad, HeldTriggers(sl, n) \cup TakenBy(sl, n))
  OBVIOUS
<1>5. new = BothTo(sl, q, f)
  BY <1>1, <1>2, <1>3, <1>4 DEF Reverted, BothTo, SlotWith
<1>6. new = SlotWith(p, q, h, f)
  BY <1>2, <1>5, BothExcept
<1>7. new.draft = f
  BY <1>6 DEF SlotWith
<1>8. CASE k = n
  BY <1>3, <1>7, <1>8
<1>9. CASE k # n
  <2>1. k \in DOMAIN d
    BY <1>1, <1>9
  <2>2. PICK v : v = d[k]
    OBVIOUS
  <2>3. v \in ValidMacro
    BY <1>2, <2>1, <2>2, DraftIs
  <2>4. f[k] = [v EXCEPT !.triggers = @ \cup {b \in TakenBy(sl, n) : FirstOf(HeldMacros(sl), b) = k}]
    BY <1>1, <1>3, <1>9, <2>1, <2>2
  <2>5. f[k].steps = v.steps
    BY <2>3, <2>4, ValidIs
  <2> QED
    BY <1>1, <1>7, <1>9, <2>2, <2>5
<1> QED
  BY <1>8, <1>9

\* The least macro with a button is the one it starts.
LEMMA FirstWith ==
  ASSUME NEW m, NEW f \in Drafts(m), NEW b, NEW n \in DOMAIN f, b \in f[n].triggers,
         \A k \in DOMAIN f : b \in f[k].triggers => n <= k
  PROVE  FirstOf(f, b) = n
<1>1. DOMAIN f \subseteq Nat
  BY DraftIs DEF MacroSlots
<1>2. PICK l : l = FirstOf(f, b)
  OBVIOUS
<1>3. b \in TriggersOf(f)
  BY StartersAre
<1>4. l \in DOMAIN f /\ b \in f[l].triggers /\ l <= n
  BY <1>2, <1>3, FirstOne
<1> QED
  BY <1>1, <1>2, <1>4

\* What "Revert" says holds when no two of the edited macros share a button.
LEMMA RevertIs ==
  ASSUME NEW m \in Models, NEW sl, SlotOK(m, sl), NEW n \in MacroSlots(m),
         MacroUnsaved(sl, n), ~RevertRefused(sl, n), NEW new, new = Reverted(sl, n),
         \A k, l \in DOMAIN sl.draft : \A b : b \in sl.draft[k].triggers /\ b \in sl.draft[l].triggers => k = l
  PROVE  PutBack(sl, n, new)
<1>1. PICK d, own, taken, H : /\ d = sl.draft /\ own = HeldTriggers(sl, n)
                              /\ taken = TakenBy(sl, n) /\ H = HeldMacros(sl)
  OBVIOUS
<1>2. sl.draft # Nothing /\ d \in Drafts(m)
  BY <1>1 DEF MacroUnsaved, SlotOK, PartsOK
<1>3. IsRevertedFrom(m, sl, n, new)
  BY <1>2, RevertedIs
<1>4. PICK f : f = new.draft
  OBVIOUS
<1>5. /\ f \in Drafts(m) /\ f # Nothing /\ new.pad = sl.pad /\ new.macros = sl.macros /\ SlotOK(m, new)
      /\ DOMAIN f = (DOMAIN d \ {n}) \cup (DOMAIN sl.macros \cap {n})
  BY <1>1, <1>3, <1>4, NoDraft DEF IsRevertedFrom, SameBase
<1>6. /\ H \in Drafts(m) /\ DOMAIN H = DOMAIN sl.macros
      /\ \A k \in DOMAIN H : H[k] = sl.macros[k].def
  BY <1>1, HeldAre
<1>7. own = (IF n \in DOMAIN H THEN H[n].triggers ELSE {})
  BY <1>1, <1>6 DEF HeldTriggers
<1>8. taken = (IF n \in DOMAIN d THEN d[n].triggers ELSE {}) \ own
  BY <1>1 DEF TakenBy
<1>9. own \subseteq Buttons /\ taken \subseteq Buttons
  <2>1. n \in DOMAIN H => H[n] \in ValidMacro
    BY <1>6, DraftIs
  <2>2. n \in DOMAIN d => d[n] \in ValidMacro
    BY <1>2, DraftIs
  <2> QED
    BY <1>7, <1>8, <2>1, <2>2, ValidIs
\* The macros with a button, after and before.
<1>10. ASSUME NEW k \in DOMAIN f, NEW b
       PROVE  b \in f[k].triggers
                <=> IF k = n THEN b \in own
                    ELSE k \in DOMAIN d /\ (b \in d[k].triggers \/ (b \in taken /\ FirstOf(H, b) = k))
  <2>1. f[k].triggers = IF k = n THEN sl.macros[k].def.triggers ELSE sl.draft[k].triggers \cup HomeOf(sl, n, k)
    BY <1>3, <1>4 DEF IsRevertedFrom
  <2>2. CASE k = n
    BY <1>5, <1>6, <1>7, <2>1, <2>2
  <2>3. CASE k # n
    BY <1>1, <1>5, <2>1, <2>3 DEF HomeOf
  <2> QED
    BY <2>2, <2>3
<1>11. \A b : StartedBy(new, b) = FirstOf(f, b)
  BY <1>4, <1>5 DEF StartedBy, ShownMacros
<1>12. \A b : StartedBy(sl, b) = FirstOf(d, b)
  BY <1>1, <1>2 DEF StartedBy, ShownMacros
<1>13. ASSUME NEW b \in taken, NEW k \in DOMAIN d, k # n
       PROVE  b \notin d[k].triggers
  BY <1>1, <1>8, <1>13
\* The output of a button that starts none.
<1>14. ASSUME NEW b \in Buttons
       PROVE  /\ (b \in own \cup taken /\ sl.pad # Nothing) => Shown(new).map[b] = sl.pad.map[b]
              /\ b \notin own \cup taken => Shown(new).map[b] = Shown(sl).map[b]
  <2>1. sl.edited = Nothing <=> new.edited = Nothing
    BY <1>3 DEF IsRevertedFrom
  <2>2. CASE sl.edited = Nothing
    <3>1. Shown(new) = sl.pad /\ Shown(sl) = sl.pad
      BY <1>5, <2>1, <2>2 DEF Shown
    <3> QED
      BY <3>1
  <2>3. CASE sl.edited # Nothing
    <3>1. Shown(new) = new.edited /\ Shown(sl) = sl.edited
      BY <2>1, <2>3 DEF Shown
    <3>2. new.edited.map[b] = IF sl.pad # Nothing /\ b \in own \cup taken THEN sl.pad.map[b] ELSE sl.edited.map[b]
      BY <1>1, <1>3, <2>3 DEF IsRevertedFrom, Reverts
    <3> QED
      BY <3>1, <3>2
  <2> QED
    BY <2>2, <2>3
<1>15. ~MacroUnsaved(new, n)
  <2>1. n \in DOMAIN f <=> n \in DOMAIN sl.macros
    BY <1>5
  <2>2. n \in DOMAIN f => f[n] = sl.macros[n].def
    BY <1>1, <1>2, <1>4, <1>5, RevertedMacros
  <2> QED
    BY <1>4, <1>5, <2>1, <2>2 DEF MacroUnsaved
<1>16. ASSUME NEW b \in own PROVE Current(new, b) = MacroOutput(n)
  <2>1. n \in DOMAIN f /\ b \in f[n].triggers
    BY <1>5, <1>6, <1>7, <1>10, <1>16
  <2>2. ASSUME NEW k \in DOMAIN f, b \in f[k].triggers PROVE n <= k
    <3>1. CASE k = n
      BY <3>1 DEF MacroSlots
    <3>2. CASE k # n
      <4>1. k \in DOMAIN d /\ b \in d[k].triggers
        BY <1>8, <1>10, <1>16, <2>2, <3>2
      <4>2. PICK l : l = FirstOf(d, b)
        OBVIOUS
      <4>3. b \in TriggersOf(d)
        BY <4>1, StartersAre
      <4>4. l # Nothing /\ l <= k
        BY <1>2, <4>1, <4>2, <4>3, FirstOne
      <4>5. l \in {Nothing, n}
        BY <1>1, <1>12, <1>16, <4>2 DEF RevertRefused
      <4> QED
        BY <4>4, <4>5
    <3> QED
      BY <3>1, <3>2
  <2>3. StartedBy(new, b) = n
    BY <1>5, <1>11, <2>1, <2>2, FirstWith
  <2>4. n # Nothing
    BY EditorConstants DEF MacroSlots
  <2> QED
    BY <2>3, <2>4 DEF Current
<1>17. ASSUME NEW b \in taken, NEW h, h = FirstOf(H, b)
       PROVE  IF h # Nothing /\ h \notin DOMAIN d THEN StartedBy(new, b) = Nothing
              ELSE sl.pad = Nothing \/ Current(new, b) = HeldCurrent(sl, b)
  <2>1. ASSUME NEW k \in DOMAIN f, b \in f[k].triggers PROVE k = h /\ h \in DOMAIN d
    BY <1>8, <1>10, <1>13, <1>17, <2>1
  <2>2. h # n
    <3>1. CASE b \in TriggersOf(H)
      <4>1. h \in DOMAIN H /\ b \in H[h].triggers
        BY <1>6, <1>17, <3>1, FirstOne
      <4> QED
        BY <1>7, <1>8, <1>17, <4>1
    <3>2. CASE b \notin TriggersOf(H)
      <4>1. h = Nothing
        BY <1>6, <1>17, <3>2, FirstOne
      <4> QED
        BY <4>1, EditorConstants DEF MacroSlots
    <3> QED
      BY <3>1, <3>2
  <2>3. CASE h # Nothing /\ h \in DOMAIN d
    <3>1. h \in DOMAIN f /\ b \in f[h].triggers
      BY <1>5, <1>10, <1>17, <2>2, <2>3
    <3>2. h <= h
      <4>1. h \in Nat
        BY <1>2, <2>3, DraftIs DEF MacroSlots
      <4> QED
        BY <4>1
    <3>3. StartedBy(new, b) = h
      BY <1>5, <1>11, <2>1, <3>1, <3>2, FirstWith
    <3>4. Current(new, b) = MacroOutput(h) /\ HeldCurrent(sl, b) = MacroOutput(h)
      BY <1>1, <1>17, <2>3, <3>3 DEF Current, HeldCurrent
    <3> QED
      BY <2>3, <3>4
  <2>4. CASE h = Nothing \/ h \notin DOMAIN d
    <3>1. b \notin TriggersOf(f)
      <4>1. ~\E k \in DOMAIN f : b \in f[k].triggers
        <5>1. Nothing \notin DOMAIN d
          BY <1>2, DraftIs, EditorConstants DEF MacroSlots
        <5> QED
          BY <2>1, <2>4, <5>1
      <4> QED
        BY <4>1, StartersAre
    <3>2. StartedBy(new, b) = Nothing
      BY <1>5, <1>11, <3>1, FirstOne
    <3>3. (h = Nothing /\ sl.pad # Nothing) => Current(new, b) = HeldCurrent(sl, b)
      BY <1>1, <1>9, <1>14, <1>17, <3>2 DEF Current, HeldCurrent
    <3> QED
      BY <2>4, <3>2, <3>3
  <2> QED
    BY <2>3, <2>4
<1>18. ASSUME NEW b \in Buttons \ (own \cup taken) PROVE Current(new, b) = Current(sl, b)
  <2>1. {k \in DOMAIN f : b \in f[k].triggers} = {k \in DOMAIN d : b \in d[k].triggers}
    <3>1. ASSUME NEW k PROVE (k \in DOMAIN f /\ b \in f[k].triggers) <=> (k \in DOMAIN d /\ b \in d[k].triggers)
      <4>1. CASE k = n
        BY <1>8, <1>10, <1>18, <4>1
      <4>2. CASE k # n
        BY <1>5, <1>10, <1>18, <4>2
      <4> QED
        BY <4>1, <4>2
    <3> QED
      BY <3>1
  <2>2. FirstOf(f, b) = FirstOf(d, b)
    <3>1. PICK ns : ns = {k \in DOMAIN f : b \in f[k].triggers}
      OBVIOUS
    <3>2. ns = {k \in DOMAIN d : b \in d[k].triggers}
      BY <2>1, <3>1
    <3>3. FirstOf(f, b) = IF ns = {} THEN Nothing ELSE CHOOSE k \in ns : \A l \in ns : k <= l
      BY <3>1 DEF FirstOf
    <3>4. FirstOf(d, b) = IF ns = {} THEN Nothing ELSE CHOOSE k \in ns : \A l \in ns : k <= l
      BY <3>2 DEF FirstOf
    <3> QED
      BY <3>3, <3>4
  <2>3. StartedBy(new, b) = StartedBy(sl, b)
    BY <1>11, <1>12, <2>2
  <2> QED
    BY <1>14, <1>18, <2>3 DEF Current
<1>19. \A k \in DOMAIN d \ {n} : f[k].steps = d[k].steps
  BY <1>1, <1>2, <1>4, <1>5, RevertedMacros
<1>20. DOMAIN f \ {n} = DOMAIN d \ {n}
  BY <1>5
<1> QED
  BY <1>1, <1>4, <1>15, <1>16, <1>17, <1>18, <1>19, <1>20 DEF PutBack

LEMMA RevertPuts ==
  ASSUME EInv, Undisturbed, RevertMacro
  PROVE  \E n \in MacroSlots(model) : PutBack(slot, n, slot')
<1>1. PICK n \in MacroSlots(model) : /\ MacroUnsaved(slot, n) /\ ~RevertRefused(slot, n)
                                     /\ EditTo(Reverted(slot, n))
  BY DEF RevertMacro
<1>2. slot' = Reverted(slot, n)
  BY <1>1 DEF EditTo, Shows
<1>3. Neat(slot, pending) /\ slot.draft # Nothing
  BY <1>1 DEF EInv, Clean, MacroUnsaved
<1>4. StartsOnce(slot.draft, Shown(slot).map)
  BY <1>3 DEF Neat
<1>5. \A k, l \in DOMAIN slot.draft : \A b : b \in slot.draft[k].triggers /\ b \in slot.draft[l].triggers => k = l
  BY <1>4, OnceIs
<1>6. PutBack(slot, n, slot')
  <2>1. PICK sl, new : sl = slot /\ new = slot'
    OBVIOUS
  <2> QED
    BY <1>1, <1>2, <1>5, <2>1, Known, RevertIs
<1> QED
  BY <1>6

\* Revert does what macro_revert.rs says of it in every state that edits, imports and reads lead
\* to while no other program writes: no button is lost between the macro that is put back, the
\* others and the button map.
THEOREM RevertPutsBackHolds == EditorSpec => RevertPutsBack
<1>1. EInv /\ [EditorNext]_<<vars, evars>> =>
        [(Undisturbed /\ RevertMacro) => \E n \in MacroSlots(model) : PutBack(slot, n, slot')]_<<vars, evars>>
  BY RevertPuts
<1> QED
  BY <1>1, EditorKeepsInvariant, PTL DEF EditorSpec, RevertPutsBack
===============================================================================
