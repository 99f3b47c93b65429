--------------------------- MODULE SettingsProofs ---------------------------
(***************************************************************************)
(* The properties of Settings, for every description, slot, file and       *)
(* number: what a write sends reads back as it was asked and leaves the    *)
(* rest as it was, the GUI makes nothing that cannot be written, no write  *)
(* makes flags clash, and an import lists what it loses.                   *)
(*                                                                         *)
(* The first part is about the codecs, for any description D that matches  *)
(* its codec; Inv, the invariant the rest stands on, says that the slot    *)
(* and the profiles have their shape and what an import was made of.       *)
(***************************************************************************)
EXTENDS Settings, SequenceTheorems, TLAPS

-------------------------------------------------------------------------------
(***************************************************************************)
(* The tables of the Pro 3: no two outputs of a mode are written by the    *)
(* same code, and the code of an output stands for it on every button.     *)
(***************************************************************************)
Modes == {"xinput", "switch", "dinput"}

IsList(s, n) == s = [i \in 1..n |-> s[i]]

\* Under a name of its own, so that a list is joined where it is expanded only.
Joined(s, t) == s \o t

LEMMA ConcatIs ==
  ASSUME NEW m \in Nat, NEW n \in Nat, NEW s, IsList(s, m), NEW t, IsList(t, n)
  PROVE  /\ DOMAIN Joined(s, t) = 1..(m + n)
         /\ \A i \in 1..m : Joined(s, t)[i] = s[i]
         /\ \A i \in 1..n : Joined(s, t)[m + i] = t[i]
<1> DEFINE S == {s[i] : i \in 1..m} \cup {t[i] : i \in 1..n}
<1>1. s \in [1..m -> S]
  BY DEF IsList
<1>0. t \in [1..n -> S]
  BY DEF IsList
<1> HIDE DEF S
<1>2. s \in Seq(S) /\ t \in Seq(S) /\ Len(s) = m /\ Len(t) = n
  BY <1>0, <1>1
<1>3. PICK c : c = s \o t
  OBVIOUS
<1>8. Joined(s, t) = c
  BY <1>3, Zenon DEF Joined
<1>4. /\ c \in Seq(S) /\ Len(c) = m + n
      /\ \A i \in 1..(m + n) : c[i] = IF i <= m THEN s[i] ELSE t[i - m]
  BY <1>2, <1>3, ConcatProperties
<1>5. DOMAIN c = 1..(m + n)
  BY <1>4
<1>6. \A i \in 1..m : c[i] = s[i]
  BY <1>4
<1>7. \A i \in 1..n : c[m + i] = t[i]
  BY <1>4
<1> QED
  BY <1>5, <1>6, <1>7, <1>8, Zenon

Only(M) == IF M = "xinput" THEN 0 ELSE IF M = "switch" THEN 1 ELSE 4
OnlyName(M, i) == IF M = "switch" THEN "screenshot" ELSE <<"rp output", "lp output", "l4 output", "r4 output">>[i]
OnlyCode(M, i) == IF M = "switch" THEN Screenshot ELSE XInputCodes[18 + i]
CodeAt(M, i) == IF M # "xinput" /\ i <= 4 THEN SwitchFaces[i] ELSE XInputCodes[i]

\* The outputs of a mode that are no source.
LEMMA TargetOnlyIs ==
  ASSUME NEW M \in Modes
  PROVE  TargetOnly(M) = [i \in 1..Only(M) |-> [name |-> OnlyName(M, i), code |-> OnlyCode(M, i), variant |-> Null]]
<1>1. CASE M = "xinput"
  BY <1>1 DEF TargetOnly, Only
<1>2. CASE M = "switch"
  BY <1>2 DEF TargetOnly, Only, OnlyName, OnlyCode
<1>3. CASE M = "dinput"
  <2>1. TargetOnly(M) = [i \in 1 .. 4 |->
            [name    |-> <<"rp output", "lp output", "l4 output", "r4 output">>[i],
             code    |-> XInputCodes[18 + i], variant |-> Null]]
    BY <1>3 DEF TargetOnly
  <2> QED
    BY <1>3, <2>1, Zenon DEF Only, OnlyName, OnlyCode
<1> QED
  BY <1>1, <1>2, <1>3 DEF Modes

\* The entries of a mode: those of its sources, then the others.
LEMMA EntriesAre ==
  ASSUME NEW M \in Modes
  PROVE  /\ DOMAIN Entries[M] = 1..(22 + Only(M))
         /\ \A i \in 1..22 :
              Entries[M][i] = [name |-> Sources[i], code |-> CodeAt(M, i), variant |-> Variant(M, i)]
         /\ \A i \in 1..Only(M) :
              Entries[M][22 + i] = [name |-> OnlyName(M, i), code |-> OnlyCode(M, i), variant |-> Null]
<1>1. Entries[M] = Table(M)
  BY DEF Entries, Modes
<1> DEFINE s == [i \in 1..22 |-> [name |-> Sources[i], code |-> CodeAt(M, i), variant |-> Variant(M, i)]]
           t == [i \in 1..Only(M) |-> [name |-> OnlyName(M, i), code |-> OnlyCode(M, i), variant |-> Null]]
<1>2. Table(M) = Joined(s, t)
  BY TargetOnlyIs, Zenon DEF Table, CodeAt, Joined
<1>3. Only(M) \in Nat
  BY DEF Only
<1>4. IsList(s, 22) /\ IsList(t, Only(M))
  BY DEF IsList
<1>5. /\ \A i \in 1..22 : s[i] = [name |-> Sources[i], code |-> CodeAt(M, i), variant |-> Variant(M, i)]
      /\ \A i \in 1..Only(M) : t[i] = [name |-> OnlyName(M, i), code |-> OnlyCode(M, i), variant |-> Null]
  OBVIOUS
<1> HIDE DEF s, t
<1>6. PICK n \in Nat : n = Only(M)
  BY <1>3
<1>7. /\ DOMAIN Joined(s, t) = 1..(22 + n)
      /\ \A i \in 1..22 : Joined(s, t)[i] = s[i]
      /\ \A i \in 1..n : Joined(s, t)[22 + i] = t[i]
  <2>1. PICK k \in Nat : k = 22
    OBVIOUS
  <2>2. /\ DOMAIN Joined(s, t) = 1..(k + n)
        /\ \A i \in 1..k : Joined(s, t)[i] = s[i]
        /\ \A i \in 1..n : Joined(s, t)[k + i] = t[i]
    <3>1. IsList(s, k) /\ IsList(t, n)
      BY <1>4, <1>6, <2>1
    <3> HIDE DEF IsList
    <3> QED
      BY <3>1, ConcatIs
  <2> QED
    BY <2>1, <2>2
<1> QED
  BY <1>1, <1>2, <1>5, <1>6, <1>7

\* The names without a space (SMT takes no other).
Unspaced == {"l1", "r1", "l2", "r2", "l3", "r3", "select/back", "start/menu", "turbo", "home/guide",
             "rp", "lp", "l4", "r4"}

LEMMA SourcesDiffer ==
  ASSUME NEW i \in 1..22, NEW j \in 1..22, Sources[i] = Sources[j]
  PROVE  i = j
<1>1. PICK rf, bf, tf, lf, du, dd, dl, dr :
        /\ rf = "right face" /\ bf = "bottom face" /\ tf = "top face" /\ lf = "left face"
        /\ du = "d-pad up" /\ dd = "d-pad down" /\ dl = "d-pad left" /\ dr = "d-pad right"
  BY Zenon
<1>2. {rf, bf, tf, lf, du, dd, dl, dr} \cap Unspaced = {}
  BY <1>1, Zenon DEF Unspaced
<1>3. /\ rf # bf /\ rf # tf /\ rf # lf /\ rf # du /\ rf # dd /\ rf # dl /\ rf # dr
      /\ bf # tf /\ bf # lf /\ bf # du /\ bf # dd /\ bf # dl /\ bf # dr /\ tf # lf
      /\ tf # du /\ tf # dd /\ tf # dl /\ tf # dr /\ lf # du /\ lf # dd /\ lf # dl
      /\ lf # dr /\ du # dd /\ du # dl /\ du # dr /\ dd # dl /\ dd # dr /\ dl # dr
  BY <1>1, Zenon
<1>4. Sources = <<rf, bf, tf, lf, "l1", "r1", "l2", "r2", "l3", "r3", "select/back", "start/menu",
                  "turbo", "home/guide", du, dd, dl, dr, "rp", "lp", "l4", "r4">>
  BY <1>1, Zenon DEF Sources
<1>5. /\ rf \notin Unspaced /\ bf \notin Unspaced /\ tf \notin Unspaced /\ lf \notin Unspaced
      /\ du \notin Unspaced /\ dd \notin Unspaced /\ dl \notin Unspaced /\ dr \notin Unspaced
  BY <1>2, Zenon
<1> QED
  BY <1>3, <1>4, <1>5, SMTT(100) DEF Unspaced

LEMMA PaddlesAre ==
  ASSUME NEW i \in 1..22
  PROVE  /\ Sources[i] \in Paddles <=> i \in 19..22
         /\ Sources[i] = "home/guide" <=> i = 14
         /\ Sources[i] = "turbo" <=> i = 13
<1>1. /\ Sources[19] = "rp" /\ Sources[20] = "lp" /\ Sources[21] = "l4" /\ Sources[22] = "r4"
      /\ Sources[14] = "home/guide" /\ Sources[13] = "turbo"
  BY DEF Sources
<1>2. \A x \in Paddles : x = Sources[19] \/ x = Sources[20] \/ x = Sources[21] \/ x = Sources[22]
  BY <1>1 DEF Paddles
<1>3. Sources[19] \in Paddles /\ Sources[20] \in Paddles /\ Sources[21] \in Paddles /\ Sources[22] \in Paddles
  BY <1>1 DEF Paddles
<1>4. Sources[i] \in Paddles <=> i \in 19..22
  BY <1>2, <1>3, SourcesDiffer
<1>5. Sources[i] = Sources[14] <=> i = 14
  BY SourcesDiffer
<1>6. Sources[i] = Sources[13] <=> i = 13
  BY SourcesDiffer
<1> QED
  BY <1>1, <1>4, <1>5, <1>6

\* What the other outputs are called.
LEMMA OnlyNamesDiffer ==
  ASSUME NEW M \in Modes, NEW i \in 1..Only(M), NEW j \in 1..Only(M), OnlyName(M, i) = OnlyName(M, j)
  PROVE  i = j
<1>1. CASE M = "dinput"
  <2>1. PICK n : n = <<"rp output", "lp output", "l4 output", "r4 output">>
    BY Zenon
  <2>2. n[1] # n[2] /\ n[1] # n[3] /\ n[1] # n[4] /\ n[2] # n[3] /\ n[2] # n[4] /\ n[3] # n[4]
    BY <2>1
  <2>3. OnlyName(M, i) = n[i] /\ OnlyName(M, j) = n[j]
    BY <1>1, <2>1, Zenon DEF OnlyName
  <2>4. i \in 1..4 /\ j \in 1..4
    BY <1>1 DEF Only
  <2>5. n[i] = n[j]
    BY <2>3
  <2>6. ASSUME NEW f, NEW a \in 1..4, NEW b \in 1..4, f[a] = f[b],
               f[1] # f[2], f[1] # f[3], f[1] # f[4], f[2] # f[3], f[2] # f[4], f[3] # f[4]
        PROVE  a = b
    BY <2>6
  <2> QED
    BY <2>2, <2>4, <2>5, <2>6
<1>2. CASE M # "dinput"
  BY <1>2 DEF Only, Modes
<1> QED
  BY <1>1, <1>2

LEMMA OnlyNameIs ==
  ASSUME NEW M \in Modes, NEW i \in 1..Only(M)
  PROVE  OnlyName(M, i) \in {"screenshot", "rp output", "lp output", "l4 output", "r4 output"}
<1>1. CASE M = "dinput"
  <2>1. PICK n : n = <<"rp output", "lp output", "l4 output", "r4 output">>
    BY Zenon
  <2>2. i = 1 \/ i = 2 \/ i = 3 \/ i = 4
    <3>1. i \in 1..4
      BY <1>1 DEF Only
    <3> QED
      BY <3>1
  <2>3. OnlyName(M, i) = n[i]
    BY <1>1, <2>1, Zenon DEF OnlyName
  <2>4. n[1] = "rp output" /\ n[2] = "lp output" /\ n[3] = "l4 output" /\ n[4] = "r4 output"
    BY <2>1
  <2> QED
    BY <2>2, <2>3, <2>4, Zenon DEF Paddles
<1>2. CASE M # "dinput"
  <2>1. M = "switch"
    BY <1>2 DEF Only, Modes
  <2> QED
    BY <2>1, Zenon DEF OnlyName
<1> QED
  BY <1>1, <1>2

\* No source is called like one of them.
LEMMA SourceIs ==
  ASSUME NEW i \in 1..22
  PROVE  Sources[i] \notin {"screenshot", "rp output", "lp output", "l4 output", "r4 output", Disabled, Unrecognised}
<1>1. \/ i = 1 \/ i = 2 \/ i = 3 \/ i = 4 \/ i = 5 \/ i = 6 \/ i = 7 \/ i = 8 \/ i = 9 \/ i = 10 \/ i = 11
      \/ i = 12 \/ i = 13 \/ i = 14 \/ i = 15 \/ i = 16 \/ i = 17 \/ i = 18 \/ i = 19 \/ i = 20 \/ i = 21
      \/ i = 22
  OBVIOUS
<1>2. /\ Sources[1] = "right face" /\ Sources[2] = "bottom face" /\ Sources[3] = "top face"
      /\ Sources[4] = "left face" /\ Sources[5] = "l1" /\ Sources[6] = "r1" /\ Sources[7] = "l2"
      /\ Sources[8] = "r2" /\ Sources[9] = "l3" /\ Sources[10] = "r3" /\ Sources[11] = "select/back"
      /\ Sources[12] = "start/menu" /\ Sources[13] = "turbo" /\ Sources[14] = "home/guide"
      /\ Sources[15] = "d-pad up" /\ Sources[16] = "d-pad down" /\ Sources[17] = "d-pad left"
      /\ Sources[18] = "d-pad right" /\ Sources[19] = "rp" /\ Sources[20] = "lp" /\ Sources[21] = "l4"
      /\ Sources[22] = "r4"
  BY DEF Sources
<1> QED
  BY <1>1, <1>2, Zenon DEF Disabled, Unrecognised

\* What is written for the source number i, and what that is told apart from.
Written(M, i) == IF Variant(M, i) = Null THEN CodeAt(M, i) ELSE Variant(M, i)

LEMMA VariantIs ==
  ASSUME NEW M \in Modes, NEW i \in 1..22
  PROVE  Variant(M, i) = IF M = "xinput" /\ i = 1 THEN "00100000"
                         ELSE IF M = "xinput" /\ i = 2 THEN "00200000"
                         ELSE IF M = "xinput" /\ i = 4 THEN "10000000" ELSE Null
BY DEF Variant

LEMMA XInputCodesDiffer ==
  ASSUME NEW i \in 1..18, NEW j \in 1..22,
         Written("xinput", i) \in {CodeAt("xinput", j), Variant("xinput", j)}
  PROVE  i = j
<1>1. i \in 1..22 /\ "xinput" \in Modes
  BY DEF Modes
<1> QED
  BY <1>1, VariantIs, SMTT(60) DEF Written, CodeAt, XInputCodes, Null

LEMMA OtherCodesDiffer ==
  ASSUME NEW M \in {"switch", "dinput"}, NEW i \in 1..18, NEW j \in 1..22,
         Written(M, i) \in {CodeAt(M, j), Variant(M, j)}
  PROVE  i = j
<1>1. i \in 1..22 /\ M \in Modes /\ M # "xinput"
  BY DEF Modes
<1>2. Variant(M, i) = Null /\ Variant(M, j) = Null
  BY <1>1, VariantIs
<1> QED
  BY <1>1, <1>2, SMTT(60) DEF Written, CodeAt, XInputCodes, SwitchFaces, Null

LEMMA CodesDiffer ==
  ASSUME NEW M \in Modes, NEW i \in 1..18, NEW j \in 1..22, Written(M, i) \in {CodeAt(M, j), Variant(M, j)}
  PROVE  i = j
BY XInputCodesDiffer, OtherCodesDiffer DEF Modes

LEMMA NoCodeIsNull ==
  ASSUME NEW M \in Modes
  PROVE  /\ \A i \in 1..22 : CodeAt(M, i) # Null /\ Written(M, i) # Null
         /\ \A i \in 1..Only(M) : OnlyCode(M, i) # Null
<1>1. \A i \in 1..22 : CodeAt(M, i) # Null
  BY DEF CodeAt, XInputCodes, SwitchFaces, Null
<1>2. \A i \in 1..22 : Written(M, i) # Null
  BY <1>1 DEF Written
<1>3. \A i \in 1..Only(M) : OnlyCode(M, i) # Null
  BY DEF Modes, Only, OnlyCode, XInputCodes, Screenshot, Null
<1> QED
  BY <1>1, <1>2, <1>3

\* The code of another output is that of no source but a paddle.
LEMMA OnlyCodesDiffer ==
  ASSUME NEW M \in Modes, NEW i \in 1..Only(M)
  PROVE  /\ \A j \in 1..18 : OnlyCode(M, i) # CodeAt(M, j)
         /\ \A j \in 1..22 : OnlyCode(M, i) # Variant(M, j)
         /\ \A j \in 1..Only(M) : OnlyCode(M, i) = OnlyCode(M, j) => i = j
         /\ M = "switch" => \A j \in 1..22 : OnlyCode(M, i) # CodeAt(M, j)
<1>1. \A j \in 1..22 : Variant(M, j) = Null
  BY VariantIs DEF Modes, Only
<1>2. \A j \in 1..22 : OnlyCode(M, i) # Variant(M, j)
  BY <1>1, NoCodeIsNull
<1>3. CASE M = "switch"
  BY <1>2, <1>3 DEF Only, OnlyCode, CodeAt, SwitchFaces, XInputCodes, Screenshot
<1>4. CASE M = "dinput"
  <2>1. i \in 1..4 /\ \A j \in 1..Only(M) : j \in 1..4
    BY <1>4 DEF Only
  <2>2. \A j \in 1..18 : OnlyCode(M, i) # CodeAt(M, j)
    BY <1>4, <2>1, SMTT(60) DEF OnlyCode, CodeAt, SwitchFaces, XInputCodes
  <2>3. \A j \in 1..4 : OnlyCode(M, i) = OnlyCode(M, j) => i = j
    BY <1>4, <2>1 DEF OnlyCode, XInputCodes
  <2> QED
    BY <1>2, <1>4, <2>1, <2>2, <2>3
<1>5. M # "xinput"
  BY DEF Only
<1> QED
  BY <1>3, <1>4, <1>5 DEF Modes

-------------------------------------------------------------------------------
\* The entries of a mode by number.
NameAt(M, i) == IF i <= 22 THEN Sources[i] ELSE OnlyName(M, i - 22)
EntryCode(M, i) == IF i <= 22 THEN CodeAt(M, i) ELSE OnlyCode(M, i - 22)
EntryVariant(M, i) == IF i <= 22 THEN Variant(M, i) ELSE Null
Numbered(M) == 1..(22 + Only(M))
Targets(M) == Numbered(M) \ (19..22)

LEMMA OnlyIs == \A M : Only(M) \in Nat
BY DEF Only

LEMMA EntryIs ==
  ASSUME NEW M \in Modes
  PROVE  /\ DOMAIN Entries[M] = Numbered(M)
         /\ \A i \in Numbered(M) :
              /\ Entries[M][i].name = NameAt(M, i) /\ Entries[M][i].code = EntryCode(M, i)
              /\ Entries[M][i].variant = EntryVariant(M, i)
<1>1. PICK n \in Nat : n = Only(M)
  BY OnlyIs
<1>2. ASSUME NEW i \in 1..(22 + n)
      PROVE  /\ Entries[M][i].name = NameAt(M, i) /\ Entries[M][i].code = EntryCode(M, i)
             /\ Entries[M][i].variant = EntryVariant(M, i)
  <2>1. CASE i <= 22
    <3>0. i \in 1..22
      BY <2>1
    <3>1. Entries[M][i] = [name |-> Sources[i], code |-> CodeAt(M, i), variant |-> Variant(M, i)]
      BY <3>0, EntriesAre
    <3> QED
      BY <2>1, <3>1 DEF NameAt, EntryCode, EntryVariant
  <2>2. CASE ~(i <= 22)
    <3>1. PICK j \in 1..n : i = 22 + j /\ j = i - 22
      BY <2>2
    <3>2. Entries[M][22 + j] = [name |-> OnlyName(M, j), code |-> OnlyCode(M, j), variant |-> Null]
      BY <1>1, EntriesAre
    <3> QED
      BY <2>2, <3>1, <3>2 DEF NameAt, EntryCode, EntryVariant
  <2> QED
    BY <2>1, <2>2
<1> QED
  BY <1>1, <1>2, EntriesAre DEF Numbered

LEMMA NamesDiffer ==
  ASSUME NEW M \in Modes, NEW i \in Numbered(M), NEW j \in Numbered(M), NameAt(M, i) = NameAt(M, j)
  PROVE  i = j
<1>1. PICK n \in Nat : n = Only(M)
  BY OnlyIs
<1>2. i \in 1..(22 + n) /\ j \in 1..(22 + n)
  BY <1>1 DEF Numbered
<1>3. ASSUME NEW x \in 1..22, NEW y \in 1..n PROVE Sources[x] # OnlyName(M, y)
  BY <1>1, SourceIs, OnlyNameIs, Zenon
<1>4. CASE i <= 22 /\ j <= 22
  BY <1>2, <1>4, SourcesDiffer DEF NameAt
<1>5. CASE i > 22 /\ j > 22
  <2>1. i - 22 \in 1..n /\ j - 22 \in 1..n
    BY <1>2, <1>5
  <2>2. OnlyName(M, i - 22) = OnlyName(M, j - 22)
    BY <1>2, <1>5 DEF NameAt
  <2>3. i - 22 = j - 22
    BY <1>1, <2>1, <2>2, OnlyNamesDiffer
  <2> QED
    BY <1>2, <2>3
<1>6. CASE i <= 22 /\ j > 22
  BY <1>2, <1>3, <1>6 DEF NameAt
<1>7. CASE i > 22 /\ j <= 22
  BY <1>2, <1>3, <1>7 DEF NameAt
<1> QED
  BY <1>2, <1>4, <1>5, <1>6, <1>7

LEMMA PaddleIs ==
  ASSUME NEW M \in Modes, NEW i \in Numbered(M)
  PROVE  NameAt(M, i) \in Paddles <=> i \in 19..22
<1>1. CASE i <= 22
  BY <1>1, PaddlesAre DEF NameAt, Numbered
<1>2. CASE i > 22
  <2>1. i - 22 \in 1..Only(M)
    BY <1>2, OnlyIs DEF Numbered
  <2>2. NameAt(M, i) = OnlyName(M, i - 22)
    BY <1>2 DEF NameAt, Numbered
  <2>3. OnlyName(M, i - 22) \notin Paddles
    <3>1. PICK y : y = OnlyName(M, i - 22)
      OBVIOUS
    <3>2. y \in {"screenshot", "rp output", "lp output", "l4 output", "r4 output"}
      BY <2>1, <3>1, OnlyNameIs, Zenon
    <3>3. y \notin Paddles
      BY <3>2, Zenon DEF Paddles
    <3> QED
      BY <3>1, <3>3
  <2> QED
    BY <1>2, <2>2, <2>3
<1> QED
  BY <1>1, <1>2, OnlyIs DEF Numbered

\* The entry of a name.
LEMMA EntryOfIs ==
  ASSUME NEW M \in Modes, NEW i \in Numbered(M)
  PROVE  EntryOf(M, NameAt(M, i)) = Entries[M][i]
<1>1. PICK k : k = CHOOSE j \in DOMAIN Entries[M] : Entries[M][j].name = NameAt(M, i)
  OBVIOUS
<1>2. k \in Numbered(M) /\ Entries[M][k].name = NameAt(M, i)
  BY <1>1, EntryIs
<1>3. k = i
  BY <1>2, EntryIs, NamesDiffer
<1> QED
  BY <1>1, <1>3 DEF EntryOf

LEMMA CodeOfIs ==
  ASSUME NEW M \in Modes, NEW i \in Numbered(M)
  PROVE  Pro3CodeOf(M, NameAt(M, i)) = IF EntryVariant(M, i) = Null THEN EntryCode(M, i) ELSE EntryVariant(M, i)
BY EntryOfIs, EntryIs DEF Pro3CodeOf

LEMMA OnlyOutputIs ==
  ASSUME NEW M \in Modes, NEW code
  PROVE  IsOutputOnly(M, code) <=> \E i \in 1..Only(M) : OnlyCode(M, i) = code
<1>1. PICK t : t = [i \in 1..Only(M) |-> [name |-> OnlyName(M, i), code |-> OnlyCode(M, i), variant |-> Null]]
  OBVIOUS
<1>2. TargetOnly(M) = t
  BY <1>1, TargetOnlyIs
<1>3. DOMAIN t = 1..Only(M) /\ \A i \in 1..Only(M) : t[i].code = OnlyCode(M, i)
  BY <1>1
<1> QED
  BY <1>2, <1>3 DEF IsOutputOnly

\* What the code that is written for an output stands for, whatever the other entries.
LEMMA CodeIsOne ==
  ASSUME NEW M \in Modes, NEW k \in Targets(M), NEW c, c = Pro3CodeOf(M, NameAt(M, k))
  PROVE  /\ c # Null /\ c \in {EntryCode(M, k), EntryVariant(M, k)}
         /\ \A j \in Targets(M) : c \in {EntryCode(M, j), EntryVariant(M, j)} => j = k
         /\ \A j \in 19..22 : c = EntryCode(M, j) => IsOutputOnly(M, c)
<1>0. k \in Numbered(M) /\ k \in Int /\ Targets(M) \subseteq Int
  BY OnlyIs DEF Targets, Numbered
<1>1. c = IF EntryVariant(M, k) = Null THEN EntryCode(M, k) ELSE EntryVariant(M, k)
  BY <1>0, CodeOfIs
<1>2. c \in {EntryCode(M, k), EntryVariant(M, k)}
  BY <1>1
<1>3. CASE k <= 22
  <2>1. k \in 1..18
    BY <1>3, OnlyIs DEF Targets, Numbered
  <2>2. c = Written(M, k) /\ c # Null
    BY <1>1, <1>3, <2>1, NoCodeIsNull DEF Written, EntryCode, EntryVariant
  <2>3. ASSUME NEW j \in 1..22, c \in {CodeAt(M, j), Variant(M, j)} PROVE j = k
    BY <2>1, <2>2, <2>3, CodesDiffer
  <2>4. ASSUME NEW j \in Targets(M), c \in {EntryCode(M, j), EntryVariant(M, j)} PROVE j = k
    <3>1. CASE j <= 22
      <4>1. j \in 1..22 /\ c \in {CodeAt(M, j), Variant(M, j)}
        BY <2>4, <3>1, OnlyIs DEF Targets, Numbered, EntryCode, EntryVariant
      <4> QED
        BY <2>3, <4>1
    <3>2. CASE j > 22
      <4>1. j - 22 \in 1..Only(M)
        BY <3>2, OnlyIs DEF Targets, Numbered
      <4>2. c = OnlyCode(M, j - 22)
        BY <1>0, <2>2, <2>4, <3>2 DEF EntryCode, EntryVariant
      <4>3. c \in {CodeAt(M, k), Variant(M, k)}
        BY <2>2 DEF Written
      <4>4. PICK i \in 1..Only(M) : i = j - 22
        BY <4>1
      <4>5. OnlyCode(M, i) # CodeAt(M, k) /\ OnlyCode(M, i) # Variant(M, k)
        BY <2>1, OnlyCodesDiffer
      <4> QED
        BY <4>2, <4>3, <4>4, <4>5
    <3> QED
      BY <1>0, <3>1, <3>2
  <2>5. ASSUME NEW j \in 19..22, c = EntryCode(M, j) PROVE FALSE
    <3>1. j \in 1..22 /\ c \in {CodeAt(M, j), Variant(M, j)}
      BY <2>5 DEF EntryCode
    <3>2. j = k
      BY <2>3, <3>1
    <3> QED
      BY <2>1, <3>2
  <2> QED
    BY <1>2, <2>2, <2>4, <2>5
<1>4. CASE k > 22
  <2>1. PICK i \in 1..Only(M) : i = k - 22
    BY <1>4, OnlyIs DEF Targets, Numbered
  <2>2. c = OnlyCode(M, i) /\ c # Null
    BY <1>0, <1>1, <1>4, <2>1, NoCodeIsNull DEF EntryCode, EntryVariant
  <2>3. IsOutputOnly(M, c)
    BY <2>2, OnlyOutputIs
  <2>4. ASSUME NEW j \in Targets(M), c \in {EntryCode(M, j), EntryVariant(M, j)} PROVE j = k
    <3>1. CASE j <= 22
      <4>1. j \in 1..18
        BY <3>1, OnlyIs DEF Targets, Numbered
      <4>2. OnlyCode(M, i) # CodeAt(M, j) /\ OnlyCode(M, i) # Variant(M, j)
        BY <4>1, OnlyCodesDiffer
      <4> QED
        BY <2>2, <2>4, <3>1, <4>1, <4>2 DEF EntryCode, EntryVariant
    <3>2. CASE j > 22
      <4>1. PICK h \in 1..Only(M) : h = j - 22
        BY <3>2, OnlyIs DEF Targets, Numbered
      <4>2. OnlyCode(M, h) = OnlyCode(M, i)
        BY <1>0, <2>2, <2>4, <3>2, <4>1 DEF EntryCode, EntryVariant
      <4>3. h = i
        BY <4>2, OnlyCodesDiffer
      <4> QED
        BY <1>0, <2>1, <4>1, <4>3
    <3> QED
      BY <1>0, <3>1, <3>2
  <2> QED
    BY <1>2, <2>2, <2>3, <2>4
<1> QED
  BY <1>0, <1>3, <1>4

\* The only entry among one is that one.
LEMMA BestIs ==
  ASSUME NEW M \in Modes, NEW source, NEW k \in Numbered(M)
  PROVE  Best(M, source, {k}) = NameAt(M, k)
<1> DEFINE e == Entries[M]
           others == {i \in {k} : e[i].name # source}
           pool == IF others = {} THEN {k} ELSE others
<1>1. pool = {k}
  OBVIOUS
<1>2. k \in Int /\ k <= k
  BY OnlyIs DEF Numbered
<1>3. (CHOOSE i \in pool : \A j \in pool : i <= j) = k
  BY <1>1, <1>2
<1>4. Best(M, source, {k}) = e[CHOOSE i \in pool : \A j \in pool : i <= j].name
  BY DEF Best
<1> HIDE DEF pool
<1>5. Best(M, source, {k}) = e[k].name
  BY <1>3, <1>4
<1> QED
  BY <1>5, EntryIs

\* On any button but home, the code written for an output stands for that output.
LEMMA TargetOfCode ==
  ASSUME NEW M \in Modes, NEW b \in 1..22, b # 14, NEW k \in Targets(M)
  PROVE  Target(M, Sources[b], Pro3CodeOf(M, NameAt(M, k))) = NameAt(M, k)
<1> DEFINE e == Entries[M]
<1>1. PICK source, c, own : /\ source = Sources[b] /\ c = Pro3CodeOf(M, NameAt(M, k))
                            /\ own = EntryOf(M, source)
  OBVIOUS
<1>2. /\ c # Null /\ c \in {EntryCode(M, k), EntryVariant(M, k)}
      /\ \A j \in Targets(M) : c \in {EntryCode(M, j), EntryVariant(M, j)} => j = k
      /\ \A j \in 19..22 : c = EntryCode(M, j) => IsOutputOnly(M, c)
  BY <1>1, CodeIsOne
<1>3. b \in Numbered(M) /\ source = NameAt(M, b) /\ source # "home/guide"
  <2>1. b \in Numbered(M) /\ source = NameAt(M, b)
    BY <1>1, OnlyIs DEF Numbered, NameAt
  <2>2. source # "home/guide"
    BY <1>1, PaddlesAre
  <2> QED
    BY <2>1, <2>2
<1>4. own = e[b] /\ own.code = EntryCode(M, b) /\ own.variant = EntryVariant(M, b)
  BY <1>1, <1>3, EntryOfIs, EntryIs
<1>5. source \in Paddles <=> b \in 19..22
  BY <1>3, PaddleIs
<1>6. ~(source \in Paddles /\ c = own.code /\ ~IsOutputOnly(M, c))
  BY <1>2, <1>4, <1>5
<1>7. ASSUME source \notin Paddles, c \in {own.code, own.variant} PROVE source = NameAt(M, k)
  <2>1. b \in Targets(M)
    BY <1>3, <1>5, <1>7 DEF Targets
  <2>2. b = k
    BY <1>2, <1>4, <1>7, <2>1
  <2> QED
    BY <1>3, <2>2
<1>8. PICK primary, variant :
        /\ primary = {i \in DOMAIN e : e[i].code = c /\ e[i].name \notin Paddles}
        /\ variant = {i \in DOMAIN e : e[i].variant = c /\ e[i].name \notin Paddles}
  OBVIOUS
<1>9. \A i \in Numbered(M) : e[i].name \notin Paddles <=> i \in Targets(M)
  BY EntryIs, PaddleIs DEF Targets
<1>10. primary \subseteq {k} /\ variant \subseteq {k} /\ (primary = {k} \/ variant = {k})
  <2>1. \A i \in Numbered(M) : e[i].code = EntryCode(M, i) /\ e[i].variant = EntryVariant(M, i)
    BY EntryIs
  <2>2. \A i : i \in primary <=> i \in Targets(M) /\ EntryCode(M, i) = c
    BY <1>8, <1>9, <2>1, EntryIs DEF Targets
  <2>3. \A i : i \in variant <=> i \in Targets(M) /\ EntryVariant(M, i) = c
    BY <1>8, <1>9, <2>1, EntryIs DEF Targets
  <2> QED
    BY <1>2, <2>2, <2>3
<1>11. k \in Numbered(M)
  BY DEF Targets
<1>12. \/ primary = {} /\ variant = {k}
       \/ primary = {k}
  BY <1>10
<1>13. Target(M, source, c) =
         IF source \notin Paddles /\ c \in {own.code, own.variant} THEN source
         ELSE IF primary # {} THEN Best(M, source, primary)
         ELSE IF variant # {} THEN Best(M, source, variant)
         ELSE Unrecognised
  BY <1>1, <1>2, <1>3, <1>6, <1>8, Zenon DEF Target
<1>14. Target(M, source, c) = NameAt(M, k)
  <2>1. CASE source \notin Paddles /\ c \in {own.code, own.variant}
    BY <1>7, <1>13, <2>1
  <2>2. CASE ~(source \notin Paddles /\ c \in {own.code, own.variant})
    <3>1. Best(M, source, {k}) = NameAt(M, k)
      BY <1>11, BestIs
    <3> QED
      BY <1>12, <1>13, <2>2, <3>1
  <2> QED
    BY <2>1, <2>2
<1> QED
  BY <1>1, <1>14

-------------------------------------------------------------------------------
\* The codec of a description, for any mode, slot and profile.
Read(D, M, s) == IF D.codec = "pro3" THEN Pro3Decode(M, s) ELSE UltimateDecode(D, M, s)
Put(D, p, s) == IF D.codec = "pro3" THEN Pro3Compile(p, s) ELSE UltimateCompile(D, p, s)
Takes(D, p, s) == IF D.codec = "pro3" THEN Pro3Compiles(p, s) ELSE UltimateCompiles(D, p)
New(D, m) == IF D.codec = "pro3" THEN Pro3Default(D, m) ELSE UltimateDefault(D, m)

LEMMA OfCodec ==
  /\ \A s : Decode(s) = Read(d, mode, s)
  /\ \A p, s : Compile(p, s) = Put(d, p, s)
  /\ \A p, s : Compiles(p, s) = Takes(d, p, s)
  /\ \A m : DefaultOf(m) = New(d, m)
BY DEF Decode, Compile, Compiles, DefaultOf, Read, Put, Takes, New, IsPro3

LEMMA Described ==
  ASSUME NEW m \in DOMAIN Descriptions
  PROVE  Matches(Descriptions[m]) /\ IsDescription(Descriptions[m])
BY StartsAssumption, SettingsAssumption

LEMMA RawMaxIs == \A g : RawMax(g) \in {128, 255}
BY DEF RawMax

LEMMA PercentIsInt ==
  ASSUME NEW raw \in Int, NEW max \in {128, 255}
  PROVE  Pro3Percent(raw, max) \in Int /\ UltimatePercent(raw, max) \in Int
BY DEF Pro3Percent, UltimatePercent

LEMMA LevelIsInt ==
  ASSUME NEW raw \in Int
  PROVE  Level(raw) \in 0..5
BY DEF Level, Clamped

LEMMA ClampedIs ==
  ASSUME NEW lo \in Int, NEW hi \in Int, lo <= hi, NEW v \in Int
  PROVE  Clamped(<<lo, hi>>, v) \in lo..hi /\ (v \in lo..hi => Clamped(<<lo, hi>>, v) = v)
BY DEF Clamped

\* What a read clamps to is a range.
LEMMA ReadRangeIs ==
  ASSUME NEW f
  PROVE  ReadRange(f) \in {<<0, 90>>, <<10, 100>>, <<0, 100>>}
BY DEF ReadRange

LEMMA ShownIsInt ==
  ASSUME NEW s, NEW f, s.raw[PlaceOf(f)] \in Int
  PROVE  ShownPercent(s, f) \in 0..100
<1>1. PICK pct \in Int : pct = Pro3Percent(s.raw[PlaceOf(f)], RawMax(GroupOf(f)))
  BY RawMaxIs, PercentIsInt
<1>2. ASSUME NEW lo \in 0..10, NEW hi \in 90..100, ReadRange(f) = <<lo, hi>>
      PROVE  Clamped(ReadRange(f), pct) \in 0..100
  <2>1. Clamped(<<lo, hi>>, pct) \in lo..hi
    BY <1>1, ClampedIs
  <2> QED
    BY <1>2, <2>1
<1>3. Clamped(ReadRange(f), pct) \in 0..100
  BY <1>2, ReadRangeIs
<1> QED
  BY <1>1, <1>3 DEF ShownPercent

\* The fields of the codecs, and where they are.
LEMMA Pro3FieldIs ==
  ASSUME NEW M, NEW f \in Pro3Fields(M)
  PROVE  /\ f = <<f[1], f[2]>> /\ GroupOf(f) = f[1] /\ f[1] \in {"sticks", "triggers", "vibration"}
         /\ GroupOf(f) = "vibration" <=> f[2] \in Levels
         /\ GroupOf(f) = "sticks" => f[2] \in Ends
         /\ GroupOf(f) = "triggers" =>
              IF M = "switch" THEN f[2] \in Thresholds ELSE f[2] \in Ends
         /\ f[2] \in Ends => Other[f[2]] \in Ends /\ <<f[1], Other[f[2]]>> \in Pro3Fields(M)
BY DEF Pro3Fields, GroupOf, Ends, Levels, Thresholds, Other

LEMMA UltimateFieldIs ==
  ASSUME NEW f \in UltimateFields
  PROVE  /\ f = <<f[1], f[2]>> /\ GroupOf(f) = f[1] /\ f[1] \in {"sticks", "triggers", "vibration"}
         /\ GroupOf(f) = "vibration" => f[2] \in Levels
         /\ GroupOf(f) # "vibration" => f[2] \in Ends
BY DEF UltimateFields, GroupOf, Ends, Levels

LEMMA PlacesAre ==
  ASSUME NEW M, NEW f \in Pro3Fields(M) \cup UltimateFields
  PROVE  PlaceOf(f) \in {PlaceOf(g) : g \in UltimateFields}
<1>1. CASE f \in UltimateFields
  BY <1>1
<1>2. CASE f \in Pro3Fields(M) /\ f[2] \notin Thresholds
  BY <1>2 DEF Pro3Fields, UltimateFields, Thresholds
<1>3. CASE f \in Pro3Fields(M) /\ f[2] \in Thresholds
  <2>1. f[1] = "triggers"
    BY <1>3 DEF Pro3Fields, Thresholds, Ends, Levels
  <2>2. PICK g : g = <<"triggers", IF f[2] = "left_threshold_pct" THEN "left_min_pct" ELSE "right_min_pct">>
    OBVIOUS
  <2>3. g \in UltimateFields
    BY <2>2 DEF UltimateFields, Ends
  <2>4. PlaceOf(g) = PlaceOf(f)
    BY <1>3, <2>1, <2>2 DEF PlaceOf, Index, Thresholds
  <2> QED
    BY <2>3, <2>4
<1> QED
  BY <1>1, <1>2, <1>3

LEMMA Pro3NumberIsInt ==
  ASSUME NEW M, NEW s, NEW f \in Pro3Fields(M),
         \A g \in Pro3Fields(M) : s.raw[PlaceOf(g)] \in Int
  PROVE  Pro3Number(s, f) \in 0..100
<1>1. CASE GroupOf(f) = "vibration"
  <2>1. Level(s.raw[PlaceOf(f)]) \in 0..5
    BY LevelIsInt
  <2> QED
    BY <1>1, <2>1 DEF Pro3Number
<1>2. CASE GroupOf(f) = "triggers" /\ f[2] \in Ends
  <2>1. <<f[1], Other[f[2]]>> \in Pro3Fields(M)
    BY <1>2, Pro3FieldIs
  <2>2. PICK a \in 0..100 : a = ShownPercent(s, f)
    BY ShownIsInt
  <2>3. PICK b \in 0..100 : b = ShownPercent(s, <<f[1], Other[f[2]]>>)
    BY <2>1, ShownIsInt
  <2>4. Turned(f, a, b) \in 0..100
    BY DEF Turned
  <2> QED
    BY <1>2, <2>2, <2>3, <2>4 DEF Pro3Number
<1>3. CASE GroupOf(f) # "vibration" /\ ~(GroupOf(f) = "triggers" /\ f[2] \in Ends)
  BY <1>3, ShownIsInt DEF Pro3Number
<1> QED
  BY <1>1, <1>2, <1>3

\* What a new profile holds.
LEMMA NewIs ==
  ASSUME NEW D, Matches(D), IsDescription(D), NEW M \in DOMAIN D.modes
  PROVE  /\ IsProfile(D, New(D, M)) /\ New(D, M).mode = M /\ New(D, M).on = {}
         /\ DOMAIN New(D, M).numbers = Fields(D, M) /\ DOMAIN New(D, M).map = D.buttons
<1>1. CASE D.codec = "pro3"
  <2>1. New(D, M) = Pro3Default(D, M) /\ Fields(D, M) = Pro3Fields(M)
    BY <1>1 DEF New, Fields
  <2> QED
    BY <2>1 DEF Pro3Default, IsProfile
<1>2. CASE D.codec = "ultimate"
  <2>1. New(D, M) = UltimateDefault(D, M) /\ Fields(D, M) = UltimateFields
    BY <1>2 DEF New, Fields
  <2>2. D.modes[M].start \in 0..100
    BY DEF IsDescription, DefaultsFit
  <2> QED
    BY <2>1, <2>2 DEF UltimateDefault, IsProfile
<1> QED
  BY <1>1, <1>2 DEF Matches

LEMMA ReadIs ==
  ASSUME NEW D, Matches(D), IsDescription(D), NEW M \in DOMAIN D.modes, NEW s, IsSlot(D, s)
  PROVE  /\ IsProfile(D, Read(D, M, s)) /\ Read(D, M, s).mode = M
         /\ DOMAIN Read(D, M, s).numbers = Fields(D, M) /\ DOMAIN Read(D, M, s).map = D.buttons
         /\ Read(D, M, s).on \subseteq CodecFlags(D)
<1>0. /\ DOMAIN s.map = D.buttons
      /\ \A f \in Fields(D, M) : PlaceOf(f) \in DOMAIN s.raw /\ s.raw[PlaceOf(f)] \in Int
  BY PlacesAre DEF IsSlot, Fields
<1>1. CASE D.codec = "pro3"
  <2>1. Read(D, M, s) = Pro3Decode(M, s) /\ Fields(D, M) = Pro3Fields(M) /\ CodecFlags(D) = Pro3Flags
    BY <1>1 DEF Read, Fields, CodecFlags
  <2>2. \A f \in Pro3Fields(M) : Pro3Number(s, f) \in Int
    BY <1>0, <2>1, Pro3NumberIsInt
  <2> QED
    BY <1>0, <2>1, <2>2 DEF Pro3Decode, IsProfile
<1>2. CASE D.codec = "ultimate"
  <2>1. /\ Read(D, M, s) = UltimateDecode(D, M, s) /\ Fields(D, M) = UltimateFields
        /\ CodecFlags(D) = UltimateFlags /\ New(D, M) = UltimateDefault(D, M)
    BY <1>2 DEF Read, Fields, CodecFlags, New
  <2>2. ASSUME NEW f \in UltimateFields PROVE UltimateNumber(D, M, s, f) \in Int
    <3>1. s.raw[PlaceOf(f)] \in Int
      BY <1>0, <2>1
    <3>2. UltimateDefault(D, M).numbers[f] \in Int
      <4>1. IsProfile(D, New(D, M)) /\ DOMAIN New(D, M).numbers = UltimateFields
        BY <2>1, NewIs
      <4> QED
        BY <2>1, <4>1 DEF IsProfile
    <3>3. Level(s.raw[PlaceOf(f)]) \in Int
      BY <3>1, LevelIsInt
    <3>4. UltimatePercent(s.raw[PlaceOf(f)], RawMax(GroupOf(f))) \in Int
      BY <3>1, RawMaxIs, PercentIsInt
    <3> QED
      BY <3>2, <3>3, <3>4 DEF UltimateNumber
  <2> QED
    BY <1>0, <2>1, <2>2 DEF UltimateDecode, IsProfile
<1> QED
  BY <1>1, <1>2 DEF Matches

LEMMA WrittenIsInt ==
  ASSUME NEW pct \in Int, NEW max \in Int, max \in {128, 255}, NEW base \in Int
  PROVE  Pro3KeepOrEncode(base, pct, max) \in Int /\ UltimateKeepOrEncode(base, pct, max) \in Int
BY DEF Pro3KeepOrEncode, Pro3Raw, UltimateKeepOrEncode, UltimateRaw

LEMMA StrengthIsInt ==
  ASSUME NEW level \in Int
  PROVE  /\ Strength(level) \in Int /\ Strength(Clamped(<<0, 5>>, level)) \in Int
         /\ \A base \in Int : KeepOrStrengthen(base, level) \in Int
BY DEF Strength, Clamped, KeepOrStrengthen

LEMMA PutIsSlot ==
  ASSUME NEW D, Matches(D), NEW s, IsSlot(D, s), NEW p, IsProfile(D, p), Takes(D, p, s)
  PROVE  IsSlot(D, Put(D, p, s)) /\ Put(D, p, s).active
<1> DEFINE Spots == {PlaceOf(f) : f \in UltimateFields}
<1>0. /\ DOMAIN s.map = D.buttons /\ DOMAIN s.raw = Spots
      /\ \A place \in Spots : s.raw[place] \in Int
  BY DEF IsSlot
<1>1. CASE D.codec = "pro3"
  <2>1. Put(D, p, s) = Pro3Compile(p, s) /\ Pro3Fields(p.mode) \subseteq DOMAIN p.numbers
    BY <1>1 DEF Put, Takes, Pro3Compiles
  <2>2. \A f \in Pro3Fields(p.mode) : p.numbers[f] \in Int
    BY <2>1 DEF IsProfile
  <2>3. ASSUME NEW place \in Spots PROVE Pro3CompiledRaw(p.mode, p, s, place) \in Int
    <3>1. PICK here : here = {f \in Pro3Fields(p.mode) : PlaceOf(f) = place}
      OBVIOUS
    <3>2. CASE here = {}
      BY <3>1, <3>2 DEF Pro3CompiledRaw
    <3>3. CASE here # {}
      <4>1. PICK f : f = CHOOSE g \in here : TRUE
        OBVIOUS
      <4>2. f \in Pro3Fields(p.mode)
        BY <3>1, <3>3, <4>1
      <4>3. PICK pct \in Int : pct = p.numbers[f]
        BY <2>2, <4>2
      <4>4. PICK max \in Int : max \in {128, 255} /\ max = RawMax(GroupOf(f))
        BY RawMaxIs
      <4>5. PICK base \in Int : base = s.raw[place]
        BY <1>0
      <4>6. Strength(Clamped(<<0, 5>>, pct)) \in Int /\ Pro3KeepOrEncode(base, pct, max) \in Int
        <5>1. Strength(Clamped(<<0, 5>>, pct)) \in Int
          BY StrengthIsInt
        <5>2. Pro3KeepOrEncode(base, pct, max) \in Int
          BY <4>4, WrittenIsInt
        <5> QED
          BY <5>1, <5>2
      <4>7. Pro3CompiledRaw(p.mode, p, s, place) =
              IF GroupOf(f) = "vibration" THEN Strength(Clamped(<<0, 5>>, pct))
              ELSE Pro3KeepOrEncode(base, pct, max)
        BY <3>1, <3>3, <4>1, <4>3, <4>4, <4>5 DEF Pro3CompiledRaw
      <4> QED
        BY <4>6, <4>7
    <3> QED
      BY <3>2, <3>3
  <2> HIDE DEF Spots
  <2> QED
    BY <1>0, <1>1, <2>1, <2>3 DEF Pro3Compile, IsSlot, Spots
<1>2. CASE D.codec = "ultimate"
  <2>1. Put(D, p, s) = UltimateCompile(D, p, s) /\ UltimateFields \subseteq DOMAIN p.numbers
    BY <1>2 DEF Put, Takes, UltimateCompiles
  <2>2. \A f \in UltimateFields : p.numbers[f] \in Int
    BY <2>1 DEF IsProfile
  <2>3. DOMAIN Started(s).raw = Spots /\ \A place \in Spots : Started(s).raw[place] \in Int
    BY <1>0, <1>2 DEF Started, IsSlot
  <2>4. ASSUME NEW place \in Spots PROVE UltimateCompiledRaw(p, Started(s).raw[place], place) \in Int
    <3>1. PICK f : f = CHOOSE g \in UltimateFields : PlaceOf(g) = place
      OBVIOUS
    <3>2. f \in UltimateFields
      BY <3>1
    <3>3. PICK pct \in Int : pct = p.numbers[f]
      BY <2>2, <3>2
    <3>4. PICK max \in Int : max \in {128, 255} /\ max = RawMax(GroupOf(f))
      BY RawMaxIs
    <3>5. PICK base \in Int : base = Started(s).raw[place]
      BY <2>3
    <3>6. KeepOrStrengthen(base, pct) \in Int /\ UltimateKeepOrEncode(base, pct, max) \in Int
      <4>1. KeepOrStrengthen(base, pct) \in Int
        BY StrengthIsInt
      <4>2. UltimateKeepOrEncode(base, pct, max) \in Int
        BY <3>4, WrittenIsInt
      <4> QED
        BY <4>1, <4>2
    <3> QED
      BY <3>1, <3>3, <3>4, <3>5, <3>6 DEF UltimateCompiledRaw
  <2> HIDE DEF Spots
  <2> QED
    BY <1>0, <1>2, <2>1, <2>4 DEF UltimateCompile, IsSlot, Spots
<1> QED
  BY <1>1, <1>2 DEF Matches

-------------------------------------------------------------------------------
(***************************************************************************)
(* Conversion.                                                             *)
(***************************************************************************)
\* A group of the same shape in two modes has the same numbers, ranges and flags.
LEMMA SameShape ==
  ASSUME NEW D, NEW m, NEW n, NEW f, Shape(D, m, GroupOf(f)) = Shape(D, n, GroupOf(f))
  PROVE  /\ f \in Numbers(D, m) <=> f \in Numbers(D, n)
         /\ f \in Numbers(D, m) => D.modes[m].numbers[f] = D.modes[n].numbers[f]
         /\ f \in Flags(D, m) <=> f \in Flags(D, n)
<1> DEFINE Ranges(a) == {<<x, D.modes[a].numbers[x]>> : x \in {y \in Numbers(D, a) : GroupOf(y) = GroupOf(f)}}
           Marks(a) == {x \in Flags(D, a) : GroupOf(x) = GroupOf(f)}
<1>1. Ranges(m) = Ranges(n) /\ Marks(m) = Marks(n)
  BY DEF Shape
<1>2. ASSUME NEW a, NEW b, Ranges(a) = Ranges(b), f \in Numbers(D, a)
      PROVE  f \in Numbers(D, b) /\ D.modes[a].numbers[f] = D.modes[b].numbers[f]
  <2>1. <<f, D.modes[a].numbers[f]>> \in Ranges(b)
    BY <1>2
  <2>2. PICK x \in Numbers(D, b) : <<f, D.modes[a].numbers[f]>> = <<x, D.modes[b].numbers[x]>>
    BY <2>1
  <2> QED
    BY <2>2
<1>3. f \in Flags(D, m) <=> f \in Flags(D, n)
  BY <1>1
<1> HIDE DEF Ranges
<1> QED
  BY <1>1, <1>2, <1>3

\* What stays of a profile's settings, and what starts from the default.
LEMMA StaysOrStarts ==
  ASSUME NEW D, Matches(D), NEW m \in DOMAIN D.modes, NEW n \in DOMAIN D.modes, NEW f,
         GroupOf(f) \in Groups(D, n), GroupOf(f) \notin ResetGroups(D, m, n)
  PROVE  /\ f \in Fields(D, m) <=> f \in Fields(D, n)
         /\ f \in Numbers(D, m) <=> f \in Numbers(D, n)
         /\ f \in Numbers(D, m) => D.modes[m].numbers[f] = D.modes[n].numbers[f]
         /\ f \in Flags(D, m) <=> f \in Flags(D, n)
         /\ GroupOf(f) \in Groups(D, m)
<1>1. Shape(D, m, GroupOf(f)) = Shape(D, n, GroupOf(f))
  BY DEF ResetGroups
<1>2. /\ f \in Numbers(D, m) <=> f \in Numbers(D, n)
      /\ f \in Numbers(D, m) => D.modes[m].numbers[f] = D.modes[n].numbers[f]
      /\ f \in Flags(D, m) <=> f \in Flags(D, n)
  BY <1>1, SameShape
<1>3. f \in Fields(D, m) <=> f \in Fields(D, n)
  BY <1>2 DEF Matches, MatchesPro3, MatchesUltimate, Fields
<1>4. GroupOf(f) \in Groups(D, m)
  <2>1. PICK g \in Declared(D, n) : GroupOf(g) = GroupOf(f)
    BY DEF Groups
  <2>2. Shape(D, m, GroupOf(g)) = Shape(D, n, GroupOf(g))
    BY <1>1, <2>1
  <2>3. g \in Declared(D, m)
    BY <2>1, <2>2, SameShape DEF Declared
  <2> QED
    BY <2>1, <2>3 DEF Groups
<1> QED
  BY <1>2, <1>3, <1>4

LEMMA ConvertIsProfile ==
  ASSUME NEW D, Matches(D), NEW p, IsProfile(D, p), NEW from,
         NEW to, IsProfile(D, to), DOMAIN to.numbers = Fields(D, to.mode)
  PROVE  IsProfile(D, Convert(D, p, from, to)) /\ Convert(D, p, from, to).mode = to.mode
<1>1. CASE p.mode = to.mode
  BY <1>1 DEF Convert
<1>2. CASE p.mode # to.mode
  <2> DEFINE reset == ResetGroups(D, p.mode, to.mode)
             stay == Groups(D, to.mode) \ reset
             kept == {f \in DOMAIN p.numbers : GroupOf(f) \in stay}
             fresh == {f \in DOMAIN to.numbers : GroupOf(f) \in reset}
             numbers == [f \in kept \cup fresh |-> IF f \in kept THEN p.numbers[f] ELSE to.numbers[f]]
  <2>1. PICK c : c = Convert(D, p, from, to)
    OBVIOUS
  <2>2. PICK on, map : /\ c = [mode |-> to.mode, numbers |-> numbers, on |-> on, map |-> map]
                       /\ map = [b \in DOMAIN p.map |-> ConvertedOutput(D, p, from, to, b)]
    BY <1>2, <2>1 DEF Convert
  <2>3. /\ p.mode \in DOMAIN D.modes /\ to.mode \in DOMAIN D.modes
        /\ DOMAIN p.numbers \subseteq Fields(D, p.mode) /\ DOMAIN p.map \subseteq D.buttons
        /\ {f \in Fields(D, p.mode) : GroupOf(f) \in Groups(D, p.mode)} \subseteq DOMAIN p.numbers
    BY DEF IsProfile
  <2>4. ASSUME NEW f \in kept PROVE f \in Fields(D, to.mode) /\ p.numbers[f] \in Int
    BY <2>3, StaysOrStarts DEF IsProfile
  <2>5. ASSUME NEW f \in fresh PROVE f \in Fields(D, to.mode) /\ to.numbers[f] \in Int
    BY DEF IsProfile
  <2>6. ASSUME NEW f \in Fields(D, to.mode), GroupOf(f) \in Groups(D, to.mode)
        PROVE  f \in kept \cup fresh
    <3>1. CASE GroupOf(f) \in reset
      BY <3>1
    <3>2. CASE GroupOf(f) \notin reset
      BY <2>3, <2>6, <3>2, StaysOrStarts
    <3> QED
      BY <3>1, <3>2
  <2> HIDE DEF kept, fresh
  <2>7. numbers \in [kept \cup fresh -> Int] /\ DOMAIN numbers = kept \cup fresh
    BY <2>4, <2>5
  <2>8. DOMAIN map = DOMAIN p.map
    BY <2>2
  <2> HIDE DEF numbers
  <2> QED
    BY <2>1, <2>2, <2>3, <2>4, <2>5, <2>6, <2>7, <2>8 DEF IsProfile
<1> QED
  BY <1>1, <1>2

-------------------------------------------------------------------------------
(***************************************************************************)
(* The inductive invariant.                                                *)
(***************************************************************************)
\* An import that was the last step shows what Convert makes of a valid file.
Imported ==
  said # Nothing /\ said.op = "import" =>
    LET from == DefaultOf(said.asked.mode)
        to   == DefaultOf(mode)
    IN  /\ IsProfile(d, said.asked) /\ IsValid(d, said.asked)
        /\ edited = Convert(d, said.asked, from, to)
        /\ said.lost = Losses(d, said.asked, from, to)

Inv ==
  /\ model \in DOMAIN Descriptions /\ mode \in DOMAIN d.modes
  /\ \A file \in tab.files : IsProfile(d, file)
  /\ IsSlot(d, stored)
  /\ edited # Nothing => IsProfile(d, edited) /\ edited.mode = mode
  /\ Imported

LEMMA RangeIs ==
  ASSUME NEW D, Matches(D), NEW m \in DOMAIN D.modes, NEW f \in Numbers(D, m)
  PROVE  /\ D.modes[m].numbers[f] \in {<<0, 5>>, <<0, 90>>, <<10, 100>>, <<0, 100>>}
         /\ D.modes[m].numbers[f] = CodecRange(D, f)
<1>1. D.modes[m].numbers[f] = CodecRange(D, f)
  BY DEF Matches, SettingsMatch
<1>2. CodecRange(D, f) \in {<<0, 5>>, <<0, 90>>, <<10, 100>>, <<0, 100>>}
  BY ReadRangeIs DEF CodecRange
<1> QED
  BY <1>1, <1>2

\* A number is clamped to its range.
LEMMA NumberIsClamped ==
  ASSUME NEW D, Matches(D), NEW m \in DOMAIN D.modes, NEW f \in Numbers(D, m), NEW v \in Int
  PROVE  /\ Clamped(D.modes[m].numbers[f], v) \in Int
         /\ InRange(D, m, f, Clamped(D.modes[m].numbers[f], v))
<1>1. D.modes[m].numbers[f] \in {<<0, 5>>, <<0, 90>>, <<10, 100>>, <<0, 100>>}
  BY RangeIs
<1>2. ASSUME NEW lo \in Int, NEW hi \in Int, lo <= hi, D.modes[m].numbers[f] = <<lo, hi>>
      PROVE  /\ Clamped(D.modes[m].numbers[f], v) \in Int
             /\ InRange(D, m, f, Clamped(D.modes[m].numbers[f], v))
  <2>1. Clamped(<<lo, hi>>, v) \in lo..hi
    BY <1>2, ClampedIs
  <2> QED
    BY <1>2, <2>1 DEF InRange
<1> QED
  BY <1>1, <1>2

LEMMA WithNumberIs ==
  ASSUME NEW D, Matches(D), NEW p, IsProfile(D, p), NEW f \in Numbers(D, p.mode),
         f \in DOMAIN p.numbers, NEW v \in Int
  PROVE  /\ IsProfile(D, WithNumber(D, p, f, v)) /\ WithNumber(D, p, f, v).mode = p.mode
         /\ WithNumber(D, p, f, v).map = p.map /\ WithNumber(D, p, f, v).on = p.on
         /\ DOMAIN WithNumber(D, p, f, v).numbers = DOMAIN p.numbers
         /\ WithNumber(D, p, f, v).numbers[f] = Clamped(D.modes[p.mode].numbers[f], v)
         /\ \A g \in DOMAIN p.numbers \ {f} : WithNumber(D, p, f, v).numbers[g] = p.numbers[g]
<1>1. PICK m \in DOMAIN D.modes : m = p.mode
  BY DEF IsProfile
<1>2. Clamped(D.modes[m].numbers[f], v) \in Int
  BY <1>1, NumberIsClamped
<1>3. PICK x \in Int : x = Clamped(D.modes[p.mode].numbers[f], v)
  BY <1>1, <1>2
<1>4. WithNumber(D, p, f, v) =
        [mode |-> p.mode, on |-> p.on, map |-> p.map, numbers |-> [p.numbers EXCEPT ![f] = x]]
  BY <1>3 DEF WithNumber, IsProfile
<1>5. IsProfile(D, WithNumber(D, p, f, v))
  BY <1>3, <1>4 DEF IsProfile
<1> QED
  BY <1>3, <1>4, <1>5

LEMMA WithFlagIs ==
  ASSUME NEW D, NEW p, IsProfile(D, p), NEW f, NEW on \in BOOLEAN
  PROVE  /\ IsProfile(D, WithFlag(D, p, f, on)) /\ WithFlag(D, p, f, on).mode = p.mode
         /\ WithFlag(D, p, f, on).numbers = p.numbers /\ WithFlag(D, p, f, on).map = p.map
         /\ on => \A g : g \in WithFlag(D, p, f, on).on <=>
                            (g \in p.on \/ g = f) /\ g \notin ExcludedBy(D, p.mode, f)
         /\ ~on => \A g : g \in WithFlag(D, p, f, on).on <=> g \in p.on /\ g # f
<1>1. WithFlag(D, p, f, on) =
        [mode |-> p.mode, numbers |-> p.numbers, map |-> p.map,
         on |-> IF on THEN (p.on \cup {f}) \ ExcludedBy(D, p.mode, f) ELSE p.on \ {f}]
  BY DEF WithFlag, IsProfile
<1>2. IsProfile(D, WithFlag(D, p, f, on))
  BY <1>1 DEF IsProfile
<1> QED
  BY <1>1, <1>2

LEMMA WithOutputIs ==
  ASSUME NEW D, NEW p, IsProfile(D, p), NEW b \in D.buttons, NEW t
  PROVE  /\ IsProfile(D, WithOutput(p, b, t)) /\ WithOutput(p, b, t).mode = p.mode
         /\ WithOutput(p, b, t).numbers = p.numbers /\ WithOutput(p, b, t).on = p.on
         /\ DOMAIN WithOutput(p, b, t).map = DOMAIN p.map \cup {b}
         /\ WithOutput(p, b, t).map[b] = t
         /\ \A c \in DOMAIN p.map \ {b} : WithOutput(p, b, t).map[c] = p.map[c]
<1>1. WithOutput(p, b, t) =
        [mode |-> p.mode, numbers |-> p.numbers, on |-> p.on,
         map |-> [c \in DOMAIN p.map \cup {b} |-> IF c = b THEN t ELSE p.map[c]]]
  BY DEF WithOutput, IsProfile
<1>2. IsProfile(D, WithOutput(p, b, t))
  BY <1>1 DEF IsProfile
<1> QED
  BY <1>1, <1>2

\* The remappable buttons are buttons.
LEMMA RemappableIs ==
  ASSUME NEW D, Matches(D)
  PROVE  D.remappable \subseteq D.buttons /\ D.named \subseteq D.buttons /\ D.outputs \subseteq D.buttons
BY DEF Matches, MatchesPro3, MatchesUltimate

-------------------------------------------------------------------------------
LEMMA DescriptionIs ==
  ASSUME Inv
  PROVE  Matches(d) /\ IsDescription(d) /\ mode \in DOMAIN d.modes
BY Described DEF Inv, d

LEMMA HeldIs ==
  ASSUME Inv, stored.active
  PROVE  /\ Held(stored) = Read(d, mode, stored)
         /\ IsProfile(d, Held(stored)) /\ Held(stored).mode = mode
         /\ DOMAIN Held(stored).numbers = Fields(d, mode) /\ DOMAIN Held(stored).map = d.buttons
         /\ Held(stored).on \subseteq CodecFlags(d)
<1>1. Held(stored) = Read(d, mode, stored)
  BY OfCodec DEF Held
<1>2. PICK D, M, s : D = d /\ M = mode /\ s = stored
  OBVIOUS
<1>3. Matches(D) /\ IsDescription(D) /\ M \in DOMAIN D.modes /\ IsSlot(D, s)
  BY <1>2, DescriptionIs DEF Inv
<1>4. /\ IsProfile(D, Read(D, M, s)) /\ Read(D, M, s).mode = M
      /\ DOMAIN Read(D, M, s).numbers = Fields(D, M) /\ DOMAIN Read(D, M, s).map = D.buttons
      /\ Read(D, M, s).on \subseteq CodecFlags(D)
  BY <1>3, ReadIs
<1> QED
  BY <1>1, <1>2, <1>4

LEMMA ShownIs ==
  ASSUME Inv, Shown # Nothing
  PROVE  /\ IsProfile(d, Shown) /\ Shown.mode = mode
         /\ edited = Nothing => stored.active /\ Shown = Held(stored)
<1>1. CASE edited # Nothing
  BY <1>1 DEF Shown, Inv
<1>2. CASE edited = Nothing
  <2>1. Shown = Held(stored) /\ stored.active
    BY <1>2 DEF Shown, Held
  <2> QED
    BY <2>1, HeldIs
<1> QED
  BY <1>1, <1>2

LEMMA DefaultIs ==
  ASSUME Inv, NEW m \in DOMAIN d.modes
  PROVE  /\ IsProfile(d, DefaultOf(m)) /\ DefaultOf(m).mode = m /\ DefaultOf(m).on = {}
         /\ DOMAIN DefaultOf(m).numbers = Fields(d, m) /\ DOMAIN DefaultOf(m).map = d.buttons
<1>1. DefaultOf(m) = New(d, m)
  BY OfCodec
<1>2. PICK D : D = d
  OBVIOUS
<1>3. Matches(D) /\ IsDescription(D) /\ m \in DOMAIN D.modes
  BY <1>2, DescriptionIs
<1>4. /\ IsProfile(D, New(D, m)) /\ New(D, m).mode = m /\ New(D, m).on = {}
      /\ DOMAIN New(D, m).numbers = Fields(D, m) /\ DOMAIN New(D, m).map = D.buttons
  BY <1>3, NewIs
<1> QED
  BY <1>1, <1>2, <1>4

\* What the three ways to edit make.
LEMMA EditKeepsInv ==
  ASSUME Inv, NEW p, IsProfile(d, p), p.mode = mode, Edit(p)
  PROVE  Inv'
BY DEF Inv, Edit, Imported, d

LEMMA SetNumberIs ==
  ASSUME Inv, SetNumber
  PROVE  \E f \in Numbers(d, mode), v \in Values :
           /\ f \in DOMAIN Shown.numbers /\ Edit(WithNumber(d, Shown, f, v)) /\ Shown # Nothing
           /\ IsProfile(d, WithNumber(d, Shown, f, v)) /\ WithNumber(d, Shown, f, v).mode = mode
<1>1. PICK f \in Numbers(d, mode), v \in Values :
        f \in DOMAIN Shown.numbers /\ Edit(WithNumber(d, Shown, f, v)) /\ Shown # Nothing
  BY DEF SetNumber
<1>2. PICK D, p : D = d /\ p = Shown
  OBVIOUS
<1>3. Matches(D) /\ IsProfile(D, p) /\ f \in Numbers(D, p.mode) /\ f \in DOMAIN p.numbers
      /\ v \in Int /\ p.mode = mode
  BY <1>1, <1>2, DescriptionIs, ShownIs, SettingsAssumption
<1>4. IsProfile(D, WithNumber(D, p, f, v)) /\ WithNumber(D, p, f, v).mode = p.mode
  BY <1>3, WithNumberIs
<1> QED
  BY <1>1, <1>2, <1>3, <1>4

LEMMA SetFlagIs ==
  ASSUME Inv, SetFlag
  PROVE  \E f \in Flags(d, mode), on \in BOOLEAN :
           /\ Edit(WithFlag(d, Shown, f, on)) /\ Shown # Nothing
           /\ IsProfile(d, WithFlag(d, Shown, f, on)) /\ WithFlag(d, Shown, f, on).mode = mode
<1>1. PICK f \in Flags(d, mode), on \in BOOLEAN : Edit(WithFlag(d, Shown, f, on)) /\ Shown # Nothing
  BY DEF SetFlag
<1>2. PICK D, p : D = d /\ p = Shown
  OBVIOUS
<1>3. IsProfile(D, p) /\ p.mode = mode
  BY <1>1, <1>2, ShownIs
<1>4. IsProfile(D, WithFlag(D, p, f, on)) /\ WithFlag(D, p, f, on).mode = p.mode
  BY <1>3, WithFlagIs
<1> QED
  BY <1>1, <1>2, <1>3, <1>4

LEMMA SetOutputIs ==
  ASSUME Inv, SetOutput
  PROVE  \E b \in d.remappable : \E t \in Choices(d, Shown, DefaultOf(mode), b) \ {OutputOf(Shown, b), Unrecognised} :
           /\ Edit(WithOutput(Shown, b, t)) /\ Shown # Nothing /\ b \in d.buttons
           /\ IsProfile(d, WithOutput(Shown, b, t)) /\ WithOutput(Shown, b, t).mode = mode
<1>0. PICK b \in d.remappable : \E t \in Choices(d, Shown, DefaultOf(mode), b) \ {OutputOf(Shown, b), Unrecognised} :
        Edit(WithOutput(Shown, b, t)) /\ Shown # Nothing
  BY DEF SetOutput
<1>1. PICK t \in Choices(d, Shown, DefaultOf(mode), b) \ {OutputOf(Shown, b), Unrecognised} :
        Edit(WithOutput(Shown, b, t)) /\ Shown # Nothing
  BY <1>0
<1>2. PICK D, p : D = d /\ p = Shown
  OBVIOUS
<1>3. IsProfile(D, p) /\ p.mode = mode /\ b \in D.buttons
  BY <1>1, <1>2, ShownIs, DescriptionIs, RemappableIs
<1>4. IsProfile(D, WithOutput(p, b, t)) /\ WithOutput(p, b, t).mode = p.mode
  BY <1>3, WithOutputIs
<1> QED
  BY <1>1, <1>2, <1>3, <1>4

LEMMA ImportIs ==
  ASSUME Inv, NEW file \in tab.files
  PROVE  LET c == Convert(d, file, DefaultOf(file.mode), DefaultOf(mode))
         IN  IsProfile(d, c) /\ c.mode = mode
<1>1. PICK D, from, to : D = d /\ from = DefaultOf(file.mode) /\ to = DefaultOf(mode)
  OBVIOUS
<1>2. /\ Matches(D) /\ IsProfile(D, file) /\ IsProfile(D, to) /\ to.mode = mode
      /\ DOMAIN to.numbers = Fields(D, to.mode)
  BY <1>1, DescriptionIs, DefaultIs DEF Inv
<1>3. IsProfile(D, Convert(D, file, from, to)) /\ Convert(D, file, from, to).mode = to.mode
  BY <1>2, ConvertIsProfile
<1> QED
  BY <1>1, <1>2, <1>3

\* What the CLI patches.
LEMMA PatchedIs ==
  ASSUME Inv, stored.active, NEW fs, NEW changes \in [fs -> Values \cup {0, 1}]
  PROVE  /\ IsProfile(d, Patched(changes)) /\ Patched(changes).mode = mode
         /\ Patched(changes).map = Held(stored).map
         /\ DOMAIN Patched(changes).numbers = Fields(d, mode)
         /\ \A f \in Fields(d, mode) :
              Patched(changes).numbers[f] = IF f \in fs THEN changes[f] ELSE Held(stored).numbers[f]
         /\ Patched(changes).on = (Held(stored).on \ fs) \cup {f \in fs \cap Flags(d, mode) : changes[f] = 1}
<1>1. PICK p : p = Held(stored)
  OBVIOUS
<1>2. IsProfile(d, p) /\ p.mode = mode /\ DOMAIN p.numbers = Fields(d, mode)
  BY <1>1, HeldIs
<1>3. DOMAIN changes = fs /\ \A f \in fs : changes[f] \in Int
  <2>1. Values \cup {0, 1} \subseteq Int
    BY SettingsAssumption
  <2> QED
    BY <2>1
<1>4. PICK numbers, on :
        /\ numbers = [f \in Fields(d, mode) |-> IF f \in fs THEN changes[f] ELSE p.numbers[f]]
        /\ on = (p.on \ fs) \cup {f \in fs \cap Flags(d, mode) : changes[f] = 1}
  OBVIOUS
<1>5. Patched(changes) = [p EXCEPT !.numbers = numbers, !.on = on]
  BY <1>1, <1>2, <1>3, <1>4 DEF Patched
<1>6. Patched(changes) = [mode |-> mode, numbers |-> numbers, on |-> on, map |-> p.map]
  BY <1>2, <1>5 DEF IsProfile
<1>7. \A f \in Fields(d, mode) : p.numbers[f] \in Int
  BY <1>2 DEF IsProfile
<1>8. numbers \in [Fields(d, mode) -> Int] /\ DOMAIN numbers = Fields(d, mode)
  BY <1>3, <1>4, <1>7
<1>9. IsProfile(d, Patched(changes))
  BY <1>2, <1>6, <1>8 DEF IsProfile
<1> QED
  BY <1>1, <1>4, <1>6, <1>8, <1>9

LEMMA StoreKeepsInv ==
  ASSUME Inv, NEW p, IsProfile(d, p), NEW op \in Wrote, Store(op, p), edited' \in {Nothing, edited}
  PROVE  Inv' /\ stored'.active
<1>1. PICK D, s : D = d /\ s = stored
  OBVIOUS
<1>2. Matches(D) /\ IsSlot(D, s) /\ IsProfile(D, p) /\ Takes(D, p, s)
  BY <1>1, DescriptionIs, OfCodec DEF Inv, Store
<1>3. IsSlot(D, Put(D, p, s)) /\ Put(D, p, s).active
  BY <1>2, PutIsSlot
<1>4. stored' = Put(D, p, s)
  BY <1>1, OfCodec DEF Store
<1>5. UNCHANGED <<model, mode, tab>> /\ d' = d /\ said'.op # "import"
  BY DEF Store, d, Said, Wrote
<1>6. Imported'
  BY <1>5 DEF Imported
<1> QED
  BY <1>1, <1>3, <1>4, <1>5, <1>6 DEF Inv

\* What a command of the CLI, or the GUI, stores.
LEMMA WriteIs ==
  ASSUME Inv, Write
  PROVE  /\ IsProfile(d, edited) /\ edited.mode = mode /\ IsValid(d, edited)
         /\ Store("write", edited) /\ edited' = Nothing
BY DEF Write, Inv

LEMMA RemapIs ==
  ASSUME Inv, Remap
  PROVE  \E b \in d.remappable : \E t :
           /\ IsRemap(d, mode, b, t) /\ Store("remap", WithOutput(Held(stored), b, t))
           /\ stored.active /\ UNCHANGED edited /\ b \in d.buttons
           /\ IsProfile(d, WithOutput(Held(stored), b, t))
           /\ WithOutput(Held(stored), b, t).mode = mode
<1>1. PICK b, t : IsRemap(d, mode, b, t) /\ Store("remap", WithOutput(Held(stored), b, t))
                  /\ stored.active /\ UNCHANGED edited
  BY DEF Remap, Command
<1>2. PICK D, p : D = d /\ p = Held(stored)
  OBVIOUS
<1>3. IsProfile(D, p) /\ p.mode = mode /\ b \in D.buttons /\ b \in D.remappable
  BY <1>1, <1>2, HeldIs, DescriptionIs, RemappableIs DEF IsRemap
<1>4. IsProfile(D, WithOutput(p, b, t)) /\ WithOutput(p, b, t).mode = p.mode
  BY <1>3, WithOutputIs
<1> QED
  BY <1>1, <1>2, <1>3, <1>4

LEMMA PatchIs ==
  ASSUME Inv, Patch
  PROVE  \E fs \in SUBSET tab.fields : \E changes \in [fs -> Values \cup {0, 1}] :
           /\ fs \subseteq Declared(d, mode) /\ FitsIn(changes)
           /\ ~TouchedClash(Patched(changes), {GroupOf(f) : f \in fs})
           /\ Store("patch", Patched(changes)) /\ stored.active /\ UNCHANGED edited
BY DEF Patch, Command

\* Inv at the start: the slots and files are those of StartsAssumption.
THEOREM InitInv == SettingsInit => Inv
<1> SUFFICES ASSUME SettingsInit PROVE Inv
  OBVIOUS
<1>1. model \in DOMAIN Descriptions /\ mode \in DOMAIN d.modes
  BY DEF SettingsInit, d
<1>2. PICK start \in Starts[model][mode] : tab = start.tab /\ stored = start.slot
  BY DEF SettingsInit
<1>3. IsSlot(d, start.slot) /\ \A file \in start.tab.files : IsProfile(d, file)
  BY <1>1, StartsAssumption DEF d
<1> QED
  BY <1>1, <1>2, <1>3 DEF SettingsInit, Inv, Imported

\* Every step keeps Inv: an edit, an import and a write make profiles and slots of the
\* shape the codec takes.
THEOREM StepInv == Inv /\ [Next]_settingsVars => Inv'
<1> SUFFICES ASSUME Inv, [Next]_settingsVars PROVE Inv'
  OBVIOUS
<1>1. CASE SetNumber
  BY <1>1, SetNumberIs, EditKeepsInv
<1>2. CASE SetFlag
  BY <1>2, SetFlagIs, EditKeepsInv
<1>3. CASE SetOutput
  BY <1>3, SetOutputIs, EditKeepsInv
<1>4. CASE StartFromDefault
  <2>1. Edit(DefaultOf(mode)) /\ IsProfile(d, DefaultOf(mode)) /\ DefaultOf(mode).mode = mode
    BY <1>4, DefaultIs, DescriptionIs DEF StartFromDefault
  <2> QED
    BY <2>1, EditKeepsInv
<1>5. CASE Import
  <2>1. PICK file \in tab.files :
          /\ IsValid(d, file)
          /\ edited' = Convert(d, file, DefaultOf(file.mode), DefaultOf(mode))
          /\ said' = Said("import", file, Losses(d, file, DefaultOf(file.mode), DefaultOf(mode)))
          /\ UNCHANGED <<model, mode, tab, stored>>
    BY <1>5 DEF Import
  <2>2. d' = d /\ \A m : DefaultOf(m)' = DefaultOf(m)
    BY <2>1 DEF d, DefaultOf, IsPro3
  <2>3. IsProfile(d, edited') /\ edited'.mode = mode
    BY <2>1, ImportIs
  <2>4. said'.asked = file /\ said'.lost = Losses(d, file, DefaultOf(file.mode), DefaultOf(mode))
    BY <2>1 DEF Said
  <2>5. IsProfile(d, file)
    BY DEF Inv
  <2>6. Imported'
    BY <2>1, <2>2, <2>4, <2>5 DEF Imported
  <2> QED
    BY <2>1, <2>2, <2>3, <2>6 DEF Inv
<1>6. CASE Discard
  BY <1>6 DEF Discard, Inv, Imported, d
<1>7. CASE Write
  <2>1. IsProfile(d, edited) /\ Store("write", edited) /\ edited' = Nothing
    BY <1>7, WriteIs
  <2> QED
    BY <2>1, StoreKeepsInv DEF Wrote
<1>8. CASE Remap
  <2>1. PICK p : IsProfile(d, p) /\ Store("remap", p) /\ edited' = edited
    BY <1>8, RemapIs
  <2> QED
    BY <2>1, StoreKeepsInv DEF Wrote
<1>9. CASE Patch
  <2>1. PICK p : IsProfile(d, p) /\ Store("patch", p) /\ edited' = edited
    BY <1>9, PatchIs, PatchedIs
  <2> QED
    BY <2>1, StoreKeepsInv DEF Wrote
<1>10. CASE UNCHANGED settingsVars
  BY <1>10 DEF settingsVars, Inv, Imported, d, DefaultOf, IsPro3
<1> QED
  BY <1>1, <1>2, <1>3, <1>4, <1>5, <1>6, <1>7, <1>8, <1>9, <1>10 DEF Next

\* The working copy and the slot have the shape of the model's profiles and slots in every
\* state, and an import shows what the conversion made of a valid file.
THEOREM InvHolds == SettingsSpec => []Inv
<1> QED
  BY InitInv, StepInv, PTL DEF SettingsSpec

-------------------------------------------------------------------------------
(***************************************************************************)
(* What an import loses.                                                   *)
(***************************************************************************)
\* Convert and Losses, a button and a setting at a time.
LEMMA ConvertIs ==
  ASSUME NEW D, NEW p, NEW from, NEW to, p.mode # to.mode
  PROVE  /\ DOMAIN Convert(D, p, from, to).map = DOMAIN p.map
         /\ \A b \in DOMAIN p.map :
              Convert(D, p, from, to).map[b] = ConvertedOutput(D, p, from, to, b)
         /\ \A f : f \in DOMAIN Convert(D, p, from, to).numbers <=>
              \/ f \in DOMAIN p.numbers /\ GroupOf(f) \in Groups(D, to.mode) \ ResetGroups(D, p.mode, to.mode)
              \/ f \in DOMAIN to.numbers /\ GroupOf(f) \in ResetGroups(D, p.mode, to.mode)
         /\ \A f \in DOMAIN p.numbers :
              GroupOf(f) \in Groups(D, to.mode) \ ResetGroups(D, p.mode, to.mode) =>
                Convert(D, p, from, to).numbers[f] = p.numbers[f]
         /\ \A f \in DOMAIN to.numbers : GroupOf(f) \in ResetGroups(D, p.mode, to.mode) =>
                Convert(D, p, from, to).numbers[f] = to.numbers[f]
         /\ \A f : f \in Convert(D, p, from, to).on <=>
              \/ f \in p.on /\ GroupOf(f) \in Groups(D, to.mode) \ ResetGroups(D, p.mode, to.mode)
              \/ f \in to.on /\ GroupOf(f) \in ResetGroups(D, p.mode, to.mode)
<1> DEFINE reset == ResetGroups(D, p.mode, to.mode)
           stay == Groups(D, to.mode) \ reset
           kept == {f \in DOMAIN p.numbers : GroupOf(f) \in stay}
           fresh == {f \in DOMAIN to.numbers : GroupOf(f) \in reset}
           numbers == [f \in kept \cup fresh |-> IF f \in kept THEN p.numbers[f] ELSE to.numbers[f]]
           on == {f \in p.on : GroupOf(f) \in stay} \cup {f \in to.on : GroupOf(f) \in reset}
           map == [b \in DOMAIN p.map |-> ConvertedOutput(D, p, from, to, b)]
<1>1. Convert(D, p, from, to) = [mode |-> to.mode, numbers |-> numbers, on |-> on, map |-> map]
  BY DEF Convert
<1> HIDE DEF reset
<1>2. DOMAIN map = DOMAIN p.map /\ \A b \in DOMAIN p.map : map[b] = ConvertedOutput(D, p, from, to, b)
  OBVIOUS
<1>3. \A f : f \in DOMAIN numbers <=>
        \/ f \in DOMAIN p.numbers /\ GroupOf(f) \in stay
        \/ f \in DOMAIN to.numbers /\ GroupOf(f) \in reset
  OBVIOUS
<1>4. /\ \A f \in DOMAIN p.numbers : GroupOf(f) \in stay => numbers[f] = p.numbers[f]
      /\ \A f \in DOMAIN to.numbers : GroupOf(f) \in reset => numbers[f] = to.numbers[f]
  OBVIOUS
<1>5. ASSUME NEW f
      PROVE  f \in on <=>
               \/ f \in p.on /\ GroupOf(f) \in stay
               \/ f \in to.on /\ GroupOf(f) \in reset
  OBVIOUS
<1> HIDE DEF map, numbers, on
<1>6. /\ Convert(D, p, from, to).map = map /\ Convert(D, p, from, to).numbers = numbers
      /\ Convert(D, p, from, to).on = on
  BY <1>1
<1>7. /\ DOMAIN Convert(D, p, from, to).map = DOMAIN p.map
      /\ \A b \in DOMAIN p.map : Convert(D, p, from, to).map[b] = ConvertedOutput(D, p, from, to, b)
  BY <1>2, <1>6
<1>8. \A f : f \in DOMAIN Convert(D, p, from, to).numbers <=>
        \/ f \in DOMAIN p.numbers /\ GroupOf(f) \in stay
        \/ f \in DOMAIN to.numbers /\ GroupOf(f) \in reset
  BY <1>3, <1>6
<1>9. /\ \A f \in DOMAIN p.numbers : GroupOf(f) \in stay => Convert(D, p, from, to).numbers[f] = p.numbers[f]
      /\ \A f \in DOMAIN to.numbers : GroupOf(f) \in reset => Convert(D, p, from, to).numbers[f] = to.numbers[f]
  BY <1>4, <1>6
<1>10. \A f : f \in Convert(D, p, from, to).on <=>
        \/ f \in p.on /\ GroupOf(f) \in stay
        \/ f \in to.on /\ GroupOf(f) \in reset
  BY <1>5, <1>6
<1> QED
  BY <1>7, <1>8, <1>9, <1>10 DEF reset

LEMMA LossesAre ==
  ASSUME NEW D, NEW p, NEW from, NEW to, p.mode # to.mode
  PROVE  /\ \A b : <<"output", b>> \in Losses(D, p, from, to) <=>
                b \in DOMAIN p.map /\ ~AtDefault(p, from, to, b) /\ ~Exists(D, to.mode, p.map[b], b)
         /\ \A g : <<"settings", g>> \in Losses(D, p, from, to) <=> g \in ResetGroups(D, p.mode, to.mode)
<1> DEFINE lost == {c \in DOMAIN p.map : ~AtDefault(p, from, to, c) /\ ~Exists(D, to.mode, p.map[c], c)}
<1>1. Losses(D, p, from, to) =
        {<<"output", b>> : b \in lost} \cup {<<"settings", g>> : g \in ResetGroups(D, p.mode, to.mode)}
  BY DEF Losses
<1>2. ASSUME NEW b PROVE <<"output", b>> \in Losses(D, p, from, to) <=> b \in lost
  BY <1>1
<1>3. ASSUME NEW g
      PROVE  <<"settings", g>> \in Losses(D, p, from, to) <=> g \in ResetGroups(D, p.mode, to.mode)
  BY <1>1
<1> QED
  BY <1>2, <1>3

LEMMA LossIsListedHolds == Inv => LossIsListed
<1> SUFFICES ASSUME Inv, said # Nothing, said.op = "import" PROVE LossIsListed
  BY DEF LossIsListed
<1> DEFINE file == said.asked
           D == d
           from == DefaultOf(file.mode)
           to == DefaultOf(mode)
<1>1. /\ IsProfile(D, file) /\ IsValid(D, file)
      /\ edited = Convert(D, file, from, to) /\ said.lost = Losses(D, file, from, to)
  BY DEF Inv, Imported
<1>2. file.mode \in DOMAIN D.modes /\ mode \in DOMAIN D.modes /\ Matches(D)
  BY <1>1, DescriptionIs DEF IsProfile
<1>3. /\ from.mode = file.mode /\ DOMAIN from.map = D.buttons
      /\ to.mode = mode /\ DOMAIN to.map = D.buttons /\ to.on = {}
  BY <1>2, DefaultIs
<1> HIDE DEF from, to, D
<1>4. CASE file.mode = mode
  <2>1. edited = file /\ said.lost = {}
    BY <1>1, <1>3, <1>4 DEF Convert, Losses
  <2>2. \A f \in Declared(d, file.mode) : f \in Flags(d, mode) \/ f \in Numbers(d, mode)
    BY <1>4 DEF Declared
  <2> QED
    BY <2>1, <2>2 DEF LossIsListed, IsListed
<1>5. CASE file.mode # mode
  <2>1. ASSUME NEW b \in DOMAIN file.map
        PROVE  \/ edited.map[b] = file.map[b] /\ ~IsListed("output", b)
               \/ edited.map[b] = Disabled /\ IsListed("output", b) /\ ~IsRemap(D, mode, b, file.map[b])
               \/ /\ OutputOf(from, b) = file.map[b] /\ OutputOf(to, b) = edited.map[b]
                  /\ ~IsListed("output", b)
    <3>1. edited.map[b] = ConvertedOutput(D, file, from, to, b)
      BY <1>1, <1>3, <1>5, ConvertIs
    <3>2. IsListed("output", b) <=> ~AtDefault(file, from, to, b) /\ ~Exists(D, mode, file.map[b], b)
      BY <1>1, <1>3, <1>5, LossesAre DEF IsListed
    <3>3. CASE AtDefault(file, from, to, b)
      BY <3>1, <3>2, <3>3 DEF ConvertedOutput, AtDefault, OutputOf
    <3>4. CASE ~AtDefault(file, from, to, b) /\ Exists(D, mode, file.map[b], b)
      BY <1>3, <3>1, <3>2, <3>4 DEF ConvertedOutput
    <3>5. CASE ~AtDefault(file, from, to, b) /\ ~Exists(D, mode, file.map[b], b)
      <4>1. ~IsRemap(D, mode, b, file.map[b])
        BY <1>2, <3>5, RemappableIs DEF IsRemap, Exists
      <4> QED
        BY <1>3, <3>1, <3>2, <3>5, <4>1 DEF ConvertedOutput
    <3> QED
      BY <3>3, <3>4, <3>5
  <2>2. ASSUME NEW f \in Declared(D, file.mode), GroupOf(f) \in Groups(D, mode), ~IsListed("settings", GroupOf(f))
        PROVE  \/ f \in Flags(D, mode) /\ (f \in file.on <=> f \in edited.on)
               \/ f \in Numbers(D, mode) /\ file.numbers[f] = edited.numbers[f]
    <3>1. GroupOf(f) \notin ResetGroups(D, file.mode, mode)
      BY <1>1, <1>3, <1>5, <2>2, LossesAre DEF IsListed
    <3>2. /\ f \in Numbers(D, file.mode) <=> f \in Numbers(D, mode)
          /\ f \in Flags(D, file.mode) <=> f \in Flags(D, mode)
      BY <1>2, <2>2, <3>1, StaysOrStarts
    <3>3. CASE f \in Flags(D, mode)
      <4>1. f \in edited.on <=> f \in file.on
        BY <1>1, <1>3, <1>5, <2>2, <3>1, ConvertIs
      <4> QED
        BY <3>3, <4>1
    <3>4. CASE f \in Numbers(D, mode)
      <4>1. f \in DOMAIN file.numbers
        BY <1>1, <3>2, <3>4 DEF IsValid
      <4>2. edited.numbers[f] = file.numbers[f]
        BY <1>1, <1>3, <1>5, <2>2, <3>1, <4>1, ConvertIs
      <4> QED
        BY <3>4, <4>2
    <3> QED
      BY <2>2, <3>2, <3>3, <3>4 DEF Declared
  <2> QED
    BY <2>1, <2>2 DEF LossIsListed, D, from, to
<1> QED
  BY <1>4, <1>5

\* LossIsListed: what an import shows is the file's, but for buttons at their default and
\* for what the warning lists, from any file and between any two modes.
THEOREM NothingIsLostUnlisted == SettingsSpec => []LossIsListed
<1> QED
  BY InvHolds, LossIsListedHolds, PTL

-------------------------------------------------------------------------------
(***************************************************************************)
(* The flags.                                                              *)
(***************************************************************************)
LEMMA PutOn ==
  ASSUME NEW D, Matches(D), NEW M, NEW s, NEW p
  PROVE  Read(D, M, Put(D, p, s)).on = p.on \cap CodecFlags(D)
<1>1. CASE D.codec = "pro3"
  <2>1. Put(D, p, s).bits = p.on \cap Pro3Flags
    BY <1>1 DEF Put, Pro3Compile
  <2>2. Read(D, M, Put(D, p, s)).on = Put(D, p, s).bits \cap Pro3Flags
    BY <1>1 DEF Read, Pro3Decode
  <2> QED
    BY <1>1, <2>1, <2>2 DEF CodecFlags
<1>2. CASE D.codec = "ultimate"
  <2>1. /\ Put(D, p, s).used = Sections
        /\ Put(D, p, s).bits = KeptAndSet(p, Started(s).bits)
    BY <1>2 DEF Put, UltimateCompile
  <2>2. Read(D, M, Put(D, p, s)).on = Put(D, p, s).bits \cap UltimateFlags
    BY <1>2, <2>1 DEF Read, UltimateDecode, Sections
  <2> QED
    BY <1>2, <2>1, <2>2 DEF CodecFlags, KeptAndSet
<1> QED
  BY <1>1, <1>2 DEF Matches

\* The steps that write.
LEMMA WroteIs ==
  ASSUME Next, said' # Nothing, said'.op \in Wrote
  PROVE  Write \/ Remap \/ Patch
<1> USE DEF Wrote
<1>1. CASE SetNumber \/ SetFlag \/ SetOutput \/ StartFromDefault
  BY <1>1 DEF SetNumber, SetFlag, SetOutput, StartFromDefault, Edit
<1>2. CASE Import
  BY <1>2 DEF Import, Said
<1>3. CASE Discard
  BY <1>3 DEF Discard
<1> QED
  BY <1>1, <1>2, <1>3 DEF Next

LEMMA ClashesAre ==
  ASSUME NEW D, Matches(D), IsDescription(D), NEW M \in DOMAIN D.modes, NEW on
  PROVE  Clashes(D, M, on \cap CodecFlags(D)) = Clashes(D, M, on)
<1>1. Flags(D, M) \subseteq CodecFlags(D)
  BY DEF Matches, SettingsMatch
<1>2. \A f \in Flags(D, M) : D.modes[M].flags[f] \subseteq Flags(D, M)
  BY DEF IsDescription, SettingsFit, Flags
<1> QED
  BY <1>1, <1>2 DEF Clashes

\* The flags a slot reads as, before and after a write.
LEMMA StoredOn ==
  ASSUME Inv, NEW op, NEW p, Store(op, p)
  PROVE  /\ Decode(stored').on = p.on \cap CodecFlags(d)
         /\ Clashes(d, mode, Decode(stored').on) = Clashes(d, mode, p.on)
<1>1. PICK D, M, s : D = d /\ M = mode /\ s = stored
  OBVIOUS
<1>2. Matches(D) /\ IsDescription(D) /\ M \in DOMAIN D.modes
  BY <1>1, DescriptionIs
<1>3. Decode(stored') = Read(D, M, Put(D, p, s))
  BY <1>1, OfCodec DEF Store
<1>4. Read(D, M, Put(D, p, s)).on = p.on \cap CodecFlags(D)
  BY <1>2, PutOn
<1>5. Clashes(D, M, p.on \cap CodecFlags(D)) = Clashes(D, M, p.on)
  BY <1>2, ClashesAre
<1> QED
  BY <1>1, <1>3, <1>4, <1>5

LEMMA NoClashStep ==
  ASSUME Inv, Next, said' # Nothing, said'.op \in Wrote
  PROVE  LET before == IF stored.active THEN Decode(stored).on ELSE {}
             after == Decode(stored').on
             left == Clashes(d, mode, after)
             patched == {GroupOf(f) : f \in (before \ after) \cup (after \ before)}
         IN  /\ left \subseteq Clashes(d, mode, before)
             /\ said'.op = "write" => left = {}
             /\ said'.op = "patch" => {GroupOf(f) : f \in left} \cap patched = {}
<1> DEFINE before == IF stored.active THEN Decode(stored).on ELSE {}
           after == Decode(stored').on
           left == Clashes(d, mode, after)
           patched == {GroupOf(f) : f \in (before \ after) \cup (after \ before)}
<1> HIDE DEF before, after, left, patched
<1>1. CASE Write
  <2>1. IsValid(d, edited) /\ edited.mode = mode /\ Store("write", edited)
    BY <1>1, WriteIs
  <2>2. left = Clashes(d, mode, edited.on)
    BY <2>1, StoredOn DEF left, after
  <2>3. left = {}
    BY <2>1, <2>2 DEF IsValid
  <2> QED
    BY <2>3 DEF left, after
<1>2. CASE Remap
  <2>1. PICK b, t : Store("remap", WithOutput(Held(stored), b, t)) /\ stored.active
    BY <1>2, RemapIs
  <2>2. WithOutput(Held(stored), b, t).on = Held(stored).on
    BY DEF WithOutput
  <2>3. Clashes(d, mode, after) = Clashes(d, mode, Held(stored).on)
    BY <2>1, <2>2, StoredOn DEF after
  <2>4. before = Held(stored).on
    BY <2>1 DEF before, Held
  <2>5. said'.op = "remap"
    BY <2>1 DEF Store, Said
  <2> QED
    BY <2>3, <2>4, <2>5 DEF before, after
<1>3. CASE Patch
  <2>1. PICK fs, changes :
          /\ fs \subseteq Declared(d, mode) /\ changes \in [fs -> Values \cup {0, 1}]
          /\ ~TouchedClash(Patched(changes), {GroupOf(f) : f \in fs})
          /\ Store("patch", Patched(changes)) /\ stored.active
    BY <1>3, PatchIs
  <2>2. PICK p : p = Patched(changes)
    OBVIOUS
  <2>3. p.on = (Held(stored).on \ fs) \cup {f \in fs \cap Flags(d, mode) : changes[f] = 1}
    BY <2>1, <2>2, PatchedIs
  <2>4. before = Held(stored).on /\ before \subseteq CodecFlags(d)
    BY <2>1, HeldIs DEF before, Held
  <2>5. after = p.on \cap CodecFlags(d) /\ left = Clashes(d, mode, p.on)
    BY <2>1, <2>2, StoredOn DEF after, left
  <2>6. ASSUME NEW f \in Flags(d, mode), f \in p.on, NEW g \in ExcludedBy(d, mode, f), g \in p.on
        PROVE  GroupOf(f) \notin {GroupOf(x) : x \in fs}
    BY <2>1, <2>2, <2>6 DEF TouchedClash
  <2>7. ASSUME NEW f \in left
        PROVE  GroupOf(f) \notin {GroupOf(x) : x \in fs} /\ f \in Clashes(d, mode, before)
    <3>1. /\ f \in p.on /\ f \in Flags(d, mode)
          /\ d.modes[mode].flags[f] \cap p.on # {}
      BY <2>5 DEF Clashes
    <3>2. PICK g \in d.modes[mode].flags[f] : g \in p.on
      BY <3>1
    <3>3. g \in Flags(d, mode)
      BY <3>1, DescriptionIs DEF IsDescription, SettingsFit, Flags
    <3>4. g \in ExcludedBy(d, mode, f) /\ f \in ExcludedBy(d, mode, g)
      BY <3>1, <3>2 DEF ExcludedBy
    <3>5. GroupOf(f) \notin {GroupOf(x) : x \in fs} /\ GroupOf(g) \notin {GroupOf(x) : x \in fs}
      BY <2>6, <3>1, <3>2, <3>3, <3>4
    <3>6. f \notin fs /\ g \notin fs
      BY <3>5
    <3>7. f \in before /\ g \in before
      BY <2>3, <2>4, <3>1, <3>2, <3>6
    <3> QED
      BY <3>1, <3>2, <3>5, <3>7 DEF Clashes
  <2>8. \A f \in (before \ after) \cup (after \ before) : f \in fs
    BY <2>3, <2>4, <2>5
  <2>9. {GroupOf(f) : f \in left} \cap patched = {}
    BY <2>7, <2>8 DEF patched
  <2>10. said'.op = "patch" /\ left \subseteq Clashes(d, mode, before)
    BY <2>1, <2>7 DEF Store, Said
  <2> QED
    BY <2>9, <2>10 DEF before, after, left, patched
<1>4. Write \/ Remap \/ Patch
  BY WroteIs
<1> QED
  BY <1>1, <1>2, <1>3, <1>4

\* No write makes two flags clash that did not, from whatever slot and description: the
\* GUI writes a valid profile, a remap leaves the flags alone, and a patch is checked for
\* the flags it found on as well as for those it sets.
THEOREM NoClashIsMadeHolds == SettingsSpec => NoClashIsMade
<1>1. Inv /\ [Next]_settingsVars =>
        [said' # Nothing /\ said'.op \in Wrote =>
           LET before == IF stored.active THEN Decode(stored).on ELSE {}
               after == Decode(stored').on
               left == Clashes(d, mode, after)
               patched == {GroupOf(f) : f \in (before \ after) \cup (after \ before)}
           IN  /\ left \subseteq Clashes(d, mode, before)
               /\ said'.op = "write" => left = {}
               /\ said'.op = "patch" => {GroupOf(f) : f \in left} \cap patched = {}]_settingsVars
  BY NoClashStep
<1> QED
  BY <1>1, InvHolds, PTL DEF SettingsSpec, NoClashIsMade

-------------------------------------------------------------------------------
(***************************************************************************)
(* What a write leaves as it was.                                          *)
(***************************************************************************)
LEMMA IndexIs ==
  /\ \A x, y \in Ends : Index[x] = Index[y] => x = y
  /\ \A x, y \in Levels : Index[x] = Index[y] => x = y
  /\ \A x, y \in Thresholds : Index[x] = Index[y] => x = y
<1>1. \A x, y \in Ends : Index[x] = Index[y] => x = y
  BY DEF Ends, Index
<1>2. \A x, y \in Levels : Index[x] = Index[y] => x = y
  BY DEF Levels, Index
<1>3. \A x, y \in Thresholds : Index[x] = Index[y] => x = y
  BY DEF Thresholds, Index
<1> QED
  BY <1>1, <1>2, <1>3

\* A place is that of one field.
LEMMA PlaceIsOne ==
  ASSUME NEW D, Matches(D), NEW M, NEW f \in Fields(D, M), NEW g \in Fields(D, M), PlaceOf(f) = PlaceOf(g)
  PROVE  f = g
<1>1. f[1] = g[1] /\ Index[f[2]] = Index[g[2]]
  BY DEF PlaceOf
<1>2. CASE D.codec = "pro3"
  <2>1. f \in Pro3Fields(M) /\ g \in Pro3Fields(M)
    BY <1>2 DEF Fields
  <2>2. f = <<f[1], f[2]>> /\ g = <<g[1], g[2]>>
    BY <2>1 DEF Pro3Fields
  <2>3. \/ f[2] \in Ends /\ g[2] \in Ends
        \/ f[2] \in Levels /\ g[2] \in Levels
        \/ f[2] \in Thresholds /\ g[2] \in Thresholds
    BY <1>1, <2>1 DEF Pro3Fields
  <2> QED
    BY <1>1, <2>2, <2>3, IndexIs
<1>3. CASE D.codec = "ultimate"
  <2>1. f \in UltimateFields /\ g \in UltimateFields
    BY <1>3 DEF Fields
  <2>2. f = <<f[1], f[2]>> /\ g = <<g[1], g[2]>>
    BY <2>1 DEF UltimateFields
  <2>3. \/ f[2] \in Ends /\ g[2] \in Ends
        \/ f[2] \in Levels /\ g[2] \in Levels
    BY <1>1, <2>1 DEF UltimateFields
  <2> QED
    BY <1>1, <2>2, <2>3, IndexIs
<1> QED
  BY <1>2, <1>3 DEF Matches

\* The raw value a write gives to the place of a field.
LEMMA PutRaw ==
  ASSUME NEW D, Matches(D), NEW s, IsSlot(D, s), NEW p, IsProfile(D, p), Takes(D, p, s),
         NEW f \in Fields(D, p.mode)
  PROVE  /\ f \in DOMAIN p.numbers /\ p.numbers[f] \in Int /\ s.raw[PlaceOf(f)] \in Int
         /\ D.codec = "pro3" =>
              Put(D, p, s).raw[PlaceOf(f)] =
                IF GroupOf(f) = "vibration" THEN Strength(Clamped(<<0, 5>>, p.numbers[f]))
                ELSE Pro3KeepOrEncode(s.raw[PlaceOf(f)], p.numbers[f], RawMax(GroupOf(f)))
         /\ D.codec = "ultimate" =>
              /\ Started(s).raw[PlaceOf(f)] \in Int
              /\ ~Fresh(s, GroupOf(f)) => Started(s).raw[PlaceOf(f)] = s.raw[PlaceOf(f)]
              /\ Put(D, p, s).raw[PlaceOf(f)] =
                   IF GroupOf(f) = "vibration" THEN KeepOrStrengthen(Started(s).raw[PlaceOf(f)], p.numbers[f])
                   ELSE UltimateKeepOrEncode(Started(s).raw[PlaceOf(f)], p.numbers[f], RawMax(GroupOf(f)))
<1>1. PlaceOf(f) \in {PlaceOf(g) : g \in UltimateFields}
  BY PlacesAre DEF Fields
<1>2. PlaceOf(f) \in DOMAIN s.raw /\ s.raw[PlaceOf(f)] \in Int
  BY <1>1 DEF IsSlot
<1>3. f \in DOMAIN p.numbers
  BY DEF Takes, Pro3Compiles, UltimateCompiles, Fields, Matches
<1>4. p.numbers[f] \in Int
  BY <1>3 DEF IsProfile
<1>5. CASE D.codec = "pro3"
  <2>1. PICK here : here = {g \in Pro3Fields(p.mode) : PlaceOf(g) = PlaceOf(f)}
    OBVIOUS
  <2>2. f \in here /\ \A g \in here : g = f
    BY <1>5, <2>1, PlaceIsOne DEF Fields
  <2>3. (CHOOSE g \in here : TRUE) = f /\ here # {}
    BY <2>2
  <2>4. Put(D, p, s).raw[PlaceOf(f)] = Pro3CompiledRaw(p.mode, p, s, PlaceOf(f))
    BY <1>2, <1>5 DEF Put, Pro3Compile
  <2>5. PICK place, base, g, max : /\ place = PlaceOf(f) /\ base = s.raw[place]
                                   /\ g = CHOOSE x \in here : TRUE
                                   /\ max = RawMax(GroupOf(f))
    OBVIOUS
  <2>6. g = f
    BY <2>3, <2>5
  <2>7. Pro3CompiledRaw(p.mode, p, s, place) =
          IF GroupOf(g) = "vibration" THEN Strength(Clamped(<<0, 5>>, p.numbers[g]))
          ELSE Pro3KeepOrEncode(base, p.numbers[g], RawMax(GroupOf(g)))
    BY <2>1, <2>3, <2>5 DEF Pro3CompiledRaw
  <2> QED
    BY <1>2, <1>3, <1>4, <1>5, <2>4, <2>5, <2>6, <2>7
<1>6. CASE D.codec = "ultimate"
  <2>1. f \in UltimateFields
    BY <1>6 DEF Fields
  <2>2. PICK g : g = CHOOSE x \in UltimateFields : PlaceOf(x) = PlaceOf(f)
    OBVIOUS
  <2>3. g \in UltimateFields /\ PlaceOf(g) = PlaceOf(f)
    BY <2>1, <2>2
  <2>4. g = f
    BY <1>6, <2>1, <2>3, PlaceIsOne DEF Fields
  <2>5. PlaceOf(f)[1] = GroupOf(f)
    BY DEF PlaceOf, GroupOf
  <2>6. Started(s).raw[PlaceOf(f)] = IF Fresh(s, GroupOf(f)) THEN 0 ELSE s.raw[PlaceOf(f)]
    BY <1>2, <1>6, <2>5 DEF Started, IsSlot
  <2>7. Put(D, p, s).raw[PlaceOf(f)] = UltimateCompiledRaw(p, Started(s).raw[PlaceOf(f)], PlaceOf(f))
    BY <1>2, <1>6 DEF Put, UltimateCompile
  <2>8. PICK place, base : place = PlaceOf(f) /\ base = Started(s).raw[place]
    OBVIOUS
  <2>9. UltimateCompiledRaw(p, base, place) =
          IF GroupOf(g) = "vibration" THEN KeepOrStrengthen(base, p.numbers[g])
          ELSE UltimateKeepOrEncode(base, p.numbers[g], RawMax(GroupOf(g)))
    BY <2>2, <2>8 DEF UltimateCompiledRaw
  <2>10. base \in Int
    BY <1>2, <2>6, <2>8
  <2> QED
    BY <1>2, <1>3, <1>4, <1>6, <2>4, <2>6, <2>7, <2>8, <2>9, <2>10
<1> QED
  BY <1>5, <1>6 DEF Matches

\* The number a slot reads as.
LEMMA ReadNumberIs ==
  ASSUME NEW D, Matches(D), NEW M, NEW s, NEW f \in Fields(D, M)
  PROVE  /\ D.codec = "pro3" => Read(D, M, s).numbers[f] = Pro3Number(s, f)
         /\ D.codec = "ultimate" => Read(D, M, s).numbers[f] = UltimateNumber(D, M, s, f)
BY DEF Read, Pro3Decode, UltimateDecode, Fields

\* The output a button of a slot reads as, and the entry a write gives to a button.
LEMMA ReadMapIs ==
  ASSUME NEW D, Matches(D), NEW M, NEW s, NEW b \in DOMAIN s.map
  PROVE  /\ D.codec = "pro3" => Read(D, M, s).map[b] = Target(M, b, s.map[b])
         /\ D.codec = "ultimate" /\ "map" \in s.used => Read(D, M, s).map[b] = OutputOfCode(D, M, s.map[b])
BY DEF Read, Pro3Decode, UltimateDecode

LEMMA PutMapIs ==
  ASSUME NEW D, Matches(D), NEW s, IsSlot(D, s), NEW p, NEW b \in DOMAIN p.map, b \in D.buttons
  PROVE  /\ D.codec = "pro3" => Put(D, p, s).map[b] = CompiledCode(p.mode, b, s.map[b], p.map[b])
         /\ D.codec = "ultimate" => Put(D, p, s).map[b] = UltimateCodeOf(D, p.mode, p.map[b])
         /\ b \in DOMAIN Put(D, p, s).map
BY DEF Put, Pro3Compile, UltimateCompile, IsSlot, Matches

\* The code of the output that a code of the mode stands for is that code.
LEMMA CodeComesBack ==
  ASSUME NEW D, Matches(D), D.codec = "ultimate", NEW M \in DOMAIN D.modes,
         NEW code, code \in {Zero} \cup {D.codes[M][o] : o \in DOMAIN D.codes[M]}
  PROVE  UltimateCodeOf(D, M, OutputOfCode(D, M, code)) = code
<1> DEFINE named == {o \in DOMAIN D.codes[M] : D.codes[M][o] = code}
<1>0. MatchesUltimate(D)
  BY DEF Matches
<1>1. /\ Disabled \notin DOMAIN D.codes[M]
      /\ \A o \in DOMAIN D.codes[M] : D.codes[M][o] # Zero
  BY <1>0 DEF MatchesUltimate
<1>2. CASE named = {}
  <2>1. code = Zero
    BY <1>2
  <2> QED
    BY <1>2, <2>1 DEF OutputOfCode, UltimateCodeOf
<1>3. CASE named # {}
  <2>1. PICK o : o = CHOOSE x \in named : TRUE
    OBVIOUS
  <2>2. o \in named
    BY <1>3, <2>1
  <2>3. OutputOfCode(D, M, code) = o
    BY <1>3, <2>1 DEF OutputOfCode
  <2> QED
    BY <1>1, <2>2, <2>3 DEF UltimateCodeOf
<1> QED
  BY <1>2, <1>3

\* A write of a profile over an active slot.
LEMMA OthersStay ==
  ASSUME NEW D, Matches(D), IsDescription(D), NEW M \in DOMAIN D.modes, NEW s, IsSlot(D, s), s.active,
         NEW p, IsProfile(D, p), p.mode = M, Takes(D, p, s)
  PROVE  /\ \A b \in DOMAIN p.map :
              /\ p.map[b] = Read(D, M, s).map[b]
              /\ IF D.codec = "pro3" THEN b \in D.remappable
                 ELSE "map" \in s.used
                      /\ s.map[b] \in {Zero} \cup {D.codes[M][o] : o \in DOMAIN D.codes[M]}
              => Put(D, p, s).map[b] = s.map[b]
         /\ \A f \in Fields(D, M) :
              /\ p.numbers[f] = Read(D, M, s).numbers[f]
              /\ IF D.codec = "pro3"
                 THEN /\ GroupOf(f) # "vibration"
                      /\ Pro3Percent(s.raw[PlaceOf(f)], RawMax(GroupOf(f))) = p.numbers[f]
                 ELSE GroupOf(f) \in s.used /\ s.raw[PlaceOf(f)] # NotANumber
              => Put(D, p, s).raw[PlaceOf(f)] = s.raw[PlaceOf(f)]
         /\ D.codec = "ultimate" /\ "toggles" \in s.used =>
              \A bit : (bit \in p.on <=> bit \in Read(D, M, s).on) =>
                (bit \in Put(D, p, s).bits <=> bit \in s.bits)
<1>1. ASSUME NEW b \in DOMAIN p.map, p.map[b] = Read(D, M, s).map[b],
             IF D.codec = "pro3" THEN b \in D.remappable
             ELSE "map" \in s.used
                  /\ s.map[b] \in {Zero} \cup {D.codes[M][o] : o \in DOMAIN D.codes[M]}
      PROVE  Put(D, p, s).map[b] = s.map[b]
  <2>1. b \in D.buttons /\ b \in DOMAIN s.map
    BY DEF IsProfile, IsSlot
  <2>2. CASE D.codec = "pro3"
    <3>1. b # "home/guide"
      BY <1>1, <2>2 DEF Matches, MatchesPro3
    <3>2. p.map[b] = Target(M, b, s.map[b])
      BY <1>1, <2>1, <2>2, ReadMapIs
    <3>3. Put(D, p, s).map[b] = CompiledCode(M, b, s.map[b], p.map[b])
      BY <2>1, <2>2, PutMapIs
    <3> QED
      BY <3>1, <3>2, <3>3 DEF CompiledCode, EntryKept
  <2>3. CASE D.codec = "ultimate"
    <3>1. PICK code : code = s.map[b]
      OBVIOUS
    <3>2. code \in {Zero} \cup {D.codes[M][o] : o \in DOMAIN D.codes[M]} /\ "map" \in s.used
      BY <1>1, <2>3, <3>1
    <3>3. UltimateCodeOf(D, M, OutputOfCode(D, M, code)) = code
      BY <2>3, <3>2, CodeComesBack
    <3>4. p.map[b] = OutputOfCode(D, M, code)
      BY <1>1, <2>1, <2>3, <3>1, <3>2, ReadMapIs
    <3>5. Put(D, p, s).map[b] = UltimateCodeOf(D, M, p.map[b])
      BY <2>1, <2>3, PutMapIs
    <3> QED
      BY <3>1, <3>3, <3>4, <3>5
  <2> QED
    BY <2>2, <2>3 DEF Matches
<1>2. ASSUME NEW f \in Fields(D, M), p.numbers[f] = Read(D, M, s).numbers[f],
             IF D.codec = "pro3"
             THEN /\ GroupOf(f) # "vibration"
                  /\ Pro3Percent(s.raw[PlaceOf(f)], RawMax(GroupOf(f))) = p.numbers[f]
             ELSE GroupOf(f) \in s.used /\ s.raw[PlaceOf(f)] # NotANumber
      PROVE  Put(D, p, s).raw[PlaceOf(f)] = s.raw[PlaceOf(f)]
  <2>1. PICK x, raw, max : x = p.numbers[f] /\ raw = s.raw[PlaceOf(f)] /\ max = RawMax(GroupOf(f))
    OBVIOUS
  <2>2. CASE D.codec = "pro3"
    <3>1. Put(D, p, s).raw[PlaceOf(f)] = Pro3KeepOrEncode(raw, x, max)
      BY <1>2, <2>1, <2>2, PutRaw
    <3>2. Pro3Percent(raw, max) = x
      BY <1>2, <2>1, <2>2
    <3> QED
      BY <2>1, <3>1, <3>2 DEF Pro3KeepOrEncode
  <2>3. CASE D.codec = "ultimate"
    <3>1. ~Fresh(s, GroupOf(f))
      BY <1>2, <2>3 DEF Fresh
    <3>2. Put(D, p, s).raw[PlaceOf(f)] =
            IF GroupOf(f) = "vibration" THEN KeepOrStrengthen(raw, x) ELSE UltimateKeepOrEncode(raw, x, max)
      BY <2>1, <2>3, <3>1, PutRaw
    <3>3. x = IF GroupOf(f) = "vibration" THEN Level(raw) ELSE UltimatePercent(raw, max)
      BY <1>2, <2>1, <2>3, ReadNumberIs DEF UltimateNumber
    <3> QED
      BY <1>2, <2>1, <2>3, <3>2, <3>3 DEF KeepOrStrengthen, UltimateKeepOrEncode
  <2> QED
    BY <2>2, <2>3 DEF Matches
<1>3. ASSUME D.codec = "ultimate", "toggles" \in s.used, NEW bit, bit \in p.on <=> bit \in Read(D, M, s).on
      PROVE  bit \in Put(D, p, s).bits <=> bit \in s.bits
  <2>1. Started(s).bits = s.bits
    BY <1>3 DEF Started, Fresh, IsSlot
  <2>2. Put(D, p, s).bits = (s.bits \ UltimateFlags) \cup (p.on \cap UltimateFlags)
    BY <1>3, <2>1 DEF Put, UltimateCompile, KeptAndSet
  <2>3. Read(D, M, s).on = s.bits \cap UltimateFlags
    BY <1>3 DEF Read, UltimateDecode
  <2> QED
    BY <1>3, <2>2, <2>3
<1> QED
  BY <1>1, <1>2, <1>3

\* What every write of a step is.
LEMMA WrittenIs ==
  ASSUME Inv, Next, said' # Nothing, said'.op \in Wrote
  PROVE  /\ IsProfile(d, said'.asked) /\ said'.asked.mode = mode
         /\ Takes(d, said'.asked, stored) /\ stored' = Put(d, said'.asked, stored)
         /\ UNCHANGED <<model, mode, tab>>
<1>1. \E op, p : Store(op, p) /\ IsProfile(d, p) /\ p.mode = mode
  <2>1. CASE Write
    BY <2>1, WriteIs
  <2>2. CASE Remap
    BY <2>2, RemapIs
  <2>3. CASE Patch
    BY <2>3, PatchIs, PatchedIs
  <2> QED
    BY <2>1, <2>2, <2>3, WroteIs
<1>2. PICK op, p : Store(op, p) /\ IsProfile(d, p) /\ p.mode = mode
  BY <1>1
<1>3. said'.asked = p
  BY <1>2 DEF Store, Said
<1>4. Compiles(p, stored) /\ stored' = Compile(p, stored) /\ UNCHANGED <<model, mode, tab>>
  BY <1>2 DEF Store
<1> QED
  BY <1>2, <1>3, <1>4, OfCodec

LEMMA OthersStayStep ==
  ASSUME Inv, Next, said' # Nothing, said'.op \in Wrote, stored.active
  PROVE  LET held == Held(stored)
             asked == said'.asked
         IN  /\ \A b \in DOMAIN asked.map :
                  asked.map[b] = held.map[b] /\ IsNamed(b) => stored'.map[b] = stored.map[b]
             /\ \A f \in DOMAIN held.numbers :
                  asked.numbers[f] = held.numbers[f] /\ IsPlain(f) =>
                    stored'.raw[PlaceOf(f)] = stored.raw[PlaceOf(f)]
             /\ ~IsPro3 /\ "toggles" \in stored.used =>
                  \A bit \in (stored.bits \cup stored'.bits) \ Flags(d, mode) :
                    (bit \in asked.on <=> bit \in held.on) => (bit \in stored'.bits <=> bit \in stored.bits)
<1>1. PICK D, M, s, p : D = d /\ M = mode /\ s = stored /\ p = said'.asked
  OBVIOUS
<1>2. /\ Matches(D) /\ IsDescription(D) /\ M \in DOMAIN D.modes /\ IsSlot(D, s) /\ s.active
      /\ IsProfile(D, p) /\ p.mode = M /\ Takes(D, p, s)
  BY <1>1, DescriptionIs, WrittenIs DEF Inv
<1>3. /\ \A b \in DOMAIN p.map :
           /\ p.map[b] = Read(D, M, s).map[b]
           /\ IF D.codec = "pro3" THEN b \in D.remappable
              ELSE "map" \in s.used
                   /\ s.map[b] \in {Zero} \cup {D.codes[M][o] : o \in DOMAIN D.codes[M]}
           => Put(D, p, s).map[b] = s.map[b]
      /\ \A f \in Fields(D, M) :
           /\ p.numbers[f] = Read(D, M, s).numbers[f]
           /\ IF D.codec = "pro3"
              THEN /\ GroupOf(f) # "vibration"
                   /\ Pro3Percent(s.raw[PlaceOf(f)], RawMax(GroupOf(f))) = p.numbers[f]
              ELSE GroupOf(f) \in s.used /\ s.raw[PlaceOf(f)] # NotANumber
           => Put(D, p, s).raw[PlaceOf(f)] = s.raw[PlaceOf(f)]
      /\ D.codec = "ultimate" /\ "toggles" \in s.used =>
           \A bit : (bit \in p.on <=> bit \in Read(D, M, s).on) =>
             (bit \in Put(D, p, s).bits <=> bit \in s.bits)
  BY <1>2, OthersStay
<1>4. stored' = Put(D, p, s) /\ Held(stored) = Read(D, M, s) /\ DOMAIN Held(stored).numbers = Fields(D, M)
  BY <1>1, HeldIs, WrittenIs
<1>5. \A b \in DOMAIN p.map :
        p.map[b] = Held(stored).map[b] /\ IsNamed(b) => stored'.map[b] = stored.map[b]
  BY <1>1, <1>3, <1>4 DEF IsNamed, IsPro3
<1>6. \A f \in DOMAIN Held(stored).numbers :
        p.numbers[f] = Held(stored).numbers[f] /\ IsPlain(f) =>
          stored'.raw[PlaceOf(f)] = stored.raw[PlaceOf(f)]
  BY <1>1, <1>3, <1>4 DEF IsPlain, IsPro3
<1>7. ~IsPro3 => D.codec = "ultimate"
  BY <1>1, <1>2 DEF IsPro3, Matches
<1>8. ~IsPro3 /\ "toggles" \in stored.used =>
        \A bit : (bit \in p.on <=> bit \in Held(stored).on) => (bit \in stored'.bits <=> bit \in stored.bits)
  BY <1>1, <1>3, <1>4, <1>7
<1> QED
  BY <1>1, <1>5, <1>6, <1>8

\* A write keeps, byte for byte, what it was not asked to change, from whatever slot.
THEOREM OthersStayAsReadHolds == SettingsSpec => OthersStayAsRead
<1>1. Inv /\ [Next]_settingsVars =>
        [said' # Nothing /\ said'.op \in Wrote /\ stored.active =>
           LET held == Held(stored)
               asked == said'.asked
           IN  /\ \A b \in DOMAIN asked.map :
                    asked.map[b] = held.map[b] /\ IsNamed(b) => stored'.map[b] = stored.map[b]
               /\ \A f \in DOMAIN held.numbers :
                    asked.numbers[f] = held.numbers[f] /\ IsPlain(f) =>
                      stored'.raw[PlaceOf(f)] = stored.raw[PlaceOf(f)]
               /\ ~IsPro3 /\ "toggles" \in stored.used =>
                    \A bit \in (stored.bits \cup stored'.bits) \ Flags(d, mode) :
                      (bit \in asked.on <=> bit \in held.on) => (bit \in stored'.bits <=> bit \in stored.bits)
        ]_settingsVars
  BY OthersStayStep
<1> QED
  BY <1>1, InvHolds, PTL DEF SettingsSpec, OthersStayAsRead

-------------------------------------------------------------------------------
(***************************************************************************)
(* What a valid profile may have, and that the codecs take it.             *)
(***************************************************************************)
\* The outputs of a Pro 3 description are those of its tables.
LEMMA Pro3Outputs ==
  ASSUME NEW D, Matches(D), D.codec = "pro3", NEW M \in DOMAIN D.modes
  PROVE  /\ M \in Modes
         /\ Extras(D, M) = {OnlyName(M, i) : i \in 1..Only(M)}
         /\ \A b \in D.buttons : \E i \in 1..22 : b = Sources[i]
         /\ \A e \in Extras(D, M) : D.modes[M].extras[e] = {}
         /\ \A o \in D.named \cup Extras(D, M) : \E k \in Targets(M) : o = NameAt(M, k)
<1>0. MatchesPro3(D)
  BY DEF Matches
<1>1. M \in Modes
  BY <1>0 DEF MatchesPro3, Modes
<1>2. PICK t : t = [i \in 1..Only(M) |-> [name |-> OnlyName(M, i), code |-> OnlyCode(M, i), variant |-> Null]]
  OBVIOUS
<1>3. TargetOnly(M) = t
  BY <1>1, <1>2, TargetOnlyIs
<1>4. DOMAIN t = 1..Only(M) /\ \A i \in 1..Only(M) : t[i].name = OnlyName(M, i)
  BY <1>2
<1>5. D.modes[M].extras = [e \in {t[i].name : i \in DOMAIN t} |-> {}]
  BY <1>0, <1>3 DEF MatchesPro3
<1>6. {t[i].name : i \in DOMAIN t} = {OnlyName(M, i) : i \in 1..Only(M)}
  BY <1>4
<1>7. Extras(D, M) = {OnlyName(M, i) : i \in 1..Only(M)}
  BY <1>5, <1>6 DEF Extras
<1>8. \A e \in Extras(D, M) : D.modes[M].extras[e] = {}
  BY <1>5 DEF Extras
<1>9. DOMAIN Sources = 1..22
  BY DEF Sources
<1>10. \A b \in D.buttons : \E i \in 1..22 : b = Sources[i]
  BY <1>0, <1>9 DEF MatchesPro3
<1>11. ASSUME NEW o \in D.named PROVE \E k \in Targets(M) : o = NameAt(M, k)
  <2>1. o \in D.buttons /\ o \notin Paddles
    BY <1>0 DEF MatchesPro3
  <2>2. PICK i \in 1..22 : o = Sources[i]
    BY <1>10, <2>1
  <2>3. i \in Targets(M) /\ NameAt(M, i) = o
    BY <2>1, <2>2, PaddlesAre, OnlyIs DEF Targets, Numbered, NameAt
  <2> QED
    BY <2>3
<1>12. ASSUME NEW o \in Extras(D, M) PROVE \E k \in Targets(M) : o = NameAt(M, k)
  <2>1. PICK i \in 1..Only(M) : o = OnlyName(M, i)
    BY <1>7
  <2>2. PICK n \in Nat : n = Only(M)
    BY OnlyIs
  <2>3. PICK k \in Int : k = 22 + i /\ k - 22 = i /\ k \in 1..(22 + n) /\ k > 22
    BY <2>2
  <2>4. k \in Targets(M) /\ NameAt(M, k) = o
    BY <2>1, <2>2, <2>3 DEF Targets, Numbered, NameAt
  <2> QED
    BY <2>4
<1> QED
  BY <1>1, <1>7, <1>8, <1>10, <1>11, <1>12

\* A button at its default is its own, disabled or one of the other outputs.
LEMMA Pro3DefaultOutput ==
  ASSUME NEW M \in Modes, NEW b \in 1..22,
         NEW code, code = IF M = "switch" /\ Sources[b] = "turbo" THEN Screenshot ELSE EntryOf(M, Sources[b]).code
  PROVE  \/ Target(M, Sources[b], code) = Disabled /\ b # 14
         \/ Target(M, Sources[b], code) = Sources[b] /\ Sources[b] \notin Paddles
         \/ b # 14 /\ \E i \in 1..Only(M) : Target(M, Sources[b], code) = OnlyName(M, i)
<1>1. PICK source, own : source = Sources[b] /\ own = EntryOf(M, source)
  OBVIOUS
<1>2. b \in Numbered(M) /\ source = NameAt(M, b)
  BY <1>1, OnlyIs DEF Numbered, NameAt
<1>3. own.code = CodeAt(M, b) /\ own.code # Null
  BY <1>1, <1>2, EntryOfIs, EntryIs, NoCodeIsNull DEF EntryCode
<1>4. ASSUME NEW i \in 1..Only(M), code = OnlyCode(M, i), b # 14
      PROVE  Target(M, source, code) = OnlyName(M, i)
  <2>1. PICK n \in Nat : n = Only(M)
    BY OnlyIs
  <2>2. PICK k \in Int : k = 22 + i /\ k - 22 = i /\ k \in 1..(22 + n) /\ k > 22
    BY <2>1
  <2>3. k \in Targets(M) /\ k \in Numbered(M) /\ NameAt(M, k) = OnlyName(M, i)
    BY <2>1, <2>2 DEF Targets, Numbered, NameAt
  <2>4. Pro3CodeOf(M, NameAt(M, k)) = code
    BY <1>4, <2>2, <2>3, CodeOfIs DEF EntryCode, EntryVariant
  <2>5. Target(M, Sources[b], Pro3CodeOf(M, NameAt(M, k))) = NameAt(M, k)
    BY <1>4, <2>3, TargetOfCode
  <2> QED
    BY <1>1, <2>3, <2>4, <2>5
<1>5. CASE b = 14
  <2>1. source = "home/guide" /\ source \notin Paddles
    BY <1>1, <1>5, PaddlesAre
  <2> QED
    BY <1>1, <2>1 DEF Target
<1>6. CASE M = "switch" /\ source = "turbo"
  <2>1. b = 13
    BY <1>1, <1>6, PaddlesAre
  <2>3. Only(M) = 1 /\ 1 \in 1..Only(M)
    BY <1>6 DEF Only
  <2>4. OnlyCode(M, 1) = code
    BY <1>1, <1>6 DEF OnlyCode
  <2>5. b # 14
    BY <2>1
  <2>2. Target(M, source, code) = OnlyName(M, 1)
    BY <1>4, <2>3, <2>4, <2>5
  <2> QED
    BY <1>1, <2>2, <2>3, <2>5
<1>7. CASE b # 14 /\ ~(M = "switch" /\ source = "turbo")
  <2>1. code = own.code /\ source # "home/guide" /\ code # Null
    BY <1>1, <1>3, <1>7, PaddlesAre
  <2>2. CASE source \notin Paddles
    BY <1>1, <2>1, <2>2, Zenon DEF Target
  <2>3. CASE source \in Paddles /\ ~IsOutputOnly(M, code)
    BY <1>1, <1>7, <2>1, <2>3, Zenon DEF Target
  <2>4. CASE source \in Paddles /\ IsOutputOnly(M, code)
    <3>1. PICK i \in 1..Only(M) : OnlyCode(M, i) = code
      BY <2>4, OnlyOutputIs
    <3>2. Target(M, source, code) = OnlyName(M, i)
      BY <1>4, <1>7, <3>1
    <3> QED
      BY <1>1, <1>7, <3>2
  <2> QED
    BY <2>2, <2>3, <2>4
<1> QED
  BY <1>1, <1>5, <1>6, <1>7

\* The mode has all the groups of its codec's profile.
Complete(D, M) == {GroupOf(f) : f \in Fields(D, M)} \subseteq Groups(D, M)

LEMMA DefaultNumbersFit ==
  ASSUME NEW D, Matches(D), IsDescription(D), NEW M \in DOMAIN D.modes, NEW f \in Numbers(D, M)
  PROVE  f \in DOMAIN New(D, M).numbers /\ InRange(D, M, f, New(D, M).numbers[f])
<1>1. f \in Fields(D, M) /\ DOMAIN New(D, M).numbers = Fields(D, M)
  BY NewIs DEF Matches, SettingsMatch
<1>2. D.modes[M].numbers[f] = CodecRange(D, f)
  BY RangeIs
<1>3. CASE D.codec = "pro3"
  <2>1. f \in Pro3Fields(M)
    BY <1>1, <1>3 DEF Fields
  <2>2. PICK x : x = New(D, M).numbers[f]
    OBVIOUS
  <2>3. x = CASE f[2] \in Levels -> 5
              [] f[2] \in Thresholds -> 30
              [] f[2] \in {"left_max_pct", "right_max_pct"} -> 100
              [] OTHER -> IF GroupOf(f) = "sticks" THEN 13 ELSE 0
    BY <1>3, <2>1, <2>2 DEF New, Pro3Default
  <2>4. CASE f[2] \in Levels
    <3>1. GroupOf(f) = "vibration" /\ x = 5
      BY <2>1, <2>3, <2>4 DEF Pro3Fields, GroupOf, Levels, Ends, Thresholds
    <3> QED
      BY <1>1, <1>2, <2>2, <3>1 DEF InRange, CodecRange
  <2>5. CASE f[2] \in Thresholds
    <3>1. GroupOf(f) = "triggers" /\ x = 30
      BY <2>1, <2>3, <2>5 DEF Pro3Fields, GroupOf, Levels, Ends, Thresholds
    <3>2. CodecRange(D, f) = <<0, 90>>
      BY <1>3, <2>5, <3>1 DEF CodecRange, ReadRange
    <3> QED
      BY <1>1, <1>2, <2>2, <3>1, <3>2 DEF InRange
  <2>6. CASE f[2] \in {"left_max_pct", "right_max_pct"}
    <3>1. GroupOf(f) \in {"sticks", "triggers"} /\ x = 100
      BY <2>1, <2>3, <2>6 DEF Pro3Fields, GroupOf, Levels, Ends, Thresholds
    <3>2. CodecRange(D, f) \in {<<10, 100>>, <<0, 100>>}
      BY <1>3, <2>6, <3>1 DEF CodecRange, ReadRange, Thresholds
    <3> QED
      BY <1>1, <1>2, <2>2, <3>1, <3>2 DEF InRange
  <2>7. CASE f[2] \in {"left_min_pct", "right_min_pct"}
    <3>1. GroupOf(f) \in {"sticks", "triggers"} /\ x = IF GroupOf(f) = "sticks" THEN 13 ELSE 0
      BY <2>1, <2>3, <2>7 DEF Pro3Fields, GroupOf, Levels, Ends, Thresholds
    <3>2. CodecRange(D, f) = IF GroupOf(f) = "sticks" THEN <<0, 90>> ELSE <<0, 100>>
      BY <1>3, <2>7, <3>1 DEF CodecRange, ReadRange, Thresholds
    <3> QED
      BY <1>1, <1>2, <2>2, <3>1, <3>2 DEF InRange
  <2>8. f[2] \in Levels \cup Thresholds \cup Ends
    BY <2>1 DEF Pro3Fields
  <2> QED
    BY <2>4, <2>5, <2>6, <2>7, <2>8 DEF Ends
<1>4. CASE D.codec = "ultimate"
  <2>1. f \in UltimateFields
    BY <1>1, <1>4 DEF Fields
  <2>2. PICK start \in 0..100 : start = D.modes[M].start
    BY DEF IsDescription, DefaultsFit
  <2>3. PICK x : x = New(D, M).numbers[f]
    OBVIOUS
  <2>4. x = CASE GroupOf(f) = "vibration" -> 5
              [] f[2] \in {"left_max_pct", "right_max_pct"} -> 100
              [] OTHER -> IF GroupOf(f) = "triggers" THEN start ELSE 0
    BY <1>4, <2>1, <2>2, <2>3 DEF New, UltimateDefault
  <2>5. CASE GroupOf(f) = "vibration"
    <3>0. f[2] \notin {"left_max_pct", "right_max_pct"}
      BY <2>1, <2>5, UltimateFieldIs DEF Levels
    <3>1. x = 5
      BY <2>4, <2>5, <3>0
    <3>2. CodecRange(D, f) = <<0, 5>>
      BY <2>5 DEF CodecRange
    <3> QED
      BY <1>1, <1>2, <2>3, <3>1, <3>2 DEF InRange
  <2>6. CASE GroupOf(f) # "vibration"
    <3>1. CodecRange(D, f) = <<0, 100>>
      BY <1>4, <2>6 DEF CodecRange
    <3>2. x \in {0, 100, start}
      BY <2>4, <2>6
    <3> QED
      BY <1>1, <1>2, <2>3, <3>1, <3>2 DEF InRange
  <2> QED
    BY <2>5, <2>6
<1> QED
  BY <1>3, <1>4 DEF Matches

LEMMA DefaultMapIsValid ==
  ASSUME NEW D, Matches(D), IsDescription(D), NEW M \in DOMAIN D.modes
  PROVE  MapIsValid(D, M, New(D, M).map)
<1>0. DOMAIN New(D, M).map = D.buttons
  BY NewIs
<1> SUFFICES ASSUME NEW b \in D.buttons
             PROVE  /\ b \notin D.remappable => New(D, M).map[b] = b
                    /\ New(D, M).map[b] \in {Disabled, Unrecognised} \cup D.named
                                            \cup {e \in Extras(D, M) : Allows(D, M, e, b)}
  BY <1>0 DEF MapIsValid
<1>1. CASE D.codec = "pro3"
  <2>0. "home/guide" \notin D.remappable /\ D.remappable = D.buttons \ {"home/guide"} /\ D.named = D.buttons \ Paddles
    BY <1>1 DEF Matches, MatchesPro3
  <2>1. M \in Modes
    BY <1>1, Pro3Outputs
  <2>2. PICK i \in 1..22 : b = Sources[i]
    BY <1>1, Pro3Outputs
  <2>3. PICK code : code = IF M = "switch" /\ b = "turbo" THEN Screenshot ELSE EntryOf(M, b).code
    OBVIOUS
  <2>4. New(D, M).map[b] = Target(M, b, code)
    BY <1>1, <2>3 DEF New, Pro3Default
  <2>5. \/ Target(M, b, code) = Disabled /\ i # 14
        \/ Target(M, b, code) = b /\ b \notin Paddles
        \/ i # 14 /\ \E n \in 1..Only(M) : Target(M, b, code) = OnlyName(M, n)
    BY <2>1, <2>2, <2>3, Pro3DefaultOutput
  <2>6. b \in D.remappable <=> i # 14
    BY <2>0, <2>2, PaddlesAre
  <2>7. \A n \in 1..Only(M) : OnlyName(M, n) \in Extras(D, M) /\ Allows(D, M, OnlyName(M, n), b)
    BY <1>1, Pro3Outputs DEF Allows
  <2> QED
    BY <2>0, <2>4, <2>5, <2>6, <2>7
<1>2. CASE D.codec = "ultimate"
  <2>1. b \in D.remappable /\ b \in D.named /\ D.outputs \subseteq D.named
    BY <1>2 DEF Matches, MatchesUltimate
  <2>2. New(D, M).map[b] = IF b \in DOMAIN D.modes[M].targets THEN D.modes[M].targets[b] ELSE b
    BY <1>2 DEF New, UltimateDefault
  <2>3. b \in DOMAIN D.modes[M].targets => IsRemap(D, M, b, D.modes[M].targets[b])
    BY DEF IsDescription, DefaultsFit
  <2> QED
    BY <2>1, <2>2, <2>3 DEF IsRemap
<1> QED
  BY <1>1, <1>2 DEF Matches

LEMMA DefaultIsValid ==
  ASSUME NEW D, Matches(D), IsDescription(D), NEW M \in DOMAIN D.modes, Complete(D, M)
  PROVE  IsValid(D, New(D, M))
<1>1. /\ New(D, M).mode = M /\ New(D, M).on = {} /\ DOMAIN New(D, M).numbers = Fields(D, M)
  BY NewIs
<1>2. \A f \in Numbers(D, M) : f \in DOMAIN New(D, M).numbers /\ InRange(D, M, f, New(D, M).numbers[f])
  BY DefaultNumbersFit
<1>3. MapIsValid(D, M, New(D, M).map)
  BY DefaultMapIsValid
<1>4. Clashes(D, M, New(D, M).on) = {}
  BY <1>1 DEF Clashes
<1> QED
  BY <1>1, <1>2, <1>3, <1>4 DEF IsValid, Complete

\* A valid profile may be converted to any mode that has all its groups.
LEMMA ConvertIsValid ==
  ASSUME NEW D, Matches(D), IsDescription(D), NEW p, IsProfile(D, p), IsValid(D, p), NEW from,
         NEW to, IsProfile(D, to), DOMAIN to.numbers = Fields(D, to.mode), to.on = {}, IsValid(D, to),
         Complete(D, to.mode)
  PROVE  IsValid(D, Convert(D, p, from, to))
<1>1. CASE p.mode = to.mode
  BY <1>1 DEF Convert
<1>2. CASE p.mode # to.mode
  <2> DEFINE c == Convert(D, p, from, to)
             n == to.mode
             reset == ResetGroups(D, p.mode, n)
  <2>1. IsProfile(D, c) /\ c.mode = n
    BY ConvertIsProfile
  <2>2. p.mode \in DOMAIN D.modes /\ n \in DOMAIN D.modes
    BY DEF IsProfile
  <2>3. /\ DOMAIN c.map = DOMAIN p.map
        /\ \A b \in DOMAIN p.map : c.map[b] = ConvertedOutput(D, p, from, to, b)
        /\ \A f : f \in DOMAIN c.numbers <=>
              \/ f \in DOMAIN p.numbers /\ GroupOf(f) \in Groups(D, n) \ reset
              \/ f \in DOMAIN to.numbers /\ GroupOf(f) \in reset
        /\ \A f \in DOMAIN p.numbers :
              GroupOf(f) \in Groups(D, n) \ reset => c.numbers[f] = p.numbers[f]
        /\ \A f \in DOMAIN to.numbers : GroupOf(f) \in reset => c.numbers[f] = to.numbers[f]
        /\ \A f : f \in c.on <=>
              \/ f \in p.on /\ GroupOf(f) \in Groups(D, n) \ reset
              \/ f \in to.on /\ GroupOf(f) \in reset
    BY <1>2, ConvertIs
  <2> HIDE DEF c
  <2>4. ASSUME NEW f \in Numbers(D, n) PROVE f \in DOMAIN c.numbers /\ InRange(D, n, f, c.numbers[f])
    <3>1. GroupOf(f) \in Groups(D, n)
      BY DEF Groups, Declared
    <3>2. CASE GroupOf(f) \in reset
      <4>1. f \in DOMAIN to.numbers /\ InRange(D, n, f, to.numbers[f])
        BY DEF IsValid
      <4> QED
        BY <2>3, <3>2, <4>1
    <3>3. CASE GroupOf(f) \notin reset
      <4>1. f \in Numbers(D, p.mode) /\ D.modes[p.mode].numbers[f] = D.modes[n].numbers[f]
        BY <2>2, <3>1, <3>3, StaysOrStarts
      <4>2. f \in DOMAIN p.numbers /\ InRange(D, p.mode, f, p.numbers[f])
        BY <4>1 DEF IsValid
      <4>3. c.numbers[f] = p.numbers[f] /\ f \in DOMAIN c.numbers
        BY <2>3, <3>1, <3>3, <4>2
      <4> QED
        BY <4>1, <4>2, <4>3 DEF InRange
    <3> QED
      BY <3>2, <3>3
  <2>5. {GroupOf(f) : f \in DOMAIN c.numbers} \subseteq Groups(D, n)
    BY <2>1 DEF IsProfile, Complete
  <2>6. ASSUME NEW f \in Flags(D, n), f \in c.on, NEW g \in D.modes[n].flags[f], g \in c.on PROVE FALSE
    <3>1. g \in Flags(D, n)
      BY <2>2 DEF IsDescription, SettingsFit, Flags
    <3>2. f \in p.on /\ g \in p.on /\ GroupOf(f) \in Groups(D, n) \ reset
      BY <2>3, <2>6
    <3>3. f \in Flags(D, p.mode)
      BY <2>2, <3>2, StaysOrStarts
    <3>4. D.modes[p.mode].flags[f] = D.modes[n].flags[f]
      BY <2>2, <3>3 DEF Matches, SettingsMatch
    <3> QED
      BY <3>2, <3>3, <3>4 DEF IsValid, Clashes
  <2>7. Clashes(D, n, c.on) = {}
    BY <2>6 DEF Clashes
  <2>8. ASSUME NEW b \in DOMAIN p.map
        PROVE  /\ b \in D.buttons
               /\ b \notin D.remappable => c.map[b] = b
               /\ c.map[b] \in {Disabled, Unrecognised} \cup D.named
                                \cup {e \in Extras(D, n) : Allows(D, n, e, b)}
    <3>1. /\ b \in D.buttons
          /\ b \notin D.remappable => p.map[b] = b
          /\ p.map[b] \in {Disabled, Unrecognised} \cup D.named \cup Extras(D, p.mode)
      BY DEF IsValid, MapIsValid
    <3>2. Extras(D, p.mode) \cap D.buttons = {}
      BY <2>2 DEF IsDescription, ExtrasFit, Extras
    <3>3. CASE AtDefault(p, from, to, b)
      <4>1. c.map[b] = to.map[b] /\ b \in DOMAIN to.map
        BY <2>3, <3>3 DEF ConvertedOutput, AtDefault
      <4> QED
        BY <4>1 DEF IsValid, MapIsValid
    <3>4. CASE ~AtDefault(p, from, to, b) /\ Exists(D, n, p.map[b], b)
      <4>1. c.map[b] = p.map[b]
        BY <2>3, <3>4 DEF ConvertedOutput
      <4>2. p.map[b] \in {Disabled} \cup D.buttons \cup {e \in Extras(D, n) : Allows(D, n, e, b)}
        BY <3>4 DEF Exists
      <4> QED
        BY <3>1, <3>2, <4>1, <4>2
    <3>5. CASE ~AtDefault(p, from, to, b) /\ ~Exists(D, n, p.map[b], b)
      <4>1. c.map[b] = Disabled
        BY <2>3, <3>5 DEF ConvertedOutput
      <4>2. b \in D.remappable
        BY <3>1, <3>5 DEF Exists
      <4> QED
        BY <3>1, <4>1, <4>2
    <3> QED
      BY <3>3, <3>4, <3>5
  <2>9. MapIsValid(D, n, c.map)
    BY <2>3, <2>8 DEF MapIsValid
  <2> QED
    BY <2>1, <2>4, <2>5, <2>7, <2>9 DEF IsValid, c
<1> QED
  BY <1>1, <1>2

\* The codec takes a valid profile that has all numbers, or it lacks an output.
LEMMA ValidIsTaken ==
  ASSUME NEW D, Matches(D), IsDescription(D), NEW M \in DOMAIN D.modes, Complete(D, M),
         NEW s, IsSlot(D, s), NEW p, IsProfile(D, p), p.mode = M, IsValid(D, p)
  PROVE  \/ Takes(D, p, s)
         \/ \E b \in DOMAIN p.map :
              \/ p.map[b] = Unrecognised /\ (s.active => Read(D, M, s).map[b] # Unrecognised)
              \/ p.map[b] \in D.buttons \ D.outputs /\ D.codec # "pro3"
<1>1. Fields(D, M) \subseteq DOMAIN p.numbers
  BY DEF IsProfile, Complete
<1>2. \A b \in DOMAIN p.map :
        /\ b \in D.buttons /\ b \in DOMAIN s.map
        /\ p.map[b] \in {Disabled, Unrecognised} \cup D.named \cup Extras(D, M)
  BY DEF IsValid, MapIsValid, IsSlot
<1>3. CASE D.codec = "pro3"
  <2>1. ASSUME NEW b \in DOMAIN p.map, ~CanCompile(M, b, s.map[b], p.map[b])
        PROVE  p.map[b] = Unrecognised /\ Read(D, M, s).map[b] # Unrecognised
    <3>1. Target(M, b, s.map[b]) # p.map[b] /\ p.map[b] \notin {Disabled} \cup Names(M)
      BY <2>1 DEF CanCompile, EntryKept
    <3>2. Read(D, M, s).map[b] = Target(M, b, s.map[b])
      BY <1>2, <1>3, ReadMapIs
    <3>3. ASSUME NEW o \in D.named \cup Extras(D, M) PROVE o \in Names(M)
      <4>1. PICK k \in Targets(M) : o = NameAt(M, k)
        BY <1>3, Pro3Outputs
      <4>2. k \in Numbered(M) /\ M \in Modes
        BY <1>3, Pro3Outputs DEF Targets
      <4>3. k \in DOMAIN Entries[M] /\ Entries[M][k].name = o
        BY <4>1, <4>2, EntryIs
      <4> QED
        BY <4>3 DEF Names
    <3>4. p.map[b] = Unrecognised
      BY <1>2, <3>1, <3>3
    <3> QED
      BY <3>1, <3>2, <3>4
  <2>2. Takes(D, p, s) <=> /\ Pro3Fields(M) \subseteq DOMAIN p.numbers
                           /\ \A b \in DOMAIN p.map : CanCompile(M, b, s.map[b], p.map[b])
    BY <1>3 DEF Takes, Pro3Compiles
  <2> QED
    BY <1>1, <1>3, <2>1, <2>2 DEF Fields
<1>4. CASE D.codec = "ultimate"
  <2>0. MatchesUltimate(D) /\ D.codec # "pro3"
    BY <1>4 DEF Matches
  <2>1. /\ D.outputs \cup Extras(D, M) \subseteq DOMAIN D.codes[M] /\ Unrecognised \notin DOMAIN D.codes[M]
        /\ D.named = D.buttons /\ Unrecognised \notin D.buttons
    BY <2>0 DEF MatchesUltimate
  <2>2. ASSUME NEW b \in DOMAIN p.map PROVE Read(D, M, s).map[b] # Unrecognised
    <3>1. CASE "map" \in s.used
      <4>1. PICK code, named : /\ code = s.map[b]
                               /\ named = {o \in DOMAIN D.codes[M] : D.codes[M][o] = code}
        OBVIOUS
      <4>2. Read(D, M, s).map[b] = OutputOfCode(D, M, code)
        BY <1>2, <1>4, <3>1, <4>1, ReadMapIs
      <4>3. OutputOfCode(D, M, code) = IF named = {} THEN Disabled ELSE CHOOSE o \in named : TRUE
        BY <4>1 DEF OutputOfCode
      <4>4. named # {} => (CHOOSE o \in named : TRUE) \in named
        OBVIOUS
      <4>5. Disabled # Unrecognised
        BY DEF Disabled, Unrecognised
      <4> QED
        BY <2>1, <4>1, <4>2, <4>3, <4>4, <4>5
    <3>2. CASE "map" \notin s.used
      <4>1. Read(D, M, s).map[b] = New(D, M).map[b]
        BY <1>2, <1>4, <3>2 DEF Read, UltimateDecode, New
      <4>2. New(D, M).map[b] = IF b \in DOMAIN D.modes[M].targets THEN D.modes[M].targets[b] ELSE b
        BY <1>2, <1>4 DEF New, UltimateDefault
      <4>3. b \in DOMAIN D.modes[M].targets =>
              D.modes[M].targets[b] \in {Disabled, b} \cup D.outputs \cup Extras(D, M)
        BY DEF IsDescription, DefaultsFit, IsRemap
      <4>4. Disabled # Unrecognised
        BY DEF Disabled, Unrecognised
      <4> QED
        BY <1>2, <2>1, <4>1, <4>2, <4>3, <4>4
    <3> QED
      BY <3>1, <3>2
  <2>3. ASSUME NEW b \in DOMAIN p.map, p.map[b] \notin {Disabled} \cup DOMAIN D.codes[M]
        PROVE  p.map[b] = Unrecognised \/ p.map[b] \in D.buttons \ D.outputs
    BY <1>2, <2>1, <2>3
  <2>4. Takes(D, p, s) <=> /\ UltimateFields \subseteq DOMAIN p.numbers
                           /\ \A b \in DOMAIN p.map : p.map[b] \in {Disabled} \cup DOMAIN D.codes[M]
    BY <1>4 DEF Takes, UltimateCompiles
  <2> QED
    BY <1>1, <1>4, <2>0, <2>2, <2>3, <2>4 DEF Fields
<1> QED
  BY <1>3, <1>4 DEF Matches

LEMMA ValidIsAccepted ==
  ASSUME Inv, DeclaresAll, NEW s, IsSlot(d, s), NEW p, IsProfile(d, p), p.mode = mode, IsValid(d, p)
  PROVE  IsAccepted(p, s)
<1>1. PICK D, M : D = d /\ M = mode
  OBVIOUS
<1>2. Matches(D) /\ IsDescription(D) /\ M \in DOMAIN D.modes /\ Complete(D, M)
  BY <1>1, DescriptionIs DEF DeclaresAll, Complete
<1>3. \/ Takes(D, p, s)
      \/ \E b \in DOMAIN p.map :
           \/ p.map[b] = Unrecognised /\ (s.active => Read(D, M, s).map[b] # Unrecognised)
           \/ p.map[b] \in D.buttons \ D.outputs /\ D.codec # "pro3"
  BY <1>1, <1>2, ValidIsTaken
<1>4. Compiles(p, s) <=> Takes(D, p, s)
  BY <1>1, OfCodec
<1>5. Decode(s) = Read(D, M, s)
  BY <1>1, OfCodec
<1>6. IsPro3 <=> D.codec = "pro3"
  BY <1>1 DEF IsPro3
<1>7. Compiles(p, s) \/ LacksOutput(p, s)
  BY <1>1, <1>3, <1>4, <1>5, <1>6 DEF LacksOutput
<1> QED
  BY <1>7 DEF IsAccepted

-------------------------------------------------------------------------------
(***************************************************************************)
(* Edits keep a profile valid.                                             *)
(***************************************************************************)
LEMMA NumberKeepsValid ==
  ASSUME NEW D, Matches(D), NEW p, IsProfile(D, p), IsValid(D, p), NEW f \in Numbers(D, p.mode),
         f \in DOMAIN p.numbers, NEW v \in Int
  PROVE  IsValid(D, WithNumber(D, p, f, v))
<1> DEFINE q == WithNumber(D, p, f, v)
<1>1. /\ q.mode = p.mode /\ q.map = p.map /\ q.on = p.on /\ DOMAIN q.numbers = DOMAIN p.numbers
      /\ q.numbers[f] = Clamped(D.modes[p.mode].numbers[f], v)
      /\ \A g \in DOMAIN p.numbers \ {f} : q.numbers[g] = p.numbers[g]
  BY WithNumberIs
<1>2. PICK m \in DOMAIN D.modes : m = p.mode
  BY DEF IsProfile
<1>3. InRange(D, m, f, Clamped(D.modes[m].numbers[f], v))
  BY <1>2, NumberIsClamped
<1>4. \A g \in Numbers(D, m) : g \in DOMAIN q.numbers /\ InRange(D, m, g, q.numbers[g])
  BY <1>1, <1>2, <1>3 DEF IsValid
<1> HIDE DEF q
<1>5. IsValid(D, q)
  BY <1>1, <1>2, <1>4 DEF IsValid
<1> QED
  BY <1>5 DEF q

LEMMA FlagKeepsValid ==
  ASSUME NEW D, IsDescription(D), NEW p, IsProfile(D, p), IsValid(D, p), NEW f \in Flags(D, p.mode),
         NEW on \in BOOLEAN
  PROVE  IsValid(D, WithFlag(D, p, f, on))
<1> DEFINE q == WithFlag(D, p, f, on)
<1>1. /\ q.mode = p.mode /\ q.map = p.map /\ q.numbers = p.numbers
      /\ on => \A g : g \in q.on <=> (g \in p.on \/ g = f) /\ g \notin ExcludedBy(D, p.mode, f)
      /\ ~on => \A g : g \in q.on <=> g \in p.on /\ g # f
  BY WithFlagIs
<1> HIDE DEF q
<1>2. ASSUME NEW g \in Flags(D, p.mode), g \in q.on, NEW h \in D.modes[p.mode].flags[g], h \in q.on
      PROVE  FALSE
  <2>1. ~(g \in p.on /\ h \in p.on)
    BY <1>2 DEF IsValid, Clashes
  <2>2. on /\ (g = f \/ h = f)
    BY <1>1, <1>2, <2>1
  <2>3. g \notin ExcludedBy(D, p.mode, f) /\ h \notin ExcludedBy(D, p.mode, f)
    BY <1>1, <1>2, <2>2
  <2> QED
    BY <1>2, <2>2, <2>3 DEF ExcludedBy
<1>3. Clashes(D, p.mode, q.on) = {}
  BY <1>2 DEF Clashes
<1>4. IsValid(D, q)
  BY <1>1, <1>3 DEF IsValid
<1> QED
  BY <1>4 DEF q

LEMMA OutputKeepsValid ==
  ASSUME NEW D, Matches(D), NEW p, IsProfile(D, p), IsValid(D, p),
         NEW default, DOMAIN default.map = D.buttons, MapIsValid(D, p.mode, default.map),
         NEW b \in D.remappable, NEW t \in Choices(D, p, default, b), t # OutputOf(p, b)
  PROVE  IsValid(D, WithOutput(p, b, t))
<1> DEFINE q == WithOutput(p, b, t)
<1>0. b \in D.buttons
  BY RemappableIs
<1>1. /\ q.mode = p.mode /\ q.numbers = p.numbers /\ q.on = p.on
      /\ DOMAIN q.map = DOMAIN p.map \cup {b} /\ q.map[b] = t
      /\ \A c \in DOMAIN p.map \ {b} : q.map[c] = p.map[c]
  BY <1>0, WithOutputIs
<1> HIDE DEF q
<1>2. t \in {Disabled, Unrecognised} \cup D.named \cup {e \in Extras(D, p.mode) : Allows(D, p.mode, e, b)}
  <2>1. OutputOf(default, b) = default.map[b]
    BY <1>0 DEF OutputOf
  <2>2. default.map[b] \in {Disabled, Unrecognised} \cup D.named
                           \cup {e \in Extras(D, p.mode) : Allows(D, p.mode, e, b)}
    BY <1>0 DEF MapIsValid
  <2>3. D.outputs \subseteq D.named
    BY DEF Matches
  <2> QED
    BY <2>1, <2>2, <2>3 DEF Choices
<1>3. MapIsValid(D, p.mode, q.map)
  <2> SUFFICES ASSUME NEW c \in DOMAIN q.map
               PROVE  /\ c \in D.buttons
                      /\ c \notin D.remappable => q.map[c] = c
                      /\ q.map[c] \in {Disabled, Unrecognised} \cup D.named
                                      \cup {e \in Extras(D, p.mode) : Allows(D, p.mode, e, c)}
    BY DEF MapIsValid
  <2>1. CASE c = b
    BY <1>0, <1>1, <1>2, <2>1
  <2>2. CASE c # b
    BY <1>1, <2>2 DEF IsValid, MapIsValid
  <2> QED
    BY <2>1, <2>2
<1>4. IsValid(D, q)
  BY <1>1, <1>3 DEF IsValid
<1> QED
  BY <1>4 DEF q

\* What is shown and what the steps of an edit make of it are valid.
LEMMA DefaultIsAccepted ==
  ASSUME Inv, DeclaresAll, NEW m, m = mode
  PROVE  IsValid(d, DefaultOf(m)) /\ MapIsValid(d, m, DefaultOf(m).map)
<1>1. PICK D : D = d
  OBVIOUS
<1>2. Matches(D) /\ IsDescription(D) /\ m \in DOMAIN D.modes /\ Complete(D, m)
  BY <1>1, DescriptionIs DEF DeclaresAll, Complete
<1>3. IsValid(D, New(D, m)) /\ MapIsValid(D, m, New(D, m).map)
  BY <1>2, DefaultIsValid, DefaultMapIsValid
<1>4. DefaultOf(m) = New(d, m)
  BY OfCodec
<1> QED
  BY <1>1, <1>3, <1>4

LEMMA EditIsValid ==
  ASSUME Inv, DeclaresAll, SetNumber \/ SetFlag \/ SetOutput, IsValid(d, Shown)
  PROVE  IsValid(d, edited') /\ stored' = stored
<1>1. PICK D, p : D = d /\ p = Shown
  OBVIOUS
<1>2. Shown # Nothing
  BY DEF SetNumber, SetFlag, SetOutput
<1>3. Matches(D) /\ IsDescription(D) /\ IsProfile(D, p) /\ p.mode = mode /\ IsValid(D, p)
  BY <1>1, <1>2, DescriptionIs, ShownIs
<1>4. CASE SetNumber
  <2>1. PICK f \in Numbers(d, mode), v \in Values :
          f \in DOMAIN Shown.numbers /\ Edit(WithNumber(d, Shown, f, v))
    BY <1>4, SetNumberIs
  <2>2. IsValid(D, WithNumber(D, p, f, v))
    <3>1. f \in Numbers(D, p.mode) /\ f \in DOMAIN p.numbers /\ v \in Int
      BY <1>1, <1>3, <2>1, SettingsAssumption
    <3> QED
      BY <1>3, <3>1, NumberKeepsValid
  <2> QED
    BY <1>1, <2>1, <2>2 DEF Edit
<1>5. CASE SetFlag
  <2>1. PICK f \in Flags(d, mode), on \in BOOLEAN : Edit(WithFlag(d, Shown, f, on))
    BY <1>5, SetFlagIs
  <2>2. IsValid(D, WithFlag(D, p, f, on))
    <3>1. f \in Flags(D, p.mode)
      BY <1>1, <1>3, <2>1
    <3> QED
      BY <1>3, <3>1, FlagKeepsValid
  <2> QED
    BY <1>1, <2>1, <2>2 DEF Edit
<1>6. CASE SetOutput
  <2>0. PICK default : default = DefaultOf(mode)
    OBVIOUS
  <2>1. PICK b \in d.remappable : \E t \in Choices(d, Shown, DefaultOf(mode), b) \ {OutputOf(Shown, b), Unrecognised} :
          Edit(WithOutput(Shown, b, t))
    BY <1>6, SetOutputIs
  <2>2. PICK t \in Choices(d, Shown, DefaultOf(mode), b) \ {OutputOf(Shown, b), Unrecognised} :
          Edit(WithOutput(Shown, b, t))
    BY <2>1
  <2>3. DOMAIN default.map = D.buttons /\ MapIsValid(D, p.mode, default.map)
    <3>1. mode \in DOMAIN d.modes
      BY DescriptionIs
    <3>2. DOMAIN DefaultOf(mode).map = d.buttons /\ MapIsValid(d, mode, DefaultOf(mode).map)
      BY <3>1, DefaultIs, DefaultIsAccepted
    <3> QED
      BY <1>1, <1>3, <2>0, <3>2
  <2>4. b \in D.remappable /\ t \in Choices(D, p, default, b) /\ t # OutputOf(p, b)
    BY <1>1, <2>0, <2>1, <2>2
  <2>5. IsValid(D, WithOutput(p, b, t))
    BY <1>3, <2>3, <2>4, OutputKeepsValid
  <2> QED
    BY <1>1, <2>2, <2>5 DEF Edit
<1>7. stored' = stored
  BY DEF SetNumber, SetFlag, SetOutput, Edit
<1> QED
  BY <1>4, <1>5, <1>6, <1>7

LEMMA ImportIsValid ==
  ASSUME Inv, DeclaresAll, Import
  PROVE  IsValid(d, edited')
<1>1. PICK file \in tab.files :
        IsValid(d, file) /\ edited' = Convert(d, file, DefaultOf(file.mode), DefaultOf(mode))
  BY DEF Import
<1>2. PICK D, from, to : D = d /\ from = DefaultOf(file.mode) /\ to = DefaultOf(mode)
  OBVIOUS
<1>3. /\ Matches(D) /\ IsDescription(D) /\ IsProfile(D, file) /\ IsValid(D, file)
      /\ IsProfile(D, to) /\ to.mode = mode /\ to.on = {} /\ DOMAIN to.numbers = Fields(D, to.mode)
      /\ IsValid(D, to) /\ Complete(D, to.mode)
  <2>1. Matches(D) /\ IsDescription(D) /\ IsProfile(D, file) /\ IsValid(D, file)
    BY <1>1, <1>2, DescriptionIs DEF Inv
  <2>2. IsProfile(D, to) /\ to.mode = mode /\ to.on = {} /\ DOMAIN to.numbers = Fields(D, to.mode)
    BY <1>2, DescriptionIs, DefaultIs
  <2>3. IsValid(D, to)
    BY <1>2, DefaultIsAccepted
  <2> QED
    BY <1>2, <2>1, <2>2, <2>3 DEF DeclaresAll, Complete
<1>4. IsValid(D, Convert(D, file, from, to))
  BY <1>3, ConvertIsValid
<1> QED
  BY <1>1, <1>2, <1>4

LEMMA EditsAreAcceptedStep ==
  ASSUME Inv, [Next]_settingsVars, DeclaresAll, edited' # Nothing,
         Shown = Nothing \/ IsValid(d, Shown) \/ (said' # Nothing /\ said'.op = "import")
  PROVE  IsAccepted(edited', stored')
<1>1. Inv' /\ d' = d /\ mode' = mode
  <2>1. Inv'
    BY StepInv
  <2>2. UNCHANGED <<model, mode>>
    BY DEF Next, settingsVars, SetNumber, SetFlag, SetOutput, StartFromDefault, Edit, Import, Discard,
           Write, Remap, Patch, Command, Store
  <2> QED
    BY <2>1, <2>2 DEF d
<1>2. IsValid(d, edited')
  <2>1. CASE SetNumber \/ SetFlag \/ SetOutput
    <3>1. Shown # Nothing /\ said' = Nothing
      BY <2>1 DEF SetNumber, SetFlag, SetOutput, Edit
    <3>2. IsValid(d, Shown)
      BY <3>1
    <3> QED
      BY <2>1, <3>2, EditIsValid
  <2>2. CASE StartFromDefault
    <3>1. edited' = DefaultOf(mode)
      BY <2>2 DEF StartFromDefault, Edit
    <3> QED
      BY <3>1, DefaultIsAccepted
  <2>3. CASE Import
    BY <2>3, ImportIsValid
  <2>4. CASE Discard
    BY <2>4 DEF Discard
  <2>5. CASE Write
    BY <2>5 DEF Write
  <2>6. CASE Remap \/ Patch
    <3>1. edited' = edited
      BY <2>6 DEF Remap, Patch, Command
    <3>2. said' # Nothing => said'.op # "import"
      <4>1. CASE Remap
        BY <4>1, RemapIs DEF Store, Said
      <4>2. CASE Patch
        <5>1. \E p : Store("patch", p)
          BY <4>2, PatchIs
        <5> QED
          BY <5>1 DEF Store, Said
      <4> QED
        BY <2>6, <4>1, <4>2
    <3>3. Shown = edited /\ Shown # Nothing
      BY <3>1 DEF Shown
    <3>4. IsValid(d, Shown)
      BY <3>2, <3>3
    <3> QED
      BY <3>1, <3>3, <3>4
  <2>7. CASE UNCHANGED settingsVars
    <3>1. edited' = edited /\ said' = said
      BY <2>7 DEF settingsVars
    <3>2. Shown = edited /\ Shown # Nothing
      BY <3>1 DEF Shown
    <3>3. CASE said # Nothing /\ said.op = "import"
      <4>1. PICK file : file = said.asked
        OBVIOUS
      <4>2. PICK D, from, to : D = d /\ from = DefaultOf(file.mode) /\ to = DefaultOf(mode)
        OBVIOUS
      <4>3. IsProfile(D, file) /\ IsValid(D, file) /\ edited = Convert(D, file, from, to)
        BY <3>3, <4>1, <4>2 DEF Inv, Imported
      <4>4. /\ Matches(D) /\ IsDescription(D) /\ IsProfile(D, to) /\ to.mode = mode /\ to.on = {}
            /\ DOMAIN to.numbers = Fields(D, to.mode)
        BY <4>2, DescriptionIs, DefaultIs
      <4>5. IsValid(D, to) /\ Complete(D, to.mode)
        BY <4>2, <4>4, DefaultIsAccepted DEF DeclaresAll, Complete
      <4>6. IsValid(D, Convert(D, file, from, to))
        BY <4>3, <4>4, <4>5, ConvertIsValid
      <4> QED
        BY <3>1, <4>2, <4>3, <4>6
    <3>4. CASE ~(said # Nothing /\ said.op = "import")
      <4>1. IsValid(d, Shown)
        BY <3>1, <3>2, <3>4
      <4> QED
        BY <3>1, <3>2, <4>1
    <3> QED
      BY <3>3, <3>4
  <2> QED
    BY <2>1, <2>2, <2>3, <2>4, <2>5, <2>6, <2>7 DEF Next
<1>3. IsSlot(d, stored') /\ IsProfile(d, edited') /\ edited'.mode = mode
  BY <1>1 DEF Inv
<1> QED
  BY <1>2, <1>3, ValidIsAccepted

\* EditsAreAccepted: what the GUI lets a user make of a valid profile, a new profile and an
\* import are valid, and the codec takes them, wherever the mode declares every group
\* that its codec's profile has.
THEOREM EditsAreAcceptedHolds == SettingsSpec => EditsAreAccepted
<1>1. Inv /\ [Next]_settingsVars =>
        [DeclaresAll /\ edited' # Nothing
          /\ (Shown = Nothing \/ IsValid(d, Shown) \/ (said' # Nothing /\ said'.op = "import"))
         => IsAccepted(edited', stored')]_settingsVars
  BY EditsAreAcceptedStep
<1> QED
  BY <1>1, InvHolds, PTL DEF SettingsSpec, EditsAreAccepted

-------------------------------------------------------------------------------
(***************************************************************************)
(* What is written reads as it was asked.                                  *)
(***************************************************************************)
\* A percent that is encoded, or that the raw value it is laid over stands for, comes
\* back.
LEMMA Pro3PercentComesBack ==
  ASSUME NEW x \in Int, x \in 0..100, NEW max \in Int, max \in {128, 255}, NEW base \in Int
  PROVE  Pro3Percent(Pro3KeepOrEncode(base, x, max), max) = x
<1>1. CASE Pro3Percent(base, max) = x
  BY <1>1 DEF Pro3KeepOrEncode
<1>2. CASE Pro3Percent(base, max) # x
  <2>1. PICK r \in Int : r = Pro3Raw(x, max)
    BY DEF Pro3Raw
  <2>2. Pro3Percent(r, max) = x
    <3>1. CASE max = 128
      BY <2>1, <3>1 DEF Pro3Raw, Pro3Percent
    <3>2. CASE max = 255
      BY <2>1, <3>2 DEF Pro3Raw, Pro3Percent
    <3> QED
      BY <3>1, <3>2
  <2> QED
    BY <1>2, <2>1, <2>2 DEF Pro3KeepOrEncode
<1> QED
  BY <1>1, <1>2

LEMMA UltimatePercentComesBack ==
  ASSUME NEW x \in Int, NEW max \in Int, max \in {128, 255}, NEW base \in Int,
         x \in 0..100 \/ UltimatePercent(base, max) = x
  PROVE  UltimatePercent(UltimateKeepOrEncode(base, x, max), max) = x
<1>1. CASE UltimatePercent(base, max) = x
  BY <1>1 DEF UltimateKeepOrEncode
<1>2. CASE UltimatePercent(base, max) # x
  <2>1. PICK r \in Int : r = UltimateRaw(x, max)
    BY DEF UltimateRaw
  <2>2. UltimatePercent(r, max) = x
    <3>1. CASE max = 128
      BY <1>2, <2>1, <3>1 DEF UltimateRaw, UltimatePercent
    <3>2. CASE max = 255
      BY <1>2, <2>1, <3>2 DEF UltimateRaw, UltimatePercent
    <3> QED
      BY <3>1, <3>2
  <2> QED
    BY <1>2, <2>1, <2>2 DEF UltimateKeepOrEncode
<1> QED
  BY <1>1, <1>2

LEMMA LevelComesBack ==
  ASSUME NEW x \in Int, x \in 0..5, NEW base \in Int
  PROVE  /\ Level(Strength(Clamped(<<0, 5>>, x))) = x
         /\ Level(KeepOrStrengthen(base, x)) = x
<1>1. Clamped(<<0, 5>>, x) = x
  BY ClampedIs
<1>2. PICK r \in Int : r = Strength(x)
  BY DEF Strength
<1>3. Level(r) = x
  BY <1>2 DEF Strength, Level, Clamped, NotANumber
<1>4. Level(KeepOrStrengthen(base, x)) = x
  BY <1>2, <1>3 DEF KeepOrStrengthen
<1> QED
  BY <1>1, <1>2, <1>3, <1>4

\* A Pro 3 shows what is in range.
LEMMA Pro3ShowsInRange ==
  ASSUME NEW M, NEW s, NEW f \in Pro3Fields(M), \A g \in Pro3Fields(M) : s.raw[PlaceOf(g)] \in Int
  PROVE  LET range == IF GroupOf(f) = "vibration" THEN <<0, 5>> ELSE ReadRange(f)
         IN  /\ Pro3Number(s, f) \in Int
             /\ range[1] <= Pro3Number(s, f) /\ Pro3Number(s, f) <= range[2]
<1>0. PICK raw \in Int : raw = s.raw[PlaceOf(f)]
  OBVIOUS
<1>1. CASE GroupOf(f) = "vibration"
  <2>1. Level(raw) \in 0..5
    BY LevelIsInt
  <2>2. Pro3Number(s, f) = Level(raw)
    BY <1>0, <1>1 DEF Pro3Number
  <2> QED
    BY <1>1, <2>1, <2>2
<1>2. CASE GroupOf(f) = "triggers" /\ f[2] \in Ends
  <2>1. ReadRange(f) = <<0, 100>>
    BY <1>2 DEF ReadRange, Ends, Thresholds
  <2>2. Pro3Number(s, f) \in 0..100
    BY Pro3NumberIsInt
  <2> QED
    BY <1>2, <2>1, <2>2
<1>3. CASE GroupOf(f) # "vibration" /\ ~(GroupOf(f) = "triggers" /\ f[2] \in Ends)
  <2>1. PICK pct \in Int : pct = Pro3Percent(raw, RawMax(GroupOf(f)))
    BY RawMaxIs, PercentIsInt
  <2>2. Pro3Number(s, f) = Clamped(ReadRange(f), pct)
    BY <1>0, <1>3, <2>1 DEF Pro3Number, ShownPercent
  <2>3. ASSUME NEW lo \in Int, NEW hi \in Int, lo <= hi, ReadRange(f) = <<lo, hi>>
        PROVE  /\ Pro3Number(s, f) \in Int
               /\ ReadRange(f)[1] <= Pro3Number(s, f) /\ Pro3Number(s, f) <= ReadRange(f)[2]
    <3>1. Clamped(<<lo, hi>>, pct) \in lo..hi
      BY <2>3, ClampedIs
    <3> QED
      BY <2>2, <2>3, <3>1
  <2> QED
    BY <1>3, <2>3, ReadRangeIs
<1> QED
  BY <1>1, <1>2, <1>3

\* A number that is in its range, or is what the slot read as.
IsKnown(D, s, p, f) ==
  \/ InRange(D, p.mode, f, p.numbers[f])
  \/ s.active /\ p.numbers[f] = Read(D, p.mode, s).numbers[f]

\* The percent that a Pro 3 shows of what was written.
LEMMA Pro3ShowsWritten ==
  ASSUME NEW D, Matches(D), D.codec = "pro3", NEW s, IsSlot(D, s), NEW p, IsProfile(D, p),
         Takes(D, p, s), NEW f \in Numbers(D, p.mode), IsKnown(D, s, p, f)
  PROVE  /\ GroupOf(f) = "vibration" => Level(Put(D, p, s).raw[PlaceOf(f)]) = p.numbers[f]
         /\ GroupOf(f) # "vibration" => ShownPercent(Put(D, p, s), f) = p.numbers[f]
<1>0. PICK M \in DOMAIN D.modes : M = p.mode
  BY DEF IsProfile
<1>1. f \in Fields(D, M) /\ f \in Pro3Fields(M) /\ D.modes[M].numbers[f] = CodecRange(D, f)
  BY <1>0, RangeIs DEF Matches, SettingsMatch, Fields
<1>2. f \in DOMAIN p.numbers /\ p.numbers[f] \in Int /\ s.raw[PlaceOf(f)] \in Int
  BY <1>0, <1>1, PutRaw
<1>3. PICK x \in Int, base \in Int, max \in Int :
        x = p.numbers[f] /\ base = s.raw[PlaceOf(f)] /\ max = RawMax(GroupOf(f)) /\ max \in {128, 255}
  BY <1>2, RawMaxIs
<1>4. InRange(D, M, f, x)
  <2>1. CASE InRange(D, p.mode, f, p.numbers[f])
    BY <1>0, <1>3, <2>1
  <2>2. CASE p.numbers[f] = Read(D, p.mode, s).numbers[f]
    <3>1. x = Pro3Number(s, f)
      BY <1>0, <1>1, <1>3, <2>2, ReadNumberIs
    <3>2. \A g \in Pro3Fields(M) : s.raw[PlaceOf(g)] \in Int
      <4>1. \A g \in Pro3Fields(M) : PlaceOf(g) \in {PlaceOf(h) : h \in UltimateFields}
        BY PlacesAre
      <4> QED
        BY <4>1 DEF IsSlot
    <3>3. PICK range : range = IF GroupOf(f) = "vibration" THEN <<0, 5>> ELSE ReadRange(f)
      OBVIOUS
    <3>4. range[1] <= Pro3Number(s, f) /\ Pro3Number(s, f) <= range[2]
      BY <1>1, <3>2, <3>3, Pro3ShowsInRange
    <3>5. D.modes[M].numbers[f] = range
      BY <1>1, <3>3 DEF CodecRange
    <3> QED
      BY <3>1, <3>4, <3>5 DEF InRange
  <2> QED
    BY <2>1, <2>2 DEF IsKnown
<1>5. CASE GroupOf(f) = "vibration"
  <2>1. x \in 0..5
    BY <1>1, <1>4, <1>5 DEF CodecRange, InRange
  <2>2. Put(D, p, s).raw[PlaceOf(f)] = Strength(Clamped(<<0, 5>>, x))
    BY <1>0, <1>1, <1>3, <1>5, PutRaw
  <2> QED
    BY <1>3, <1>5, <2>1, <2>2, LevelComesBack
<1>6. CASE GroupOf(f) # "vibration"
  <2>1. D.modes[M].numbers[f] = ReadRange(f)
    BY <1>1, <1>6 DEF CodecRange
  <2>2. Put(D, p, s).raw[PlaceOf(f)] = Pro3KeepOrEncode(base, x, max)
    BY <1>0, <1>1, <1>3, <1>6, PutRaw
  <2>3. ASSUME NEW lo \in 0..10, NEW hi \in 90..100, ReadRange(f) = <<lo, hi>>
        PROVE  x \in 0..100 /\ Clamped(ReadRange(f), x) = x
    <3>1. x \in lo..hi /\ x \in 0..100
      BY <1>4, <2>1, <2>3 DEF InRange
    <3>2. Clamped(<<lo, hi>>, x) = x
      BY <3>1, ClampedIs
    <3> QED
      BY <2>3, <3>1, <3>2
  <2>4. x \in 0..100 /\ Clamped(ReadRange(f), x) = x
    BY <2>3, ReadRangeIs
  <2>5. Pro3Percent(Pro3KeepOrEncode(base, x, max), max) = x
    BY <1>3, <2>4, Pro3PercentComesBack
  <2>6. ShownPercent(Put(D, p, s), f) = x
    BY <1>3, <2>2, <2>4, <2>5 DEF ShownPercent
  <2> QED
    BY <1>3, <1>6, <2>6
<1> QED
  BY <1>5, <1>6

LEMMA NumberComesBack ==
  ASSUME NEW D, Matches(D), IsDescription(D), NEW s, IsSlot(D, s), NEW p, IsProfile(D, p),
         Takes(D, p, s), \A g \in Numbers(D, p.mode) : IsKnown(D, s, p, g), NEW f \in Numbers(D, p.mode)
  PROVE  Read(D, p.mode, Put(D, p, s)).numbers[f] =
           IF D.codec = "pro3" /\ GroupOf(f) = "triggers" /\ f[2] \in Ends
           THEN Turned(f, p.numbers[f], p.numbers[<<f[1], Other[f[2]]>>])
           ELSE p.numbers[f]
<1>0. PICK M \in DOMAIN D.modes : M = p.mode
  BY DEF IsProfile
<1>1. f \in Fields(D, M) /\ D.modes[M].numbers[f] = CodecRange(D, f)
  BY <1>0, RangeIs DEF Matches, SettingsMatch
<1>2. CASE D.codec = "pro3"
  <2>1. f \in Pro3Fields(M) /\ Numbers(D, M) = Pro3Fields(M)
    BY <1>1, <1>2 DEF Matches, MatchesPro3, Fields
  <2>2. PICK new : new = Put(D, p, s)
    OBVIOUS
  <2>3. \A g \in Numbers(D, p.mode) :
          /\ GroupOf(g) = "vibration" => Level(new.raw[PlaceOf(g)]) = p.numbers[g]
          /\ GroupOf(g) # "vibration" => ShownPercent(new, g) = p.numbers[g]
    BY <1>2, <2>2, Pro3ShowsWritten
  <2>4. Read(D, M, new).numbers[f] = Pro3Number(new, f)
    BY <1>1, <1>2, ReadNumberIs
  <2>5. CASE GroupOf(f) = "triggers" /\ f[2] \in Ends
    <3>1. PICK g : g = <<f[1], Other[f[2]]>>
      OBVIOUS
    <3>2. g \in Pro3Fields(M) /\ GroupOf(g) # "vibration"
      BY <2>1, <2>5, <3>1, Pro3FieldIs DEF GroupOf
    <3>3. ShownPercent(new, f) = p.numbers[f] /\ ShownPercent(new, g) = p.numbers[g]
      BY <1>0, <2>1, <2>3, <2>5, <3>2
    <3>4. Pro3Number(new, f) = Turned(f, ShownPercent(new, f), ShownPercent(new, g))
      BY <2>5, <3>1 DEF Pro3Number
    <3> QED
      BY <1>0, <1>2, <2>2, <2>4, <2>5, <3>1, <3>3, <3>4
  <2>6. CASE ~(GroupOf(f) = "triggers" /\ f[2] \in Ends)
    <3>1. Pro3Number(new, f) = p.numbers[f]
      BY <2>3, <2>6 DEF Pro3Number
    <3> QED
      BY <1>0, <2>2, <2>4, <2>6, <3>1
  <2> QED
    BY <2>5, <2>6
<1>3. CASE D.codec = "ultimate"
  <2>1. f \in UltimateFields
    BY <1>1, <1>3 DEF Fields
  <2>2. PICK new, old : new = Put(D, p, s) /\ old = Started(s)
    OBVIOUS
  <2>3. /\ f \in DOMAIN p.numbers /\ p.numbers[f] \in Int /\ old.raw[PlaceOf(f)] \in Int
        /\ s.raw[PlaceOf(f)] \in Int
        /\ ~Fresh(s, GroupOf(f)) => old.raw[PlaceOf(f)] = s.raw[PlaceOf(f)]
        /\ new.raw[PlaceOf(f)] =
             IF GroupOf(f) = "vibration" THEN KeepOrStrengthen(old.raw[PlaceOf(f)], p.numbers[f])
             ELSE UltimateKeepOrEncode(old.raw[PlaceOf(f)], p.numbers[f], RawMax(GroupOf(f)))
    BY <1>0, <1>1, <1>3, <2>2, PutRaw
  <2>4. PICK x \in Int, base \in Int, raw \in Int, max \in Int :
          /\ x = p.numbers[f] /\ base = old.raw[PlaceOf(f)] /\ raw = s.raw[PlaceOf(f)]
          /\ max = RawMax(GroupOf(f)) /\ max \in {128, 255}
    BY <2>3, RawMaxIs
  <2>5. new.used = Sections /\ GroupOf(f) \in Sections
    BY <1>3, <2>1, <2>2 DEF Put, UltimateCompile, Sections, UltimateFields, GroupOf
  <2>6. Read(D, M, new).numbers[f] =
          IF GroupOf(f) = "vibration" THEN Level(new.raw[PlaceOf(f)])
          ELSE UltimatePercent(new.raw[PlaceOf(f)], max)
    BY <1>1, <1>3, <2>4, <2>5, ReadNumberIs DEF UltimateNumber
  <2>7. InRange(D, M, f, x) \/ (GroupOf(f) \in s.used /\ s.active /\ x = Read(D, M, s).numbers[f])
    <3>1. CASE GroupOf(f) \notin s.used /\ x = Read(D, M, s).numbers[f]
      <4>1. x = New(D, M).numbers[f]
        BY <1>1, <1>3, <3>1, ReadNumberIs DEF UltimateNumber, New
      <4> QED
        BY <1>0, <4>1, DefaultNumbersFit
    <3> QED
      BY <1>0, <2>4, <3>1 DEF IsKnown
  <2>8. CASE GroupOf(f) = "vibration"
    <3>1. x \in 0..5
      <4>1. CASE InRange(D, M, f, x)
        BY <1>1, <2>8, <4>1 DEF CodecRange, InRange
      <4>2. CASE GroupOf(f) \in s.used /\ x = Read(D, M, s).numbers[f]
        <5>1. x = Level(raw)
          BY <1>1, <1>3, <2>4, <2>8, <4>2, ReadNumberIs DEF UltimateNumber
        <5> QED
          BY <5>1, LevelIsInt
      <4> QED
        BY <2>7, <4>1, <4>2
    <3>2. Level(KeepOrStrengthen(base, x)) = x
      BY <3>1, LevelComesBack
    <3> QED
      BY <1>0, <1>3, <2>2, <2>3, <2>4, <2>6, <2>8, <3>2
  <2>9. CASE GroupOf(f) # "vibration"
    <3>1. x \in 0..100 \/ UltimatePercent(base, max) = x
      <4>1. CASE InRange(D, M, f, x)
        BY <1>1, <1>3, <2>9, <4>1 DEF CodecRange, InRange
      <4>2. CASE GroupOf(f) \in s.used /\ s.active /\ x = Read(D, M, s).numbers[f]
        <5>1. x = UltimatePercent(raw, max)
          BY <1>1, <1>3, <2>4, <2>9, <4>2, ReadNumberIs DEF UltimateNumber
        <5>2. raw = base
          BY <2>3, <2>4, <4>2 DEF Fresh
        <5> QED
          BY <5>1, <5>2
      <4> QED
        BY <2>7, <4>1, <4>2
    <3>2. UltimatePercent(UltimateKeepOrEncode(base, x, max), max) = x
      <4>1. max \in {128, 255}
        BY <2>4
      <4> QED
        BY <3>1, <4>1, UltimatePercentComesBack, SMTT(60)
    <3> QED
      BY <1>0, <1>3, <2>2, <2>3, <2>4, <2>6, <2>9, <3>2
  <2> QED
    BY <2>8, <2>9
<1> QED
  BY <1>2, <1>3 DEF Matches

\* The name of no entry is one that stands for something else.
LEMMA NameIsPlain ==
  ASSUME NEW M \in Modes, NEW k \in Numbered(M)
  PROVE  NameAt(M, k) \notin {Disabled, Unrecognised} /\ (M # "switch" => NameAt(M, k) # "screenshot")
<1>1. CASE k <= 22
  <2>1. NameAt(M, k) = Sources[k] /\ k \in 1..22
    BY <1>1 DEF NameAt, Numbered
  <2>2. Sources[k] \notin {"screenshot", "rp output", "lp output", "l4 output", "r4 output", Disabled, Unrecognised}
    BY <2>1, SourceIs
  <2> QED
    BY <2>1, <2>2
<1>2. CASE k > 22
  <2>1. PICK i : i = k - 22
    OBVIOUS
  <2>2. i \in 1..Only(M) /\ NameAt(M, k) = OnlyName(M, i)
    BY <1>2, <2>1, OnlyIs DEF NameAt, Numbered
  <2>3. OnlyName(M, i) \in {"screenshot", "rp output", "lp output", "l4 output", "r4 output"}
    BY <2>2, OnlyNameIs
  <2>4. OnlyName(M, i) \notin {Disabled, Unrecognised}
    BY <2>3, Zenon DEF Disabled, Unrecognised
  <2>5. ASSUME M # "switch" PROVE OnlyName(M, i) # "screenshot"
    <3>1. M = "dinput"
      BY <2>2, <2>5 DEF Only, Modes
    <3>2. PICK n : n = <<"rp output", "lp output", "l4 output", "r4 output">>
      BY Zenon
    <3>3. i = 1 \/ i = 2 \/ i = 3 \/ i = 4
      BY <2>2, <3>1 DEF Only
    <3>4. OnlyName(M, i) = n[i]
      BY <3>1, <3>2, Zenon DEF OnlyName
    <3>5. n[1] = "rp output" /\ n[2] = "lp output" /\ n[3] = "l4 output" /\ n[4] = "r4 output"
      BY <3>2
    <3> QED
      BY <3>3, <3>4, <3>5, Zenon
  <2> QED
    BY <2>2, <2>4, <2>5
<1> QED
  BY <1>1, <1>2 DEF Numbered

\* The code that disables a button does.
LEMMA DisabledComesBack ==
  ASSUME NEW M \in Modes, NEW i \in 1..22, i # 14
  PROVE  Target(M, Sources[i], DisabledCode(M, Sources[i])) = Disabled
<1>1. PICK source : source = Sources[i]
  OBVIOUS
<1>2. PICK own, code : own = EntryOf(M, source) /\ code = DisabledCode(M, source)
  OBVIOUS
<1>3. source # "home/guide" /\ (source \in Paddles <=> i \in 19..22)
  BY <1>1, PaddlesAre
<1>4. CASE source \in Paddles /\ ~IsOutputOnly(M, Pro3CodeOf(M, source))
  <2>1. code = Pro3CodeOf(M, source)
    BY <1>2, <1>4 DEF DisabledCode
  <2>2. i \in Numbered(M) /\ source = NameAt(M, i)
    BY <1>1, OnlyIs DEF Numbered, NameAt
  <2>3. own.variant = Null
    <3>1. own.variant = Variant(M, i)
      BY <1>2, <2>2, EntryOfIs, EntryIs DEF EntryVariant
    <3> QED
      BY <1>3, <1>4, <3>1 DEF Variant
  <2>4. code = own.code
    BY <1>2, <2>1, <2>3 DEF Pro3CodeOf
  <2>5. Target(M, source, code) = Disabled
    BY <1>2, <1>3, <1>4, <2>1, <2>4, Zenon DEF Target
  <2> QED
    BY <1>1, <1>2, <2>5
<1>5. CASE ~(source \in Paddles /\ ~IsOutputOnly(M, Pro3CodeOf(M, source)))
  <2>1. code = Null
    BY <1>2, <1>5 DEF DisabledCode
  <2>2. Target(M, source, code) = Disabled
    BY <1>3, <2>1, Zenon DEF Target
  <2> QED
    BY <1>1, <1>2, <2>2
<1> QED
  BY <1>4, <1>5

\* An output that validation takes, or is what the slot read as, or the button's own.
IsKnownOutput(D, s, p, b) ==
  /\ b \notin D.remappable => p.map[b] = b
  /\ \/ p.map[b] = Read(D, p.mode, s).map[b]
     \/ p.map[b] \in {Disabled, Unrecognised} \cup D.named \cup Extras(D, p.mode)
     \/ p.map[b] = b

LEMMA Pro3OutputComesBack ==
  ASSUME NEW D, Matches(D), D.codec = "pro3", NEW M \in DOMAIN D.modes, NEW b \in D.buttons,
         NEW code, NEW o, CanCompile(M, b, code, o), b \notin D.remappable => o = b,
         \/ o = Target(M, b, code)
         \/ o \in {Disabled, Unrecognised} \cup D.named \cup Extras(D, M)
         \/ o = b
  PROVE  \/ Target(M, b, CompiledCode(M, b, code, o)) = o
         \/ /\ o = b /\ b \notin D.outputs
            /\ Target(M, b, CompiledCode(M, b, code, o)) = New(D, M).map[b]
<1>0. MatchesPro3(D) /\ M \in Modes /\ D.outputs \subseteq D.named
  BY Pro3Outputs DEF Matches
<1>1. PICK i \in 1..22 : b = Sources[i]
  BY Pro3Outputs
<1>2. PICK new : new = CompiledCode(M, b, code, o)
  OBVIOUS
<1>3. i \in Numbered(M) /\ b = NameAt(M, i)
  BY <1>1, OnlyIs DEF Numbered, NameAt
<1>4. CASE b = "home/guide"
  <2>1. b \notin D.remappable
    BY <1>0, <1>4 DEF MatchesPro3
  <2>2. Target(M, b, new) = b
    BY <1>4, Zenon DEF Target
  <2> QED
    BY <1>2, <2>1, <2>2
<1>5. CASE b # "home/guide" /\ Target(M, b, code) = o
  <2>1. new = code
    BY <1>2, <1>5 DEF CompiledCode, EntryKept
  <2> QED
    BY <1>2, <1>5, <2>1
<1>6. CASE b # "home/guide" /\ Target(M, b, code) # o
  <2>0. i # 14
    BY <1>1, <1>6, PaddlesAre
  <2>1. CASE o = Disabled
    <3>1. new = DisabledCode(M, b)
      BY <1>2, <1>6, <2>1 DEF CompiledCode, EntryKept
    <3>2. Target(M, b, new) = Disabled
      <4>1. Target(M, Sources[i], DisabledCode(M, Sources[i])) = Disabled
        BY <1>0, <2>0, DisabledComesBack
      <4> QED
        BY <1>1, <3>1, <4>1
    <3> QED
      BY <1>2, <2>1, <3>2
  <2>2. ASSUME NEW k \in Numbered(M), o = NameAt(M, k) PROVE new = Pro3CodeOf(M, o)
    <3>1. o # Disabled /\ ~(o = "screenshot" /\ M # "switch")
      BY <1>0, <2>2, NameIsPlain
    <3> QED
      BY <1>2, <1>6, <3>1 DEF CompiledCode, EntryKept
  <2>3. ASSUME NEW k \in Targets(M), o = NameAt(M, k) PROVE Target(M, b, new) = o
    <3>1. k \in Numbered(M)
      BY DEF Targets
    <3>2. new = Pro3CodeOf(M, NameAt(M, k))
      BY <2>2, <2>3, <3>1
    <3>3. Target(M, Sources[i], Pro3CodeOf(M, NameAt(M, k))) = NameAt(M, k)
      BY <1>0, <2>0, TargetOfCode
    <3> QED
      BY <1>1, <2>3, <3>2, <3>3
  <2>4. CASE o \in D.named \cup Extras(D, M)
    <3>1. PICK k \in Targets(M) : o = NameAt(M, k)
      BY <2>4, Pro3Outputs
    <3> QED
      BY <1>2, <2>3, <3>1
  <2>5. CASE o = b /\ b \notin Paddles
    <3>1. i \in Targets(M)
      BY <1>0, <1>3, <2>5, PaddleIs DEF Targets
    <3> QED
      BY <1>2, <1>3, <2>3, <2>5, <3>1
  <2>6. CASE o = b /\ b \in Paddles
    <3>1. b \notin D.outputs
      BY <1>0, <2>6 DEF MatchesPro3
    <3>2. i \in 19..22 /\ b # "turbo"
      BY <1>1, <2>6, PaddlesAre
    <3>3. EntryOf(M, b).variant = Null
      <4>1. EntryOf(M, b).variant = Variant(M, i)
        BY <1>0, <1>3, EntryOfIs, EntryIs DEF EntryVariant
      <4> QED
        BY <3>2, <4>1 DEF Variant
    <3>4. new = EntryOf(M, b).code
      <4>1. new = Pro3CodeOf(M, b)
        BY <1>3, <2>2, <2>6
      <4> QED
        BY <3>3, <4>1 DEF Pro3CodeOf
    <3>5. New(D, M).map[b] = Target(M, b, EntryOf(M, b).code)
      BY <3>2 DEF New, Pro3Default
    <3> QED
      BY <1>2, <2>6, <3>1, <3>4, <3>5
  <2>7. CASE o = Unrecognised
    <3>1. o \in {Disabled, "screenshot"} \cup Names(M)
      BY <1>6 DEF CanCompile, EntryKept
    <3>2. o \notin {Disabled, "screenshot"}
      BY <2>7, Zenon DEF Disabled, Unrecognised
    <3>3. \E k \in Numbered(M) : o = NameAt(M, k)
      BY <1>0, <3>1, <3>2, EntryIs DEF Names
    <3> QED
      BY <1>0, <2>7, <3>3, NameIsPlain
  <2> QED
    BY <1>6, <2>1, <2>4, <2>5, <2>6, <2>7
<1> QED
  BY <1>4, <1>5, <1>6

LEMMA UltimateOutputComesBack ==
  ASSUME NEW D, Matches(D), D.codec = "ultimate", NEW M \in DOMAIN D.modes,
         NEW o, o \in {Disabled} \cup DOMAIN D.codes[M]
  PROVE  OutputOfCode(D, M, UltimateCodeOf(D, M, o)) = o
<1>0. MatchesUltimate(D)
  BY DEF Matches
<1>1. PICK code, named : /\ code = UltimateCodeOf(D, M, o)
                         /\ named = {x \in DOMAIN D.codes[M] : D.codes[M][x] = code}
  OBVIOUS
<1>2. OutputOfCode(D, M, code) = IF named = {} THEN Disabled ELSE CHOOSE x \in named : TRUE
  BY <1>1 DEF OutputOfCode
<1>3. CASE o = Disabled
  <2>1. code = Zero
    BY <1>1, <1>3 DEF UltimateCodeOf
  <2>2. named = {}
    BY <1>0, <1>1, <2>1 DEF MatchesUltimate
  <2> QED
    BY <1>1, <1>2, <1>3, <2>2
<1>4. CASE o # Disabled
  <2>1. o \in DOMAIN D.codes[M] /\ code = D.codes[M][o]
    BY <1>1, <1>4 DEF UltimateCodeOf
  <2>2. o \in named /\ \A x \in named : x = o
    BY <1>0, <1>1, <2>1 DEF MatchesUltimate
  <2>3. named # {} /\ (CHOOSE x \in named : TRUE) = o
    BY <2>2
  <2> QED
    BY <1>1, <1>2, <2>3
<1> QED
  BY <1>3, <1>4

LEMMA OutputComesBack ==
  ASSUME NEW D, Matches(D), NEW s, IsSlot(D, s), NEW p, IsProfile(D, p), Takes(D, p, s),
         NEW b \in DOMAIN p.map, IsKnownOutput(D, s, p, b)
  PROVE  LET output == Read(D, p.mode, Put(D, p, s)).map[b]
         IN  output = p.map[b] \/ (p.map[b] = b /\ b \notin D.outputs /\ output = New(D, p.mode).map[b])
<1>1. PICK M \in DOMAIN D.modes : M = p.mode
  BY DEF IsProfile
<1>2. b \in D.buttons /\ b \in DOMAIN s.map
  BY DEF IsProfile, IsSlot
<1>3. PICK o, code, new : o = p.map[b] /\ code = s.map[b] /\ new = Put(D, p, s)
  OBVIOUS
<1>4. CASE D.codec = "pro3"
  <2>1. b \in DOMAIN new.map /\ new.map[b] = CompiledCode(M, b, code, o)
    BY <1>1, <1>2, <1>3, <1>4, PutMapIs
  <2>2. Read(D, M, new).map[b] = Target(M, b, CompiledCode(M, b, code, o))
    BY <1>4, <2>1, ReadMapIs
  <2>3. CanCompile(M, b, code, o)
    BY <1>1, <1>3, <1>4 DEF Takes, Pro3Compiles
  <2>4. Read(D, M, s).map[b] = Target(M, b, code)
    BY <1>2, <1>3, <1>4, ReadMapIs
  <2>5. /\ b \notin D.remappable => o = b
        /\ \/ o = Target(M, b, code)
           \/ o \in {Disabled, Unrecognised} \cup D.named \cup Extras(D, M)
           \/ o = b
    BY <1>1, <1>3, <2>4 DEF IsKnownOutput
  <2>6. \/ Target(M, b, CompiledCode(M, b, code, o)) = o
        \/ /\ o = b /\ b \notin D.outputs
           /\ Target(M, b, CompiledCode(M, b, code, o)) = New(D, M).map[b]
    BY <1>2, <1>4, <2>3, <2>5, Pro3OutputComesBack
  <2> QED
    BY <1>1, <1>3, <2>2, <2>6
<1>5. CASE D.codec = "ultimate"
  <2>1. b \in DOMAIN new.map /\ new.map[b] = UltimateCodeOf(D, M, o)
    BY <1>1, <1>2, <1>3, <1>5, PutMapIs
  <2>2. "map" \in new.used
    BY <1>3, <1>5 DEF Put, UltimateCompile, Sections
  <2>3. Read(D, M, new).map[b] = OutputOfCode(D, M, UltimateCodeOf(D, M, o))
    BY <1>5, <2>1, <2>2, ReadMapIs
  <2>4. o \in {Disabled} \cup DOMAIN D.codes[M]
    BY <1>1, <1>3, <1>5 DEF Takes, UltimateCompiles
  <2>5. OutputOfCode(D, M, UltimateCodeOf(D, M, o)) = o
    BY <1>5, <2>4, UltimateOutputComesBack
  <2> QED
    BY <1>1, <1>3, <2>3, <2>5
<1> QED
  BY <1>4, <1>5 DEF Matches

\* Every number and output that a step writes is in range, or what the slot read as.
LEMMA AskedIsKnown ==
  ASSUME Inv, Next, said' # Nothing, said'.op \in Wrote
  PROVE  LET p == said'.asked
         IN  /\ \A f \in Numbers(d, p.mode) : IsKnown(d, stored, p, f)
             /\ \A b \in DOMAIN p.map : IsKnownOutput(d, stored, p, b)
<1>1. PICK D, M, s, p : D = d /\ M = mode /\ s = stored /\ p = said'.asked
  OBVIOUS
<1>2. /\ Matches(D) /\ IsDescription(D) /\ M \in DOMAIN D.modes /\ IsSlot(D, s)
      /\ IsProfile(D, p) /\ p.mode = M
  BY <1>1, DescriptionIs, WrittenIs DEF Inv
<1>3. CASE Write
  <2>1. p = edited /\ IsValid(D, p)
    BY <1>1, <1>3, WriteIs DEF Store, Said
  <2>2. \A f \in Numbers(D, M) : IsKnown(D, s, p, f)
    BY <1>2, <2>1 DEF IsValid, IsKnown
  <2>3. \A b \in DOMAIN p.map : IsKnownOutput(D, s, p, b)
    BY <1>2, <2>1 DEF IsValid, MapIsValid, IsKnownOutput
  <2> QED
    BY <1>1, <1>2, <2>2, <2>3
<1>4. ASSUME s.active, NEW b \in D.buttons, b \notin D.remappable PROVE Read(D, M, s).map[b] = b
  <2>1. D.codec = "pro3" /\ b = "home/guide"
    BY <1>2, <1>4 DEF Matches, MatchesPro3, MatchesUltimate
  <2>2. Read(D, M, s).map[b] = Target(M, b, s.map[b])
    BY <1>2, <2>1, ReadMapIs DEF IsSlot
  <2>3. Target(M, b, s.map[b]) = b
    BY <2>1, Zenon DEF Target
  <2> QED
    BY <2>2, <2>3
<1>5. ASSUME s.active PROVE Held(stored) = Read(D, M, s) /\ IsProfile(D, Held(stored))
                            /\ DOMAIN Held(stored).map = D.buttons
  BY <1>1, <1>5, HeldIs
<1>6. CASE Remap
  <2>1. PICK b \in D.remappable : \E t :
          IsRemap(D, M, b, t) /\ Store("remap", WithOutput(Held(stored), b, t)) /\ s.active /\ b \in D.buttons
    BY <1>1, <1>6, RemapIs
  <2>2. PICK t : IsRemap(D, M, b, t) /\ Store("remap", WithOutput(Held(stored), b, t)) /\ s.active /\ b \in D.buttons
    BY <2>1
  <2>3. p = WithOutput(Held(stored), b, t)
    BY <1>1, <2>2 DEF Store, Said
  <2>4. PICK held : held = Held(stored)
    OBVIOUS
  <2>5. held = Read(D, M, s) /\ IsProfile(D, held) /\ DOMAIN held.map = D.buttons
    BY <1>5, <2>2, <2>4
  <2>6. /\ p.numbers = held.numbers
        /\ DOMAIN p.map = DOMAIN held.map \cup {b} /\ p.map[b] = t
        /\ \A c \in DOMAIN held.map \ {b} : p.map[c] = held.map[c]
    BY <2>2, <2>3, <2>4, <2>5, WithOutputIs
  <2>7. \A f \in Numbers(D, M) : IsKnown(D, s, p, f)
    BY <1>2, <2>2, <2>5, <2>6 DEF IsKnown
  <2>8. ASSUME NEW c \in DOMAIN p.map PROVE IsKnownOutput(D, s, p, c)
    <3>1. CASE c = b
      <4>1. p.map[c] \in {Disabled, b} \cup D.named \cup Extras(D, M)
        BY <1>2, <2>2, <2>6, <3>1 DEF IsRemap, Matches
      <4> QED
        BY <1>2, <3>1, <4>1 DEF IsKnownOutput
    <3>2. CASE c # b
      <4>1. c \in D.buttons /\ p.map[c] = Read(D, M, s).map[c]
        BY <2>5, <2>6, <3>2, <2>2
      <4>2. c \notin D.remappable => p.map[c] = c
        BY <1>4, <2>2, <4>1
      <4> QED
        BY <1>2, <4>1, <4>2 DEF IsKnownOutput
    <3> QED
      BY <3>1, <3>2
  <2> QED
    BY <1>1, <1>2, <2>7, <2>8
<1>7. CASE Patch
  <2>1. PICK fs, changes :
          /\ changes \in [fs -> Values \cup {0, 1}] /\ fs \subseteq Declared(d, mode) /\ FitsIn(changes)
          /\ Store("patch", Patched(changes)) /\ stored.active
    BY <1>7, PatchIs
  <2>2. p = Patched(changes)
    BY <1>1, <2>1 DEF Store, Said
  <2>3. Held(stored) = Read(D, M, s) /\ DOMAIN Held(stored).map = D.buttons
    BY <1>1, <1>5, <2>1
  <2>4. /\ p.map = Held(stored).map
        /\ \A f \in Fields(d, mode) : p.numbers[f] = IF f \in fs THEN changes[f] ELSE Held(stored).numbers[f]
    BY <2>1, <2>2, PatchedIs
  <2>5. ASSUME NEW f \in Numbers(D, M) PROVE IsKnown(D, s, p, f)
    <3>1. f \in Fields(D, M)
      BY <1>2 DEF Matches, SettingsMatch
    <3>2. CASE f \in fs
      <4>1. InRange(D, M, f, changes[f])
        BY <1>1, <2>1, <3>2 DEF FitsIn
      <4>2. p.numbers[f] = changes[f]
        BY <1>1, <2>4, <3>1, <3>2
      <4> QED
        BY <1>2, <4>1, <4>2 DEF IsKnown
    <3>3. CASE f \notin fs
      <4>1. p.numbers[f] = Read(D, M, s).numbers[f]
        BY <1>1, <2>3, <2>4, <3>1, <3>3
      <4> QED
        BY <1>1, <1>2, <2>1, <4>1 DEF IsKnown
    <3> QED
      BY <3>2, <3>3
  <2>6. ASSUME NEW c \in DOMAIN p.map PROVE IsKnownOutput(D, s, p, c)
    <3>1. c \in D.buttons /\ p.map[c] = Read(D, M, s).map[c]
      BY <2>3, <2>4
    <3>2. c \notin D.remappable => p.map[c] = c
      BY <1>1, <1>4, <2>1, <3>1
    <3> QED
      BY <1>2, <3>1, <3>2 DEF IsKnownOutput
  <2> QED
    BY <1>1, <1>2, <2>5, <2>6
<1> QED
  BY <1>3, <1>6, <1>7, WroteIs

LEMMA WriteComesBack ==
  ASSUME Inv, Next, said' # Nothing, said'.op \in Wrote
  PROVE  WrittenReadsBack'
<1>1. PICK D, M, s, p : D = d /\ M = mode /\ s = stored /\ p = said'.asked
  OBVIOUS
<1>2. /\ Matches(D) /\ IsDescription(D) /\ M \in DOMAIN D.modes /\ IsSlot(D, s)
      /\ IsProfile(D, p) /\ p.mode = M /\ Takes(D, p, s) /\ stored' = Put(D, p, s)
      /\ UNCHANGED <<model, mode>>
  BY <1>1, DescriptionIs, WrittenIs DEF Inv
<1>3. /\ \A f \in Numbers(D, p.mode) : IsKnown(D, s, p, f)
      /\ \A b \in DOMAIN p.map : IsKnownOutput(D, s, p, b)
  BY <1>1, AskedIsKnown
<1>4. PICK got : got = Read(D, M, Put(D, p, s))
  OBVIOUS
<1>5. d' = D /\ mode' = M /\ Decode(stored)' = got /\ IsPro3' = (D.codec = "pro3")
  <2>1. d' = D /\ mode' = M
    BY <1>1, <1>2 DEF d
  <2>2. Decode(stored)' = IF D.codec = "pro3" THEN Pro3Decode(M, stored') ELSE UltimateDecode(D, M, stored')
    BY <2>1 DEF Decode, IsPro3
  <2> QED
    BY <1>2, <1>4, <2>1, <2>2 DEF Read, IsPro3
<1>6. stored'.active
  BY <1>2, PutIsSlot
<1>7. ASSUME NEW f \in Numbers(D, M)
      PROVE  got.numbers[f] = IF D.codec = "pro3" /\ GroupOf(f) = "triggers" /\ f[2] \in Ends
                              THEN Turned(f, p.numbers[f], p.numbers[<<f[1], Other[f[2]]>>])
                              ELSE p.numbers[f]
  BY <1>2, <1>3, <1>4, NumberComesBack
<1>8. got.on \cap Flags(D, M) = p.on \cap Flags(D, M)
  <2>1. got.on = p.on \cap CodecFlags(D)
    BY <1>2, <1>4, PutOn
  <2>2. Flags(D, M) \subseteq CodecFlags(D)
    BY <1>2 DEF Matches, SettingsMatch
  <2> QED
    BY <2>1, <2>2
<1>9. ASSUME NEW b \in DOMAIN p.map PROVE ReadOutput(p, b, got.map[b])'
  <2>1. got.map[b] = p.map[b] \/ (p.map[b] = b /\ b \notin D.outputs /\ got.map[b] = New(D, M).map[b])
    BY <1>2, <1>3, <1>4, OutputComesBack
  <2>2. b \in D.buttons
    BY <1>2 DEF IsProfile
  <2>3. b \in DOMAIN New(D, M).map
    BY <1>2, <2>2, NewIs
  <2>4. DefaultOf(mode)' = New(D, M)
    BY <1>5 DEF DefaultOf, New
  <2>5. OutputOf(DefaultOf(mode), b)' = New(D, M).map[b]
    BY <2>3, <2>4 DEF OutputOf
  <2> QED
    BY <1>5, <2>1, <2>5 DEF ReadOutput
<1>10. ASSUME NEW f \in Numbers(D, M) PROVE Decode(stored)'.numbers[f] = ReadNumber(p, f)'
  BY <1>5, <1>7 DEF ReadNumber
<1> QED
  BY <1>1, <1>5, <1>6, <1>8, <1>9, <1>10 DEF WrittenReadsBack

\* WrittenReadsBack: what is written without an error is what the slot reads as, whatever
\* the slot held, whichever way it was written and however the writes of the GUI and of
\* the CLI follow each other.
THEOREM WrittenReadsBackHolds == SettingsSpec => []WrittenReadsBack
<1>1. SettingsInit => WrittenReadsBack
  BY DEF SettingsInit, WrittenReadsBack
<1>2. Inv /\ WrittenReadsBack /\ [Next]_settingsVars => WrittenReadsBack'
  <2> SUFFICES ASSUME Inv, WrittenReadsBack, [Next]_settingsVars PROVE WrittenReadsBack'
    OBVIOUS
  <2>1. CASE UNCHANGED settingsVars
    <3>1. UNCHANGED <<model, mode, stored, said>>
      BY <2>1 DEF settingsVars
    <3> QED
      BY <3>1 DEF WrittenReadsBack, Decode, ReadNumber, ReadOutput, DefaultOf, IsPro3, d
  <2>2. CASE Next /\ said' # Nothing /\ said'.op \in Wrote
    BY <2>2, WriteComesBack
  <2>3. CASE ~(said' # Nothing /\ said'.op \in Wrote)
    BY <2>3 DEF WrittenReadsBack
  <2> QED
    BY <2>1, <2>2, <2>3
<1> QED
  BY <1>1, <1>2, InvHolds, PTL DEF SettingsSpec

=============================================================================
