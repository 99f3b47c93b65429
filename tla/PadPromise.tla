----------------------------- MODULE PadPromise -----------------------------
(***************************************************************************)
(* What a batch of writes promises of a pad.                               *)
(*                                                                         *)
(* `view` is what the pad shows of each slot: a map and macros by macro    *)
(* slot, or nothing. A batch is asked for, and then every job of it shows  *)
(* in its slot, with all its macro edits made at once on the macros the    *)
(* slot showed, and nothing else changes; or the whole batch is refused    *)
(* and nothing changes.                                                    *)
(***************************************************************************)
EXTENDS Bank

CONSTANT Keep    \* no map: the slot keeps its profile

VARIABLES model, view, asked, policy

pvars == <<model, view, asked, policy>>

Empty == [used |-> FALSE, map |-> DefaultMap, macros |-> NoMacros]

\* Puts and deletes, by macro slot. Zeroed deletes.
Edited(macros, edits) ==
    LET edit(n)  == edits[CHOOSE i \in DOMAIN edits : edits[i].at = n].macro
        touched  == {edits[i].at : i \in DOMAIN edits}
        puts     == {n \in touched : edit(n) # Zeroed}
    IN  [n \in (DOMAIN macros \ touched) \cup puts |-> IF n \in puts THEN edit(n) ELSE macros[n]]

\* The slot as a job asks for it.
AsAsked(s, job) ==
    IF job.op = "clear" THEN Empty
    ELSE IF job.op = "remap" THEN IF s.used THEN [s EXCEPT !.map[job.button] = job.output] ELSE s
    ELSE IF ~s.used /\ job.map = Keep THEN s
    ELSE [used |-> TRUE,
          map |-> IF job.map = Keep THEN s.map ELSE job.map,
          macros |-> Settled(model, Edited(Without(s.macros, job.drops), job.edits))]

Ask ==
    /\ asked = <<>> /\ asked' # <<>>
    /\ UNCHANGED <<model, view>>

Refuse == asked # <<>> /\ asked' = <<>> /\ UNCHANGED <<model, view>>

\* Nothing a slot showed is gone: no profile, no macro, no macro's steps. A button may
\* have another output, and start no macro any more.
LosesNothing ==
    \A at \in DOMAIN view :
      view[at].used =>
        /\ view'[at].used
        /\ \A n \in DOMAIN view[at].macros :
             /\ n \in DOMAIN view'[at].macros
             /\ view'[at].macros[n].steps = view[at].macros[n].steps
             /\ view'[at].macros[n].triggers \subseteq view[at].macros[n].triggers

\* Unless the user was asked, or said yes beforehand, nothing is lost.
Fulfil ==
    /\ asked # <<>>
    /\ policy = "abort" => LosesNothing
    /\ view' = [at \in DOMAIN view |->
                  LET jobs == {i \in DOMAIN asked : <<asked[i].mode, asked[i].slot>> = at}
                  IN  IF jobs = {} THEN view[at]
                      ELSE AsAsked(view[at], asked[CHOOSE i \in jobs : TRUE])]
    /\ asked' = <<>>
    /\ UNCHANGED model

PromiseNext == Ask \/ Refuse \/ Fulfil

PromiseSpec == asked = <<>> /\ [][PromiseNext]_pvars

=============================================================================
