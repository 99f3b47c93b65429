------------------------------- MODULE Keepalive -------------------------------
(***************************************************************************)
(* The worker with its keepalive (gui/src/keepalive.rs): a pad that resets *)
(* while nobody has its event node open is held open from here.  Each poll *)
(* takes the watch of every such pad one step on, gives the verdict of the *)
(* watches that end and opens the nodes of the pads that were judged; while*)
(* one of those is not open the worker tries again between the polls.      *)
(*                                                                         *)
(* What the window makes of the verdicts, its offer of the fix, is not     *)
(* modelled, and so they are not kept.                                     *)
(***************************************************************************)
EXTENDS Worker

CONSTANTS
  KeepaliveModes,  \* the modes of the config ports with needs_keepalive
  WatchPolls,      \* polls a new pad is watched: WATCH_POLLS, 0 outside the sandbox
  LoopChanges      \* LOOP_CHANGES

ASSUME KeepaliveAssumption ==
  /\ KeepaliveModes \subseteq Mode
  /\ WatchPolls \in Nat /\ LoopChanges \in Nat \ {0}

VARIABLES
  watching,  \* Keepalive::watching, Nothing for a port that is not watched
  judged,    \* Keepalive::judged
  held       \* the device number of the open event node of each port, or Nothing

kvars == <<wvars, watching, judged, held>>

Watch == [num: Nat, polls: 0..WatchPolls, changes: 0..LoopChanges]

KInit ==
  /\ WInit
  /\ watching = [p \in Port |-> Nothing]
  /\ judged = {}
  /\ held = [p \in Port |-> Nothing]

-------------------------------------------------------------------------------
\* The pads of `present`: those the scan finds whose port sets the flag.
Needs(p) == Found(p) # Nothing /\ Found(p).mode \in KeepaliveModes

\* Judged pads that are still there.  A replug between two polls does not show here.
StillJudged == {p \in judged : Needs(p)}

Unjudged(p) == Needs(p) /\ p \notin judged

\* The watch of p as this poll finds it, begun if the pad is new.
Begun(p) ==
  IF watching[p] = Nothing /\ Unjudged(p) /\ WatchPolls > 0
  THEN [num |-> Number(p), polls |-> 0, changes |-> 0]
  ELSE watching[p]

AtMost(n, bound) == IF n > bound THEN bound ELSE n

\* One poll more; the counters stop where nothing tells higher ones apart.
Advanced(p) ==
  LET w == Begun(p)
      anew == Needs(p) /\ Number(p) # w.num
  IN [num |-> IF Needs(p) THEN Number(p) ELSE w.num,
      polls |-> AtMost(w.polls + 1, WatchPolls),
      changes |-> AtMost(w.changes + (IF anew THEN 1 ELSE 0), LoopChanges)]

Looping(p) == Advanced(p).changes >= LoopChanges
Over(p) == Begun(p) # Nothing /\ Advanced(p).polls >= WatchPolls

\* The watch ends with a verdict; outside the sandbox there is none to end.
Judges(p) == \/ Needs(p) /\ Over(p)
             \/ WatchPolls = 0 /\ Unjudged(p)

\* A pad caught in a gap of its loop is judged when it returns; one that left without
\* looping starts a new watch.
WatchesOn(p) == Begun(p) # Nothing /\ (Over(p) => ~Needs(p) /\ Looping(p))

watch ==
  /\ judged' = StillJudged \cup {p \in Port : Judges(p)}
  /\ watching' = [p \in Port |-> IF WatchesOn(p) THEN Advanced(p) ELSE Nothing]

\* Mutant: the handle of a pad that was replugged counts as the new pad's.
KeptByPort(p) == held[p] # Nothing /\ Needs(p)

\* The handle is this pad's, under the number it has now.
Kept(p) == held[p] # Nothing /\ Needs(p) /\ held[p] = Number(p)

\* hold: an event node that is open stays while its pad does; of the other pads of
\* whom, those whose node is there and opens are held.
hold(opens, whom) ==
  held' = [p \in Port |-> IF Kept(p) THEN held[p]
                          ELSE IF p \in opens \cap whom /\ Needs(p) THEN Number(p)
                          ELSE Nothing]

\* sync, on every poll.
KPoll(opens) == Poll /\ watch /\ hold(opens, judged')

pending == \E p \in judged : held[p] = Nothing

\* HOLD_RETRY: recv_timeout ran out and the next poll is not due.
HoldAgain(opens) ==
  /\ cmd = Nothing /\ cmds = <<>>
  /\ pending
  /\ hold(opens, judged)
  /\ UNCHANGED <<wvars, watching, judged>>

NotPolling == UNCHANGED <<watching, judged, held>>

KMove == (\E p \in Port : Move(p)) /\ NotPolling
KWork == (Take \/ CommandEnds) /\ NotPolling
KClient == Client /\ NotPolling

KNext ==
  \/ \E opens \in SUBSET Port : KPoll(opens) \/ HoldAgain(opens)
  \/ KMove \/ KWork \/ KClient

(***************************************************************************)
(* The kernel and udev make a node and its access entry soon after the     *)
(* device number, so a worker that polls on and on finds one that opens.   *)
(* A command ends.                                                         *)
(***************************************************************************)
KSpec == KInit /\ [][KNext]_kvars /\ SF_kvars(KPoll(Port)) /\ WF_kvars(KWork)

-------------------------------------------------------------------------------
\* The worker comes to its channel and finds nothing to do.
Idle == cmd = Nothing /\ cmds = <<>> /\ Room

\* "With the node held, the pad stays put while the user edits it": a pad that needs it
\* and stays is in the end held under the number it came with, whatever came and went
\* on its port before, in whichever watch it was caught and however often a node did
\* not open, as long as the worker is not kept busy for ever.
HeldOnceItStays ==
  \A p \in Port, n \in 1..MaxDevnum :
    []<>Idle /\ <>[](Needs(p) /\ Number(p) = n) => <>[](held[p] = n)
=============================================================================
