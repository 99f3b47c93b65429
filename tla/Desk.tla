--------------------------------- MODULE Desk ---------------------------------
(***************************************************************************)
(* The worker with the window it serves: what handle and lock_event of     *)
(* gui/src/main.rs make of each event, which controllers and locked pads   *)
(* the window then shows, and the commands its buttons send.               *)
(*                                                                         *)
(* A controller's slots are abstracted to the device number of the pad     *)
(* they were read from; whether it holds edits, which keep it listed after *)
(* it left, is open.                                                       *)
(***************************************************************************)
EXTENDS Worker

CONSTANT MaxClicks  \* bound: how often the user asks for something

ASSUME DeskAssumption == MaxClicks \in Nat

VARIABLES
  ctl,         \* AppState::controllers by port, or Nothing
  locked,      \* the status of each entry of AppState::locked, "absent" for none
  relock_sent, \* the port a relock is under way for, or Nothing
  access,      \* the permission screen is up
  denied,      \* history: the ports whose last answer was that the user may not open it
  assumed,     \* history: the ports a relock listed and no list of the worker since
  clicks       \* how often the user asked so far

window == <<ctl, locked, relock_sent, access, denied, assumed, clicks>>
vars == <<wvars, window>>

Openable == {"locked", "failed", "denied"}
LeftAlone == {"unsupported", "onport"}
LockStatus == {"absent", "unlocking"} \cup Openable \cup LeftAlone

\* mode: the mode shown, Nothing once gone; num: the pad the slots were read from, 0
\* before a read; reading, and whether the last read failed.
Controller == [mode: Mode \cup {Nothing}, num: Nat, reading: BOOLEAN, read_error: BOOLEAN]

WindowOK ==
  /\ ctl \in [Port -> Controller \cup {Nothing}]
  /\ locked \in [Port -> LockStatus]
  /\ relock_sent \in Port \cup {Nothing}
  /\ access \in BOOLEAN
  /\ denied \subseteq Port /\ assumed \subseteq Port
  /\ clicks \in 0..MaxClicks

DeskTypeOK == TypeOK /\ WindowOK

Init ==
  /\ WInit
  /\ ctl = [p \in Port |-> Nothing]
  /\ locked = [p \in Port |-> "absent"]
  /\ relock_sent = Nothing
  /\ access = FALSE
  /\ denied = {} /\ assumed = {}
  /\ clicks = 0

-------------------------------------------------------------------------------
(***************************************************************************)
(* Pieces of the handlers.  Each sets the next value of one variable.      *)
(***************************************************************************)
ReadOf(p) == [op |-> "read", port |-> p]

Send(s) == cmds' = cmds \o s

\* A controller that left goes, or stays while it holds edits.
Gone(c) == {Nothing, c}

\* AppState::presence, for a mode: a controller of its own, or the listed one.
Appears(p, m) ==
  IF ctl[p] = Nothing
  THEN [mode |-> m, num |-> 0, reading |-> TRUE, read_error |-> FALSE]
  ELSE [ctl[p] EXCEPT !.mode = m, !.reading = TRUE, !.read_error = FALSE]

\* AppState::presence, then the read of a pad that is there.
presence(p, m) ==
  /\ access' = FALSE
  /\ IF m # Nothing
     THEN ctl' = [ctl EXCEPT ![p] = Appears(p, m)] /\ Send(<<ReadOf(p)>>)
     ELSE /\ Send(<<>>)
          /\ IF ctl[p] = Nothing THEN UNCHANGED ctl
             ELSE \E c \in Gone([ctl[p] EXCEPT !.mode = Nothing, !.reading = FALSE,
                                               !.read_error = FALSE]) :
                    ctl' = [ctl EXCEPT ![p] = c]

\* The read AppState sends for a port, which its controller then waits for.
Reads(p) ==
  /\ Send(<<ReadOf(p)>>)
  /\ ctl' = IF ctl[p] = Nothing THEN ctl ELSE [ctl EXCEPT ![p].reading = TRUE]

Present == {p \in Port : ctl[p] # Nothing /\ ctl[p].mode # Nothing}

\* read_present: every controller that is there is read.
PresentReading ==
  [p \in Port |-> IF p \in Present THEN [ctl[p] EXCEPT !.reading = TRUE] ELSE ctl[p]]

\* A read has told the model, and with it the slots and whether it declares a lock.
Named(p) == p \in Present /\ ctl[p].num # 0

read_failed(p) ==
  ctl' = IF ctl[p] = Nothing THEN ctl
         ELSE [ctl EXCEPT ![p].reading = FALSE, ![p].read_error = TRUE]

\* Entries that are left alone stay; the others are the worker's list, in which only
\* those that were not left alone keep their status.
Relisted(list, p) ==
  IF p \in list
  THEN IF locked[p] \in {"absent"} \cup LeftAlone THEN "locked" ELSE locked[p]
  ELSE IF locked[p] \in LeftAlone THEN locked[p] ELSE "absent"

\* Mutant: the status of a pad that unlocks is left to the next list.
set_no_status(p, s) == UNCHANGED locked

set_lock_status(p, s) ==
  locked' = IF locked[p] = "absent" THEN locked ELSE [locked EXCEPT ![p] = s]

-------------------------------------------------------------------------------
(***************************************************************************)
(* handle: one event.                                                      *)
(***************************************************************************)
\* The window takes the next event, of this type.
Takes(type) == evts # <<>> /\ Head(evts).type = type /\ evts' = Tail(evts)
E == Head(evts)

HandlePresence ==
  /\ Takes("presence")
  /\ presence(E.port, E.mode)
  /\ UNCHANGED <<locked, relock_sent>>

\* read_finished, then the steps of the macros that are still unread, if any.
HandleReadOk ==
  /\ Takes("read") /\ E.result = "ok"
  /\ IF ctl[E.port] = Nothing
     THEN Send(<<>>) /\ UNCHANGED <<ctl, access>>
     ELSE /\ ctl' = [ctl EXCEPT ![E.port].num = E.num, ![E.port].reading = FALSE,
                                ![E.port].read_error = FALSE]
          /\ access' = FALSE
          /\ Send(<<>>) \/ Send(<<[op |-> "steps", port |-> E.port]>>)
  /\ UNCHANGED <<locked, relock_sent>>

HandleReadDenied ==
  /\ Takes("read") /\ E.result = "denied"
  /\ ctl' = IF ctl[E.port] = Nothing THEN ctl ELSE [ctl EXCEPT ![E.port].reading = FALSE]
  /\ access' = TRUE /\ Send(<<>>)
  /\ UNCHANGED <<locked, relock_sent>>

\* read_foreign: as if unplugged.
HandleReadForeign ==
  /\ Takes("read") /\ E.result = "foreign"
  /\ IF ctl[E.port] = Nothing THEN UNCHANGED ctl
     ELSE \E c \in Gone([ctl[E.port] EXCEPT !.mode = Nothing, !.reading = FALSE]) :
            ctl' = [ctl EXCEPT ![E.port] = c]
  /\ Send(<<>>)
  /\ UNCHANGED <<locked, relock_sent, access>>

HandleReadError ==
  /\ Takes("read") /\ E.result = "error"
  /\ read_failed(E.port) /\ Send(<<>>)
  /\ UNCHANGED <<locked, relock_sent, access>>

HandleSteps ==
  /\ Takes("steps")
  /\ IF E.ok THEN UNCHANGED ctl ELSE read_failed(E.port)
  /\ Send(<<>>)
  /\ UNCHANGED <<locked, relock_sent, access>>

\* Mutant: what was written is not read back.
WrittenNotRead ==
  /\ Takes("written")
  /\ Send(<<>>)
  /\ UNCHANGED <<ctl, relock_sent, locked, access>>

\* Whatever came of the write, the pad is read; a relock the question chained follows.
HandleWritten ==
  /\ Takes("written")
  /\ LET p == E.port IN
     \/ Reads(p) /\ UNCHANGED relock_sent
     \/ /\ relock_sent = Nothing /\ Named(p)
        /\ Send(<<ReadOf(p), [op |-> "relock", port |-> p]>>)
        /\ ctl' = [ctl EXCEPT ![p].reading = TRUE]
        /\ relock_sent' = p
  /\ UNCHANGED <<locked, access>>

HandleLocked ==
  /\ Takes("locked")
  /\ locked' = [p \in Port |-> Relisted(E.list, p)]
  /\ Send(<<>>)
  /\ UNCHANGED <<ctl, relock_sent, access>>

HandleRefused ==
  /\ Takes("refused")
  /\ locked' = [locked EXCEPT ![E.port] = "onport"]
  /\ Send(<<>>)
  /\ UNCHANGED <<ctl, relock_sent, access>>

HandleUnplugged ==
  /\ Takes("unplugged")
  /\ locked' = [locked EXCEPT ![E.port] = "absent"]
  /\ Send(<<>>)
  /\ UNCHANGED <<ctl, relock_sent, access>>

\* The pad leaves the locked list and shows as a controller at once.
HandleUnlocked ==
  /\ Takes("unlock") /\ E.result = "port"
  /\ locked' = [locked EXCEPT ![E.port] = "absent"]
  /\ presence(E.port, E.mode)
  /\ UNCHANGED relock_sent

\* Denied by the system: read_denied puts the permission screen up.
HandleNotUnlocked ==
  /\ Takes("unlock") /\ E.result # "port"
  /\ set_lock_status(E.port, E.result)
  /\ IF E.result # "denied" THEN UNCHANGED <<ctl, access>>
     ELSE /\ access' = TRUE
          /\ ctl' = IF ctl[E.port] = Nothing THEN ctl ELSE [ctl EXCEPT ![E.port].reading = FALSE]
  /\ Send(<<>>)
  /\ UNCHANGED relock_sent

\* Mutants: the pad waits for the worker's next list, or its controller stays.
RelockedUnlisted ==
  /\ Takes("relock") /\ E.ok
  /\ ctl' = [ctl EXCEPT ![E.port] = Nothing]
  /\ access' = FALSE /\ relock_sent' = Nothing
  /\ Send(<<>>)
  /\ UNCHANGED locked

RelockedStays ==
  /\ Takes("relock") /\ E.ok
  /\ relock_sent' = Nothing
  /\ Send(<<>>)
  /\ UNCHANGED <<ctl, locked, access>>

\* relocked: the edits go with the relock, so the controller does; its pad is listed as
\* locked at once, if the window still had it as present.
HandleRelocked ==
  /\ Takes("relock") /\ E.ok
  /\ LET p == E.port IN
     /\ ctl' = [ctl EXCEPT ![p] = Nothing]
     /\ locked' = IF Named(p) /\ locked[p] = "absent"
                  THEN [locked EXCEPT ![p] = "locked"] ELSE locked
  /\ access' = FALSE /\ relock_sent' = Nothing
  /\ Send(<<>>)

HandleNotRelocked ==
  /\ Takes("relock") /\ ~E.ok
  /\ relock_sent' = Nothing
  /\ Send(<<>>)
  /\ UNCHANGED <<ctl, locked, access>>

\* After the rule is installed: read_present.
HandleInstalled ==
  /\ Takes("installed")
  /\ IF E.ok
     THEN /\ \E s \in Perms({ReadOf(p) : p \in Present}) : Send(s)
          /\ ctl' = PresentReading
     ELSE Send(<<>>) /\ UNCHANGED ctl
  /\ UNCHANGED <<locked, relock_sent, access>>

\* History: which ports may not be opened, as their last answer said, and which panels
\* are the window's own.
Refuses == E.type \in {"read", "unlock"} /\ E.result = "denied"
Renews == E.type \in {"presence", "read"} \/ (E.type = "unlock" /\ E.result = "port")

Noted ==
  /\ denied' = IF Refuses THEN denied \cup {E.port}
               ELSE IF Renews THEN denied \ {E.port} ELSE denied
  /\ assumed' = IF E.type = "locked" THEN {}
                ELSE IF E.type = "relock" /\ E.ok THEN assumed \cup {E.port} ELSE assumed

Handle ==
  /\ \/ HandlePresence \/ HandleReadOk \/ HandleReadDenied \/ HandleReadForeign
     \/ HandleReadError \/ HandleSteps \/ HandleWritten \/ HandleLocked \/ HandleRefused
     \/ HandleUnplugged \/ HandleUnlocked \/ HandleNotUnlocked \/ HandleRelocked
     \/ HandleNotRelocked \/ HandleInstalled
  /\ Noted
  /\ UNCHANGED <<pads, debounce, locks, cmd, broken, clicks>>

-------------------------------------------------------------------------------
(***************************************************************************)
(* The user.  When pads are settled, nobody acts on a pad while a change   *)
(* of it is still to be told.                                              *)
(***************************************************************************)
Told(p) == Unsettled \/ (reported[p] = Scanned(p) /\ evts = <<>>)

Click ==
  /\ clicks < MaxClicks /\ clicks' = clicks + 1
  /\ UNCHANGED <<pads, debounce, locks, cmd, broken, evts, denied, assumed>>

\* The command that write_finished answers: the review has read the pad before.
ClickWrite(p) ==
  /\ Click /\ Told(p)
  /\ Named(p)
  /\ Send(<<[op |-> "write", port |-> p]>>)
  /\ UNCHANGED <<ctl, locked, relock_sent, access>>

\* unlock_requested.
ClickUnlock(p) ==
  /\ Click /\ Told(p)
  /\ locked[p] \in Openable
  /\ Send(<<[op |-> "unlock", port |-> p]>>)
  /\ locked' = [locked EXCEPT ![p] = "unlocking"]
  /\ UNCHANGED <<ctl, relock_sent, access>>

\* "Check again" on the permission screen: recheck_locks, then read_present.
ClickCheckAgain ==
  LET barred == {p \in Port : locked[p] = "denied"} IN
  /\ Click /\ access /\ \A p \in barred : Told(p)
  /\ \E u \in Perms({[op |-> "unlock", port |-> p] : p \in barred}),
        r \in Perms({ReadOf(p) : p \in Present}) : Send(u \o r)
  /\ locked' = [p \in Port |-> IF p \in barred THEN "unlocking" ELSE locked[p]]
  /\ ctl' = PresentReading
  /\ access' = (barred = {})
  /\ UNCHANGED relock_sent

ClickRelock(p) ==
  /\ Click /\ Told(p)
  /\ relock_sent = Nothing /\ Named(p)
  /\ Send(<<[op |-> "relock", port |-> p]>>)
  /\ relock_sent' = p
  /\ UNCHANGED <<ctl, locked, access>>

\* "Try again" on the red bar.
ClickTryAgain(p) ==
  /\ Click
  /\ p \in Present /\ ctl[p].read_error
  /\ Reads(p)
  /\ UNCHANGED <<locked, relock_sent, access>>

ClickInstall ==
  /\ Click /\ access
  /\ Send(<<[op |-> "install"]>>)
  /\ UNCHANGED <<ctl, locked, relock_sent, access>>

User ==
  \/ ClickCheckAgain \/ ClickInstall
  \/ \E p \in Port : \/ ClickWrite(p) \/ ClickUnlock(p) \/ ClickRelock(p)
                     \/ ClickTryAgain(p)

Bus == (\E p \in Port : Move(p)) /\ UNCHANGED window
Worker == Work /\ UNCHANGED window

Next == Bus \/ Worker \/ Handle \/ User

\* The worker's loop runs on, each of its calls returns at worst by a timeout, and the
\* event loop calls handle for each event.  Pads and users owe nothing.
Spec == Init /\ [][Next]_vars /\ WF_vars(Worker) /\ WF_vars(Handle)
-------------------------------------------------------------------------------
(***************************************************************************)
(* Properties.                                                             *)
(***************************************************************************)
\* The window shows a pad as present only while the worker counts it as reported, in the
\* same mode: otherwise no later poll would tell the window that the pad left, since a
\* poll tells only what differs from what is reported.  This holds wherever no command
\* left the pad in another mode without a word, however the pads move.  And a pad that
\* was never read is being read, or its read failed or was denied (worker.rs, state.rs).
PresentIsTrue ==
  \A p \in Present :
    /\ evts = <<>> /\ p \notin untold => reported[p] # Nothing /\ ctl[p].mode = reported[p].mode
    /\ ctl[p].num = 0 => ctl[p].reading \/ ctl[p].read_error \/ p \in denied

\* A panel that says that its pad unlocks takes no click, so an answer to its unlock is
\* always on the way: the command is queued or runs, or its event is not handled yet.
UnlockingIsAnswered ==
  \A p \in Port : locked[p] = "unlocking" =>
    LET unlock == [op |-> "unlock", port |-> p] IN
    \/ cmd = unlock \/ \E i \in DOMAIN cmds : cmds[i] = unlock
    \/ \E i \in DOMAIN evts : evts[i].type = "unlock" /\ evts[i].port = p

\* Once the pads stay as they are, every read the window waits for has ended; and but for
\* the pads that a command left in another mode without a word, it shows each supported
\* one in the mode it is in, and none that is gone, locked or refused, and what it shows
\* was read from that very pad, or it says that the read failed or was denied.
ShowsThePads ==
  <>[]\A p \in Port :
    /\ ctl[p] # Nothing => ~ctl[p].reading
    /\ p \notin untold =>
         /\ Is(p, {"config"}) =>
              /\ p \in Present /\ ctl[p].mode = bus[p].mode
              /\ ctl[p].num = bus[p].num \/ ctl[p].read_error \/ p \in denied
         /\ Found(p) = Nothing => p \notin Present

\* And the locked panels are those of the pads that are locked, each ready to be
\* unlocked, but for a panel of the window's own that no list of the worker has covered;
\* and the refusals are those of pads that are still there.
LockedIsListed ==
  <>[]\A p \in Port :
    /\ Is(p, {"locked"}) => locked[p] \in Openable
    /\ locked[p] \in Openable /\ p \notin assumed => Is(p, {"locked"})
    /\ Is(p, {"refused"}) => locked[p] \in LeftAlone
    /\ locked[p] \in LeftAlone => Is(p, {"refused", "unlisted"})
=============================================================================
