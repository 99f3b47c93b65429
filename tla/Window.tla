-------------------------------- MODULE Window --------------------------------
(***************************************************************************)
(* What the window keeps of each controller and what it does with it: the  *)
(* profile each slot holds and the edits over it (gui/src/state.rs and     *)
(* controllers.rs), the reviews, the writes and the clears (review.rs and  *)
(* batch.rs), imports (files.rs), the move and changed-slot questions, the *)
(* relock (locked.rs) and the close (closing.rs), with the dialogs that    *)
(* stand between the user and each of them (ui/app.slint).                 *)
(*                                                                         *)
(* A profile is a value.  The worker is abstracted to what module Worker   *)
(* has of it: commands are answered one at a time and in order, and polls  *)
(* run while none waits.  The locked panels are in module Desk.            *)
(***************************************************************************)
EXTENDS Integers, FiniteSets, Sequences

CONSTANTS
  Port,       \* USB port paths
  Slots,      \* slots of a controller, all of one mode
  Value,      \* profiles
  Nothing,
  Foreign,    \* a pad whose USB id a supported model shares
  StepsFail,  \* whether the steps of a macro may fail to read
  Moved,      \* whether pads come, go and change
  Files,      \* whether files are imported
  MaxQueue,   \* bound: how many events wait for the window
  MaxMoves,   \* bound: how often a pad comes, goes or changes
  MaxClicks   \* bound: how often the user does something

ASSUME WindowAssumption ==
  /\ Slots \in Nat \ {0}
  /\ Nothing \notin Port \cup Value /\ Foreign # Nothing
  /\ StepsFail \in BOOLEAN /\ Moved \in BOOLEAN /\ Files \in BOOLEAN
  /\ MaxQueue \in Nat \ {0} /\ MaxMoves \in Nat /\ MaxClicks \in Nat

VARIABLES
  pad,        \* what is on each port: Nothing, or the profile in each slot of its pad
  reported,   \* what the worker told last of each port: nothing, this pad or an other
  cmds, evts, \* the channels to the worker and back
  ctl,        \* AppState::controllers by port, or Nothing
  active_port, selected, pending_move,
  write,      \* AppState::write
  asks,       \* the close and relock questions and the import: what waits for an answer
  relock,     \* relock_after_write and relock_sent
  picking,    \* the slot a file dialog was opened for, while it is
  closed,     \* the window is gone
  clicks, moves

bus == <<pad, reported, moves>>
shown == <<active_port, selected, pending_move>>
vars == <<bus, cmds, evts, ctl, shown, write, asks, relock, picking, closed, clicks>>

Slot == 1..Slots
Held == Value \cup {Nothing}
Contents == [Slot -> Held]
Target == [port: Port, slot: Slot]

\* A write of value into slot; Nothing clears it.
WriteJob == [slot: Slot, value: Held]

\* edited: the working copies; changed: the slots whose stored profile changed under
\* their edits and whose question is not answered.
Controller == [there: BOOLEAN, known: BOOLEAN, reading: BOOLEAN, read_error: BOOLEAN,
               pad: Contents, edited: Contents, changed: SUBSET Slot]

NoController == [there |-> TRUE, known |-> FALSE, reading |-> FALSE, read_error |-> FALSE,
                 pad |-> [s \in Slot |-> Nothing], edited |-> [s \in Slot |-> Nothing],
                 changed |-> {}]

Stage == {"reading", "review", "running", "failed"}

\* jobs and at: the writes of a batch, and where its run starts or which one failed.
Batch == [port: Port, stage: Stage, jobs: Seq(WriteJob), at: Nat]

WriteState ==
  [reading_for: Target \cup {Nothing}, review: Target \cup {Nothing},
   clearing: Target \cup {Nothing},
   running: [port: Port, jobs: Seq(WriteJob)] \cup {Nothing},
   failed: [port: Port, job: WriteJob] \cup {Nothing},
   batch: Batch \cup {Nothing}]

Idle == [reading_for |-> Nothing, review |-> Nothing, clearing |-> Nothing,
         running |-> Nothing, failed |-> Nothing, batch |-> Nothing]

AtStage(w, S) == w.batch # Nothing /\ w.batch.stage \in S

Command == [op: {"read", "steps", "relock"}, port: Port]
           \cup [op: {"write"}, port: Port, jobs: Seq(WriteJob)]

Event == [type: {"presence"}, port: Port, there: BOOLEAN]
         \cup [type: {"read"}, port: Port, pad: Contents]
         \cup [type: {"unread", "foreign", "stepless"}, port: Port]
         \cup [type: {"written"}, port: Port, results: Seq([slot: Slot, success: BOOLEAN])]
         \cup [type: {"relock"}, port: Port, ok: BOOLEAN]

\* Nothing is an Option's None: none of the values an Option of the window can hold.
ASSUME NothingIsNoRecord ==
  /\ Nothing \notin Target \cup Contents \cup Controller \cup Batch
  /\ Nothing \notin [port: Port, jobs: Seq(WriteJob)] \cup [port: Port, job: WriteJob]
  /\ Nothing \notin [slot: Slot, value: Value]

TypeOK ==
  /\ pad \in [Port -> Contents \cup {Nothing, Foreign}]
  /\ reported \in [Port -> {"nothing", "this", "other"}]
  /\ cmds \in Seq(Command) /\ evts \in Seq(Event)
  /\ ctl \in [Port -> Controller \cup {Nothing}]
  /\ active_port \in Port \cup {Nothing}
  /\ selected \in Slot
  /\ pending_move \in Port \cup {Nothing}
  /\ write \in WriteState
  /\ write.batch # Nothing =>
       IF AtStage(write, {"running", "failed"}) THEN write.batch.at \in 1..Len(write.batch.jobs)
       ELSE write.batch.jobs = <<>> /\ write.batch.at = 0
  /\ asks \in [close: BOOLEAN, relock: BOOLEAN,
               import: [slot: Slot, value: Value] \cup {Nothing}]
  /\ relock \in [after_write: Port \cup {Nothing}, sent: Port \cup {Nothing}]
  /\ picking \in Slot \cup {Nothing}
  /\ closed \in BOOLEAN
  /\ clicks \in 0..MaxClicks /\ moves \in 0..MaxMoves

Init ==
  /\ pad \in [Port -> Contents \cup (IF Moved THEN {Nothing} ELSE {})]
  /\ reported = [p \in Port |-> "nothing"] /\ moves = 0
  /\ cmds = <<>> /\ evts = <<>>
  /\ ctl = [p \in Port |-> Nothing]
  /\ active_port = Nothing /\ selected = 1 /\ pending_move = Nothing
  /\ write = Idle
  /\ asks = [close |-> FALSE, relock |-> FALSE, import |-> Nothing]
  /\ relock = [after_write |-> Nothing, sent |-> Nothing]
  /\ picking = Nothing /\ closed = FALSE /\ clicks = 0

-------------------------------------------------------------------------------
(***************************************************************************)
(* What the window shows.  A view is the controllers with the picked one,  *)
(* as they are (Now) or as a handler leaves them (Then).                   *)
(***************************************************************************)
Now == [ctl |-> ctl, active |-> active_port]
Then == [ctl |-> ctl', active |-> active_port']

unsaved(c, s) == c.edited[s] \notin {Nothing, c.pad[s]}
has_edits(c) == c # Nothing /\ \E s \in Slot : unsaved(c, s)
listed(v) == {p \in Port : v.ctl[p] # Nothing /\ v.ctl[p].known}
active(v) == IF v.active \in listed(v) THEN v.active
             ELSE IF listed(v) = {} THEN Nothing ELSE CHOOSE p \in listed(v) : TRUE
Of(v) == v.ctl[active(v)]

edited_slots(v) == IF active(v) = Nothing THEN {} ELSE {s \in Slot : unsaved(Of(v), s)}
changed_slots(v) == IF active(v) = Nothing THEN {} ELSE Of(v).changed

\* The unplugged controllers with edits, all of the model of the new one.
unplugged_with_edits(v) == {p \in listed(v) : ~v.ctl[p].there /\ has_edits(v.ctl[p])}
move_candidates == IF pending_move = Nothing THEN {} ELSE unplugged_with_edits(Now)

-------------------------------------------------------------------------------
(***************************************************************************)
(* AppState::write.  Each operator is a method: w, in view v, to what it   *)
(* becomes.                                                                *)
(***************************************************************************)
\* Mutant: a read under way stops nothing.
idle_reading(v, w) ==
  /\ active(v) # Nothing /\ Of(v).there
  /\ w.running = Nothing /\ w.failed = Nothing /\ w.review = Nothing
  /\ w.clearing = Nothing /\ w.batch = Nothing

idle(v, w) ==
  /\ active(v) # Nothing /\ Of(v).there /\ ~Of(v).reading
  /\ w.running = Nothing /\ w.failed = Nothing /\ w.review = Nothing
  /\ w.clearing = Nothing /\ w.batch = Nothing

review_open(v, w) ==
  /\ w.review # Nothing /\ w.review.port = active(v)
  /\ changed_slots(v) = {} /\ w.review.slot \in edited_slots(v)

batch_review_open(v, w) ==
  /\ AtStage(w, {"review"}) /\ w.batch.port = active(v)
  /\ changed_slots(v) = {} /\ edited_slots(v) # {}

settle_review(v, w) ==
  IF ~review_open(v, w) /\ changed_slots(v) = {} THEN [w EXCEPT !.review = Nothing] ELSE w

settle_batch(v, w) ==
  IF AtStage(w, {"review"}) /\ changed_slots(v) = {} /\ edited_slots(v) = {}
  THEN [w EXCEPT !.batch = Nothing] ELSE w

batch_read(v, w, p, ok) ==
  IF AtStage(w, {"reading"}) /\ w.batch.port = p
  THEN IF ok THEN settle_batch(v, [w EXCEPT !.batch.stage = "review"])
       ELSE [w EXCEPT !.batch = Nothing]
  ELSE w

WaitsFor(w, p) == w.reading_for # Nothing /\ w.reading_for.port = p

review_read(v, w, p, ok) ==
  LET b == batch_read(v, w, p, ok) IN
  IF ~WaitsFor(b, p) THEN b
  ELSE [b EXCEPT !.reading_for = Nothing,
                 !.review = IF ok THEN b.reading_for ELSE b.review]

start(w, p, jobs) == [w EXCEPT !.running = [port |-> p, jobs |-> jobs]]
WriteOf(w) == [op |-> "write", port |-> w.running.port, jobs |-> w.running.jobs]

upload_job(v, s) == [slot |-> s, value |-> Of(v).edited[s]]

\* The slots of S in the sidebar's order.
InOrder(S) ==
  CHOOSE q \in [1..Cardinality(S) -> S] : \A i, j \in DOMAIN q : i < j => q[i] < q[j]

confirm_review(v, w) ==
  start([w EXCEPT !.review = Nothing], w.review.port, <<upload_job(v, w.review.slot)>>)

confirm_batch(v, w) ==
  LET slots == InOrder(edited_slots(v))
      jobs == [i \in DOMAIN slots |-> upload_job(v, slots[i])]
  IN start([w EXCEPT !.batch.stage = "running", !.batch.jobs = jobs, !.batch.at = 1],
           w.batch.port, jobs)

\* No macro is left in an empty slot here, and no two settings clash.
writes_nothing_over(v, s) == Of(v).pad[s] = Nothing

\* A review or a batch review of slots that hold nothing is confirmed unasked.
SkipsReview(v, w) == review_open(v, w) /\ writes_nothing_over(v, w.review.slot)
SkipsBatch(v, w) ==
  /\ ~review_open(v, w) /\ batch_review_open(v, w)
  /\ \A s \in edited_slots(v) : writes_nothing_over(v, s)

skip_empty_review(v, w) ==
  IF SkipsReview(v, w) THEN confirm_review(v, w)
  ELSE IF SkipsBatch(v, w) THEN confirm_batch(v, w) ELSE w

SkippedWrite(v, w) ==
  IF SkipsReview(v, w) \/ SkipsBatch(v, w) THEN <<WriteOf(skip_empty_review(v, w))>> ELSE <<>>

\* The index of the first result that failed, or one past those that have a result.
FirstFailure(jobs, results) ==
  CHOOSE i \in 1..Len(jobs) + 1 :
    /\ i <= Len(jobs) /\ i <= Len(results) => ~results[i].success
    /\ \A j \in 1..i - 1 : j <= Len(results) /\ results[j].success

\* Mutant: a write that failed still runs.
write_finished_kept(w, p, results) ==
  IF w.running = Nothing \/ FirstFailure(w.running.jobs, results) <= Len(w.running.jobs)
  THEN w ELSE [w EXCEPT !.running = Nothing]

write_finished(w, p, results) ==
  IF w.running = Nothing THEN w
  ELSE LET jobs == w.running.jobs
           i == FirstFailure(jobs, results)
       IN [w EXCEPT !.running = Nothing,
                    !.failed = IF i <= Len(jobs) /\ i <= Len(results)
                               THEN [port |-> p, job |-> jobs[i]] ELSE @]

batch_after_write(w) ==
  IF ~AtStage(w, {"running"}) THEN w
  ELSE IF w.failed = Nothing THEN [w EXCEPT !.batch = Nothing]
  ELSE LET rest == {i \in w.batch.at..Len(w.batch.jobs) :
                      w.batch.jobs[i].slot = w.failed.job.slot}
           at == IF rest = {} THEN w.batch.at ELSE CHOOSE i \in rest : \A j \in rest : i <= j
       IN [w EXCEPT !.failed = Nothing, !.batch.stage = "failed", !.batch.at = at]

retry_batch(w) ==
  start([w EXCEPT !.batch.stage = "running"], w.batch.port,
        SubSeq(w.batch.jobs, w.batch.at, Len(w.batch.jobs)))

drop_waiting_batch(w) ==
  IF AtStage(w, {"reading", "review"}) THEN [w EXCEPT !.batch = Nothing] ELSE w

\* Mutant: a relock waits on when its batch goes.
KeepChainOn == UNCHANGED relock

\* A relock that waits for a batch goes with it, unless the batch was written.
KeepChain ==
  relock' = [relock EXCEPT !.after_write =
               IF write.batch # Nothing /\ write'.batch = Nothing THEN Nothing ELSE @]

-------------------------------------------------------------------------------
(***************************************************************************)
(* handle: one event.                                                      *)
(***************************************************************************)
E == Head(evts)
Takes(type) == ~closed /\ evts # <<>> /\ E.type = type /\ evts' = Tail(evts)

ReadOf(p) == [op |-> "read", port |-> p]
Sends(s) == cmds' = cmds \o s

\* Mutant: the questions stay as they are.
SettleNot == UNCHANGED asks

\* settle_close and settle_relock, which end every worker event.
Settle ==
  asks' = [asks EXCEPT
    !.close = @ /\ write'.running = Nothing /\ \E p \in Port : has_edits(ctl'[p]),
    !.relock = @ /\ edited_slots(Then) # {}]

\* remove: the next listed controller shows if this one did.
remove(p) ==
  LET others == listed(Now) \ {p} IN
  /\ ctl' = [ctl EXCEPT ![p] = Nothing]
  /\ active_port' \in IF active_port # p THEN {active_port}
                      ELSE IF others = {} THEN {Nothing} ELSE others
  /\ pending_move' = IF pending_move = p THEN Nothing ELSE pending_move
  /\ UNCHANGED selected

\* What is left of a controller that is gone: its edits, if it holds any.
Gone(p, c) == IF has_edits(c) THEN ctl' = [ctl EXCEPT ![p] = c] /\ UNCHANGED shown
              ELSE remove(p)

HandlePresent ==
  /\ Takes("presence") /\ E.there
  /\ ctl' = [ctl EXCEPT ![E.port] =
       IF @ = Nothing THEN [NoController EXCEPT !.reading = TRUE]
       ELSE [@ EXCEPT !.there = TRUE, !.reading = TRUE, !.read_error = FALSE]]
  /\ Sends(<<ReadOf(E.port)>>)
  /\ UNCHANGED <<shown, write, relock>>
  /\ Settle

HandleGone ==
  /\ Takes("presence") /\ ~E.there
  /\ IF ctl[E.port] = Nothing THEN UNCHANGED <<ctl, shown>>
     ELSE Gone(E.port, [ctl[E.port] EXCEPT !.there = FALSE, !.reading = FALSE,
                                           !.read_error = FALSE])
  /\ UNCHANGED <<cmds, write, relock>>
  /\ Settle

\* Mutant: what the controller holds replaces the edits.
take_read_over(c, new) ==
  [c EXCEPT !.pad = new,
            !.edited = [s \in Slot |-> IF new[s] # c.pad[s] THEN Nothing ELSE c.edited[s]]]

\* take_read: edits that only copied the old profile go, so that they cannot undo the
\* change; real ones stay, and a change under them is asked about.
take_read(c, new) ==
  [c EXCEPT
    !.pad = new,
    !.edited = [s \in Slot |->
      IF new[s] # c.pad[s] /\ ~unsaved(c, s) THEN Nothing ELSE c.edited[s]],
    !.changed = @ \cup {s \in Slot :
      new[s] # c.pad[s] /\ unsaved(c, s) /\ c.edited[s] # new[s]}]

read_finished(p, new) ==
  LET c == ctl[p] IN
  /\ ctl' = [ctl EXCEPT ![p] =
       [take_read(c, new) EXCEPT !.reading = FALSE, !.read_error = FALSE, !.known = TRUE]]
  /\ active_port' = IF listed(Now) = {} THEN p ELSE active_port
  /\ selected' = IF ~c.known /\ active_port' = p THEN 1 ELSE selected
  /\ pending_move' = IF ~c.known /\ unplugged_with_edits(Now) \ {p} # {} THEN p
                     ELSE pending_move

\* The steps of the macros its profiles hold are read next, if they hold any.
HandleRead ==
  /\ Takes("read")
  /\ IF ctl[E.port] = Nothing THEN UNCHANGED <<ctl, shown>> ELSE read_finished(E.port, E.pad)
  /\ LET w == review_read(Then, write, E.port, TRUE) IN
     /\ write' = skip_empty_review(Then, w)
     /\ \/ Sends(SkippedWrite(Then, w))
        \/ /\ StepsFail /\ ctl[E.port] # Nothing /\ \E s \in Slot : E.pad[s] # Nothing
           /\ Sends(<<[op |-> "steps", port |-> E.port]>> \o SkippedWrite(Then, w))
  /\ KeepChain
  /\ Settle

\* The read failed, or was denied, which the permission screen says.
HandleUnread ==
  /\ Takes("unread")
  /\ UNCHANGED <<shown, cmds>>
  /\ \E error \in {TRUE, FALSE} :
       ctl' = IF ctl[E.port] = Nothing THEN ctl
              ELSE [ctl EXCEPT ![E.port].reading = FALSE,
                               ![E.port].read_error = @ \/ error]
  /\ write' = review_read(Then, write, E.port, FALSE)
  /\ KeepChain
  /\ Settle

HandleForeign ==
  /\ Takes("foreign")
  /\ IF ctl[E.port] = Nothing THEN UNCHANGED <<ctl, shown>>
     ELSE Gone(E.port, [ctl[E.port] EXCEPT !.there = FALSE, !.reading = FALSE])
  /\ write' = review_read(Then, write, E.port, FALSE)
  /\ KeepChain
  /\ UNCHANGED cmds
  /\ Settle

\* The steps of the macros could not be read: told as a read that failed.
HandleStepless ==
  /\ Takes("stepless")
  /\ ctl' = IF ctl[E.port] = Nothing THEN ctl
            ELSE [ctl EXCEPT ![E.port].reading = FALSE, ![E.port].read_error = TRUE]
  /\ UNCHANGED <<shown, cmds, write, relock>>
  /\ Settle

\* Mutant: every job of the run counts as written.
WrittenAll(c, results) ==
  LET slots == {write.running.jobs[i].slot : i \in DOMAIN write.running.jobs} IN
  [c EXCEPT !.pad = [s \in Slot |-> IF s \in slots THEN c.edited[s] ELSE @[s]],
            !.edited = [s \in Slot |-> IF s \in slots THEN Nothing ELSE @[s]]]

\* What a controller holds once the writes that worked moved its edits into it.
Written(c, results) ==
  LET jobs == write.running.jobs
      done == 1..FirstFailure(jobs, results) - 1
      cleared == {results[i].slot : i \in {j \in done : jobs[j].value = Nothing}}
      uploaded == {results[i].slot : i \in done} \ cleared
  IN [c EXCEPT
       !.pad = [s \in Slot |->
         IF s \in cleared THEN Nothing
         ELSE IF s \in uploaded /\ c.edited[s] # Nothing THEN c.edited[s] ELSE @[s]],
       !.edited = [s \in Slot |-> IF s \in cleared \cup uploaded THEN Nothing ELSE @[s]]]

\* Whatever the outcome, the pad is read; then the relock that waited for the batch.
HandleWritten ==
  /\ Takes("written")
  /\ UNCHANGED shown
  /\ LET p == E.port
         c == IF write.running = Nothing \/ ctl[p] = Nothing THEN ctl[p]
              ELSE Written(ctl[p], E.results)
     IN
     /\ write' = batch_after_write(write_finished(write, p, E.results))
     /\ ctl' = [ctl EXCEPT ![p] = IF c = Nothing THEN c ELSE [c EXCEPT !.reading = TRUE]]
     /\ LET chained == write'.batch = Nothing /\ relock.after_write # Nothing
            q == relock.after_write
            goes == chained /\ relock.sent = Nothing /\ q \in listed(Then) /\ ctl'[q].there
        IN
        /\ Sends(<<ReadOf(p)>> \o
                 IF goes THEN <<[op |-> "relock", port |-> q]>> ELSE <<>>)
        /\ relock' = [after_write |-> IF chained THEN Nothing ELSE q,
                      sent |-> IF goes THEN q ELSE relock.sent]
  /\ Settle

\* relocked: the edits went with the relock.
HandleRelocked ==
  /\ Takes("relock") /\ E.ok
  /\ IF ctl[E.port] = Nothing THEN UNCHANGED <<ctl, shown>> ELSE remove(E.port)
  /\ relock' = [relock EXCEPT !.sent = Nothing]
  /\ asks' = [asks EXCEPT !.relock = FALSE,
       !.close = @ /\ write.running = Nothing /\ \E p \in Port : has_edits(ctl'[p])]
  /\ UNCHANGED <<cmds, write>>

HandleNotRelocked ==
  /\ Takes("relock") /\ ~E.ok
  /\ relock' = [after_write |-> Nothing, sent |-> Nothing]
  /\ asks' = [asks EXCEPT !.relock = FALSE,
       !.close = @ /\ write.running = Nothing /\ \E p \in Port : has_edits(ctl[p])]
  /\ UNCHANGED <<ctl, shown, cmds, write>>

Handle ==
  /\ \/ HandlePresent \/ HandleGone \/ HandleRead \/ HandleUnread \/ HandleForeign
     \/ HandleStepless \/ HandleWritten \/ HandleRelocked \/ HandleNotRelocked
  /\ UNCHANGED <<bus, picking, closed, clicks>>

-------------------------------------------------------------------------------
(***************************************************************************)
(* The worker, as module Worker has it, and the pads.                      *)
(***************************************************************************)
C == Head(cmds)
Serves(op) == cmds # <<>> /\ C.op = op /\ cmds' = Tail(cmds)
Emit(e) == evts' = Append(evts, e)

\* The last presence told is of the pad there is.
Sees(p) == [reported EXCEPT ![p] = IF pad'[p] = Nothing THEN "nothing" ELSE "this"]

\* The pad went in the middle of the command; one that came since is told by a poll.
Disconnected(p) ==
  /\ reported[p] = "other"
  /\ reported' = [reported EXCEPT ![p] = "nothing"]
  /\ Emit([type |-> "presence", port |-> p, there |-> FALSE])

WorkRead ==
  /\ Serves("read")
  /\ \/ Disconnected(C.port)
     \/ /\ \/ pad[C.port] \in Contents
              /\ Emit([type |-> "read", port |-> C.port, pad |-> pad[C.port]])
           \/ pad[C.port] = Foreign /\ Emit([type |-> "foreign", port |-> C.port])
           \/ Emit([type |-> "unread", port |-> C.port])
        /\ UNCHANGED reported
  /\ UNCHANGED <<pad, moves>>

WorkSteps ==
  /\ Serves("steps")
  /\ \/ Disconnected(C.port)
     \/ /\ \/ pad[C.port] \in Contents /\ UNCHANGED evts
           \/ Emit([type |-> "stepless", port |-> C.port])
        /\ UNCHANGED reported
  /\ UNCHANGED <<pad, moves>>

\* The first n jobs work and the next one fails, which leaves its slot as it was or as
\* the job has it.
WorkWrite ==
  /\ Serves("write")
  /\ \E n \in 0..Len(C.jobs) :
       /\ n > 0 => pad[C.port] \in Contents
       /\ Emit([type |-> "written", port |-> C.port,
                results |-> [i \in 1..Len(C.jobs) |->
                               [slot |-> C.jobs[i].slot, success |-> i <= n]]])
       /\ \/ pad[C.port] \notin Contents /\ UNCHANGED pad
          \/ /\ pad[C.port] \in Contents
             /\ \E m \in {n, n + 1} \cap 0..Len(C.jobs) :
                  pad' = [pad EXCEPT ![C.port] = [s \in Slot |->
                    IF \E i \in 1..m : C.jobs[i].slot = s
                    THEN C.jobs[CHOOSE i \in 1..m : C.jobs[i].slot = s].value ELSE @[s]]]
  /\ reported' = Sees(C.port)
  /\ UNCHANGED moves

\* A relock that worked leaves a locked pad, which no read reaches.
WorkRelock ==
  /\ Serves("relock")
  /\ \E ok \in BOOLEAN :
       /\ ok => pad[C.port] # Nothing
       /\ Emit([type |-> "relock", port |-> C.port, ok |-> ok])
       /\ pad' = IF ok THEN [pad EXCEPT ![C.port] = Nothing] ELSE pad
       /\ reported' = IF ok THEN Sees(C.port) ELSE reported
  /\ UNCHANGED moves

\* A settled change of what is on p, told while no command waits.
Poll(p) ==
  /\ cmds = <<>>
  /\ reported[p] # IF pad[p] = Nothing THEN "nothing" ELSE "this"
  /\ Emit([type |-> "presence", port |-> p, there |-> pad[p] # Nothing])
  /\ UNCHANGED <<pad, moves, cmds>>
  /\ reported' = Sees(p)

\* The process ends with the window.
Worker ==
  /\ ~closed /\ Len(evts) < MaxQueue
  /\ WorkRead \/ WorkSteps \/ WorkWrite \/ WorkRelock \/ \E p \in Port : Poll(p)
  /\ UNCHANGED <<ctl, shown, write, asks, relock, picking, closed, clicks>>

\* Somebody plugs a pad in, which was locked or another before, unplugs it, or another
\* program writes it.
Move(p) ==
  /\ Moved /\ ~closed /\ moves < MaxMoves /\ moves' = moves + 1
  /\ \/ /\ pad' \in {[pad EXCEPT ![p] = c] : c \in Contents \cup {Nothing, Foreign}}
        /\ pad[p] = Nothing => pad'[p] # Nothing
        /\ reported' = [reported EXCEPT ![p] = IF @ = "this" THEN "other" ELSE @]
     \/ /\ pad[p] \in Contents
        /\ \E s \in Slot, v \in Held : v # pad[p][s] /\ pad' = [pad EXCEPT ![p][s] = v]
        /\ UNCHANGED reported
  /\ UNCHANGED <<cmds, evts, ctl, shown, write, asks, relock, picking, closed, clicks>>

-------------------------------------------------------------------------------
(***************************************************************************)
(* The dialogs, from the lowest to the highest: the one on top swallows    *)
(* every click on the window.                                              *)
(***************************************************************************)
Dialogs == <<"import", "changed", "move", "review", "clear", "failed", "batch_review",
             "batch_failed", "batch_writing", "writing", "relock", "close">>

Shows(d) ==
  CASE d = "import" -> asks.import # Nothing
    [] d = "changed" -> changed_slots(Now) # {}
    [] d = "move" -> move_candidates # {}
    [] d = "review" -> review_open(Now, write)
    [] d = "clear" -> write.clearing # Nothing
    [] d = "failed" -> write.failed # Nothing
    [] d = "batch_review" -> batch_review_open(Now, write)
    [] d = "batch_failed" -> AtStage(write, {"failed"})
    [] d = "batch_writing" -> AtStage(write, {"running"})
    [] d = "writing" -> write.running # Nothing /\ write.batch = Nothing
    [] d = "relock" -> asks.relock /\ edited_slots(Now) # {}
    [] d = "close" -> asks.close /\ \E p \in listed(Now) : has_edits(ctl[p])

Free == \A i \in DOMAIN Dialogs : ~Shows(Dialogs[i])

\* The user answers dialog d, the one on top.
Answers(d) ==
  /\ Shows(d)
  /\ \A i, j \in DOMAIN Dialogs : Dialogs[i] = d /\ i < j => ~Shows(Dialogs[j])

-------------------------------------------------------------------------------
(***************************************************************************)
(* What the user does to the window itself, while no dialog shows (Free).  *)
(***************************************************************************)
\* edit, and start_from_default for an empty slot.
Edit(v) ==
  /\ active(Now) # Nothing
  /\ ctl' = [ctl EXCEPT ![active(Now)].edited[selected] = v]
  /\ UNCHANGED <<cmds, shown, write, asks, relock, picking, closed>>

discard ==
  /\ selected \in edited_slots(Now)
  /\ ctl' = [ctl EXCEPT ![active(Now)].edited[selected] = Nothing]
  /\ UNCHANGED <<cmds, shown, write, asks, relock, picking, closed>>

\* select: a review that waits for a read is off when another slot is picked.
Selecting(s) == [write EXCEPT !.reading_for = IF s = selected THEN @ ELSE Nothing]

select(s) ==
  /\ s # selected /\ active(Now) # Nothing
  /\ selected' = s /\ write' = Selecting(s)
  /\ UNCHANGED <<cmds, ctl, active_port, pending_move, asks, relock, picking, closed>>

pick_controller(p) ==
  /\ p \in listed(Now) /\ p # active(Now)
  /\ active_port' = p
  /\ asks' = [asks EXCEPT !.import = Nothing]
  /\ write' = drop_waiting_batch([write EXCEPT !.reading_for = Nothing])
  /\ KeepChain
  /\ UNCHANGED <<cmds, ctl, selected, pending_move, picking, closed>>

\* The controller is read: cmds and ctl.
Reads(p) == Sends(<<ReadOf(p)>>) /\ ctl' = [ctl EXCEPT ![p].reading = TRUE]

\* Mutant: the review opens on what the last read found.
begin_review_unread ==
  /\ idle(Now, write) /\ selected \in edited_slots(Now)
  /\ write' = [write EXCEPT !.review = [port |-> active(Now), slot |-> selected]]
  /\ UNCHANGED <<cmds, ctl, shown, asks, relock, picking, closed>>

begin_review ==
  /\ idle(Now, write) /\ selected \in edited_slots(Now)
  /\ write' = [write EXCEPT !.reading_for = [port |-> active(Now), slot |-> selected]]
  /\ Reads(active(Now))
  /\ UNCHANGED <<shown, asks, relock, picking, closed>>

can_write_all == idle(Now, write) /\ edited_slots(Now) # {}

begin_batch ==
  /\ write' = [write EXCEPT !.batch =
       [port |-> active(Now), stage |-> "reading", jobs |-> <<>>, at |-> 0]]
  /\ Reads(active(Now))

WriteAll ==
  /\ can_write_all
  /\ begin_batch
  /\ UNCHANGED <<shown, asks, relock, picking, closed>>

begin_clear ==
  /\ idle(Now, write) /\ Of(Now).pad[selected] # Nothing
  /\ write' = [write EXCEPT !.clearing = [port |-> active(Now), slot |-> selected]]
  /\ UNCHANGED <<cmds, ctl, shown, asks, relock, picking, closed>>

\* The port whose failed read the red bar is about.
Failing ==
  IF active(Now) # Nothing /\ Of(Now).read_error THEN {active(Now)}
  ELSE {p \in Port : ctl[p] # Nothing /\ ~ctl[p].known /\ ctl[p].there /\ ctl[p].read_error}

TryAgain ==
  /\ \E p \in Failing : ctl[p].there /\ Reads(p)
  /\ UNCHANGED <<shown, write, asks, relock, picking, closed>>

relock_available ==
  relock.sent = Nothing /\ active(Now) # Nothing /\ Of(Now).there

\* The question is asked over edits; the relock goes at once without.
relock_clicked ==
  /\ relock_available /\ write.running = Nothing
  /\ \/ edited_slots(Now) # {} /\ asks' = [asks EXCEPT !.relock = TRUE]
        /\ UNCHANGED <<cmds, relock>>
     \/ /\ edited_slots(Now) = {}
        /\ Sends(<<[op |-> "relock", port |-> active(Now)]>>)
        /\ relock' = [relock EXCEPT !.sent = active(Now)]
        /\ asks' = [asks EXCEPT !.relock = FALSE]
  /\ UNCHANGED <<ctl, shown, write, picking, closed>>

\* The file dialog is a window of its own, and this one stays live meanwhile.
import_file ==
  /\ Files /\ active(Now) # Nothing /\ picking = Nothing
  /\ picking' = selected
  /\ UNCHANGED <<cmds, ctl, shown, write, asks, relock, closed>>

\* apply_import: the file's profile becomes the edits of its slot, which shows.
apply_import(s, v) ==
  IF active(Now) = Nothing THEN UNCHANGED <<ctl, shown, write>>
  ELSE /\ ctl' = [ctl EXCEPT ![active(Now)].edited[s] = v]
       /\ selected' = s /\ write' = Selecting(s)
       /\ UNCHANGED <<active_port, pending_move>>

\* import, whatever the window does meanwhile: a file for another mode, or one that
\* replaces edits, waits for a yes.
FileLands ==
  /\ picking # Nothing /\ picking' = Nothing
  /\ \/ UNCHANGED <<ctl, shown, write, asks>>
     \/ \E v \in Value :
          \/ /\ picking \notin edited_slots(Now)
             /\ apply_import(picking, v)
             /\ UNCHANGED asks
          \/ /\ asks' = [asks EXCEPT !.import = [slot |-> picking, value |-> v]]
             /\ UNCHANGED <<ctl, shown, write>>
  /\ UNCHANGED <<cmds, relock, closed>>

\* A write runs: the window stays.  Edits would be lost: it asks.
close_requested ==
  /\ LET asked == write.running = Nothing /\ \E p \in Port : has_edits(ctl[p]) IN
     /\ asks' = [asks EXCEPT !.close = asked]
     /\ closed' = (write.running = Nothing /\ ~asked)
  /\ UNCHANGED <<cmds, ctl, shown, write, relock, picking>>

-------------------------------------------------------------------------------
(***************************************************************************)
(* The answers.                                                            *)
(***************************************************************************)
AnswerImport ==
  /\ Answers("import")
  /\ asks' = [asks EXCEPT !.import = Nothing]
  /\ \/ UNCHANGED <<ctl, shown, write>>
     \/ apply_import(asks.import.slot, asks.import.value)
  /\ UNCHANGED <<cmds, relock, picking, closed>>

\* choose_changed and apply_changed: the edits of the slots of keep stay.
apply_changed(keep) ==
  /\ Answers("changed") /\ keep \subseteq changed_slots(Now)
  /\ UNCHANGED <<shown, asks, picking, closed>>
  /\ ctl' = [ctl EXCEPT ![active(Now)].changed = {},
                        ![active(Now)].edited = [s \in Slot |->
                          IF s \in changed_slots(Now) \ keep THEN Nothing ELSE @[s]]]
  /\ LET w == settle_batch(Then, settle_review(Then, write)) IN
     /\ write' = skip_empty_review(Then, w)
     /\ Sends(SkippedWrite(Then, w))
  /\ KeepChain

\* What the new controller holds once the edits of old are its own: a slot whose
\* profile is not the one the edits began on is asked about.
Taken(c, old) ==
  LET from == {s \in Slot : unsaved(old, s)} IN
  [c EXCEPT
    !.edited = [s \in Slot |-> IF s \in from THEN old.edited[s] ELSE @[s]],
    !.changed = @ \cup {s \in from : c.pad[s] \notin {old.pad[s], old.edited[s]}}]

answer_move ==
  /\ Answers("move")
  /\ pending_move' = Nothing
  /\ \/ UNCHANGED <<ctl, active_port>>
     \/ \E p \in move_candidates :
          LET to == pending_move IN
          /\ ctl' = [q \in Port |->
               IF q = p THEN Nothing
               ELSE IF q = to /\ ctl[to] # Nothing THEN Taken(ctl[to], ctl[p]) ELSE ctl[q]]
          /\ active_port' = IF active_port = p THEN to ELSE active_port
  /\ UNCHANGED <<cmds, selected, write, asks, relock, picking, closed>>

\* A yes sends the write; a no leaves the edits alone.
Confirms(w) == write' = w /\ Sends(<<WriteOf(w)>>) /\ UNCHANGED relock
Declines(w) == write' = w /\ UNCHANGED cmds /\ KeepChain
end_batch == [write EXCEPT !.batch = Nothing]

AnswerWrite ==
  /\ \/ /\ Answers("review")
        /\ Confirms(confirm_review(Now, write)) \/ Declines([write EXCEPT !.review = Nothing])
     \/ /\ Answers("clear")
        /\ LET w == [write EXCEPT !.clearing = Nothing] IN
           \/ Confirms(start(w, write.clearing.port,
                             <<[slot |-> write.clearing.slot, value |-> Nothing]>>))
           \/ Declines(w)
     \/ /\ Answers("failed")
        /\ LET w == [write EXCEPT !.failed = Nothing] IN
           Confirms(start(w, write.failed.port, <<write.failed.job>>)) \/ Declines(w)
     \/ Answers("batch_review") /\ (Confirms(confirm_batch(Now, write)) \/ Declines(end_batch))
     \/ Answers("batch_failed") /\ (Confirms(retry_batch(write)) \/ Declines(end_batch))
  /\ UNCHANGED <<ctl, shown, asks, picking, closed>>

can_write_before_close ==
  /\ can_write_all
  /\ asks.import = Nothing /\ changed_slots(Now) = {} /\ move_candidates = {}

AnswerRelock ==
  /\ Answers("relock")
  /\ asks' = [asks EXCEPT !.relock = FALSE]
  /\ \/ UNCHANGED <<cmds, ctl, write, relock>>
     \/ /\ relock.sent = Nothing /\ Of(Now).there
        /\ Sends(<<[op |-> "relock", port |-> active(Now)]>>)
        /\ relock' = [relock EXCEPT !.sent = active(Now)]
        /\ UNCHANGED <<ctl, write>>
     \/ /\ can_write_before_close
        /\ begin_batch
        /\ relock' = [relock EXCEPT !.after_write = active(Now)]
  /\ UNCHANGED <<shown, picking, closed>>

AnswerClose ==
  /\ Answers("close")
  /\ \/ /\ asks' = [asks EXCEPT !.close = FALSE]
        /\ \/ UNCHANGED <<cmds, ctl, write>>
           \/ can_write_before_close /\ begin_batch
        /\ UNCHANGED closed
     \/ closed' = TRUE /\ UNCHANGED <<cmds, ctl, write, asks>>
  /\ UNCHANGED <<shown, relock, picking>>

User ==
  /\ ~closed /\ clicks < MaxClicks /\ clicks' = clicks + 1
  /\ \/ /\ Free
        /\ \/ \E v \in Value : Edit(v)
           \/ discard \/ begin_review \/ WriteAll \/ begin_clear \/ TryAgain
           \/ \E s \in Slot : select(s)
           \/ \E p \in Port : pick_controller(p)
           \/ relock_clicked \/ import_file
     \/ FileLands \/ close_requested
     \/ AnswerImport \/ \E keep \in SUBSET Slot : apply_changed(keep)
     \/ answer_move \/ AnswerWrite \/ AnswerRelock \/ AnswerClose
  /\ UNCHANGED <<bus, evts>>

Next == Handle \/ Worker \/ (\E p \in Port : Move(p)) \/ User

\* Both threads keep going; the user and the pads may stop.
Spec == Init /\ [][Next]_vars /\ WF_vars(Handle) /\ WF_vars(Worker)

-------------------------------------------------------------------------------
(***************************************************************************)
(* Properties.                                                             *)
(***************************************************************************)
\* The writes sent whose answer the window has not handled.
Underway ==
  Cardinality({i \in DOMAIN cmds : cmds[i].op = "write"})
  + Cardinality({i \in DOMAIN evts : evts[i].type = "written"})

\* Only handle takes an event.
Handled == Len(evts') < Len(evts)

\* A worker event takes an edit from the window only when a write stored it or a relock
\* was asked for: an edit outlives the pad's leaving, another pad on its port, a pad of
\* an unknown model, reads that fail and reads that find the slot changed (presence,
\* read_foreign, take_read).
EditsStay == [][
  Handled /\ E.type # "written" /\ ~(E.type = "relock" /\ E.ok) =>
    \A p \in Port : ctl[p] # Nothing => \A s \in Slot : unsaved(ctl[p], s) =>
      ctl'[p] # Nothing /\ ctl'[p].edited[s] = ctl[p].edited[s]]_vars

\* A write that came back takes an edit only if a job of it that worked stored that very
\* edit, or cleared its slot (write_finished moves the working copy, not the job's).
WrittenIsTheEdit == [][
  Handled /\ E.type = "written" =>
    \A p \in Port : ctl[p] # Nothing => \A s \in Slot :
      unsaved(ctl[p], s) /\ ctl'[p].edited[s] # ctl[p].edited[s] =>
        \E i \in DOMAIN E.results :
          /\ E.results[i].success /\ write.running.jobs[i].slot = s
          /\ write.running.jobs[i].value \in {Nothing, ctl[p].edited[s]}]_vars

\* A relock waits only for the batch the question started, and goes with it: a batch
\* that was cancelled, dropped or left never relocks a pad later (relock_after_write is
\* reset wherever the batch is).
ChainHasItsBatch ==
  relock.after_write # Nothing => write.batch # Nothing /\ write.batch.port = relock.after_write

\* The writing dialogs have no button: whenever one shows, a write is on its way that
\* will take it down.
RunningIsOnItsWay ==
  /\ AtStage(write, {"running"}) => write.running # Nothing
  /\ write.running # Nothing => Underway > 0

\* What waits for a write goes with it: the writing dialog and the relock after it.
WaitsEndWithTheirWrite == ChainHasItsBatch /\ RunningIsOnItsWay

\* The window sends no second write while one is under way, and none it does not wait
\* for (idle, AppState::write.running); and one of the review, the clear question, the
\* failure and the batch stands at a time: nothing starts under another.
OneAtATime ==
  /\ Underway = IF write.running = Nothing THEN 0 ELSE 1
  /\ Cardinality({q \in {"review", "clearing", "failed", "batch"} : write[q] # Nothing}) <= 1

\* The close and the relock question stand over edits that are really there, and the
\* close question over no write: whatever a worker event takes away closes them, so that
\* no later edit brings a question back (settle_close, settle_relock). The window never
\* closes under a write.
QuestionsStand ==
  /\ asks.close => write.running = Nothing /\ \E p \in listed(Now) : has_edits(ctl[p])
  /\ asks.relock => edited_slots(Now) # {}
  /\ closed => write.running = Nothing

\* While pads are written by the window only, a review that shows compares the edits with
\* what the pad really holds, also after writes and reads that failed half way.
ReviewIsTrue ==
  (Shows("review") \/ Shows("batch_review")) /\ pad[active(Now)] \in Contents =>
    Of(Now).pad = pad[active(Now)]

\* Every write ends, whatever the pad does.
WritingEnds == write.running # Nothing ~> write.running = Nothing

-------------------------------------------------------------------------------
(***************************************************************************)
(* What the properties rest on.                                            *)
(***************************************************************************)
\* A controller that was never read has no edits: there is nothing to edit yet.
EditsKnown ==
  \A p \in Port : ctl[p] # Nothing /\ ~ctl[p].known =>
    \A s \in Slot : ctl[p].edited[s] = Nothing

\* The move question is about a controller the sidebar lists.
PendingListed == pending_move # Nothing => pending_move \in listed(Now)

===============================================================================
