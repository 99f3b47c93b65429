# 8B in TLA+

8B reads and edits the profile banks of 8BitDo controllers over hidraw. This
directory holds TLA+ modules translated from its source, TLC configurations that
check them on small instances, and TLAPS proofs of what matters most for every
instance. `PROJECT.json` maps every definition to the lines it stands for and
lists the runs, the hazards and the theorems.

Run from this directory: `tlc -workers 2 -config X.cfg M` checks module `M`,
`tlapm M.tla` checks its proofs.

## 1. Inventory

Three crates. `controller-core` owns the wire, the codecs and the write jobs,
`gui` is the desktop program (`8b`), `cli` the command line (`8bitdo-pro-3`).

| Component | State | Operations | Hard part | What makes it correct |
| --- | --- | --- | --- | --- |
| Write job (`orchestrator/batch.rs write.rs pages.rs`, `service/rollback.rs`) | banks of the job, their results, the backups | select, write, APPLY, pages, three rollbacks, read-back, flip home | any call may fail or lose its answer, one bank of several fails, the cable is pulled | a success is the whole bank; a refusal touched nothing; what was lost is on file or named |
| Write plan (`batch.rs`, `orchestrator/macros.rs patch.rs profile.rs`) | the dirty banks and their step pages | fold jobs, order macro edits, plan pages, refuse | edits that renumber the macros, leftovers of empty slots, shared triggers | each slot becomes what its job asked for, or nothing does |
| Session (`transport/hidraw_device.rs hidraw_write.rs session.rs`) | the held session, paused input | open, pause, start, exchange, resume on drop | an error between pause and resume, a late answer | the pad is never left paused; an answer is the command's own |
| Unlock, relock (`transport/lock.rs usbfs.rs`) | claim of the USB interface | detach, claim, send, wait, release | the pad leaves in the middle of the packets | the interface goes back on every path |
| Wire protocol (`protocol/`, framings) | none | packets, chunks, frames, decoders | widths and boundaries | what is sent is carried; no chunk is skipped |
| Detection (`detect.rs device.rs`) | none | list ports, sightings, locked pads | sysfs is read while pads come and go | one port is one pad |
| Codecs, descriptions, model (`devices/`, `description*`, `model/`) | none | decode, encode, patch, convert | bytes the codec does not own | unknown bytes survive an edit |
| Validation (`service/validation/`) | none | check profiles, macros, steps | limits | what is accepted fits the pad |
| GUI worker (`gui/worker.rs writes.rs`) | what was reported per port, the debounce, commands | poll, read, write, unlock, relock, announce | commands and polls alternate; a command changes what the next poll sees | the window is told of every settled change, and of nothing else |
| GUI window (`gui/state.rs controllers.rs review.rs batch.rs closing.rs locked.rs main.rs`) | slots with read and edited profiles, the open dialog, the running job | edit, review, confirm, handle events, close | events land while a dialog is open or a job runs | an edit is lost only when the user says so; one job at a time |
| Macro editor (`gui/macro_*.rs macros.rs step_*.rs`) | macros, steps, selection, undo | add, split, move, delete, assign, revert, import | the button map and the macros are kept apart; glides left without an end | a button starts one macro; the step table stays valid; undo is exact |
| Settings (`gui/settings.rs buttons.rs files.rs`) | a profile | edit, import | what the schema, the checks and the codec each allow | what one can make can be written |
| Keepalive (`gui/keepalive.rs fix.rs holders.rs`) | watched, judged and held nodes | watch, judge, hold | a pad reconnecting in a loop | a pad that stays is held |
| CLI (`cli/`) | files | export, upload, upload-all, macros, patches | a folder written by another run, a pad changed since | an export comes back |
| Desktop services, rendering, logging | files, none | load, save, draw | I/O | not of the core logic |

How they interact: the window sends commands to the one worker thread over an
mpsc channel and gets events back over another; the worker calls the write job,
the reads and the unlock in the core, each of which opens sessions over the
transport; detection and keepalive read sysfs from the worker's poll. The CLI
calls the same core from one thread.

## 2. Plan

The modules are in three groups.

- What a batch does: `PadPromise` (the promise) <- `Plan` (how the banks are planned,
  over `Bank`, the slots of both codecs) -> `WriteBatch` (how they are written) ->
  `Session` (the packets of its calls), beside `Lock` (unlock and relock), over `Wire`
  (the bytes of a packet). `Cli` and `Editor` extend `Plan` by the commands of the CLI and
  by the window's macros tab.
- What the GUI does with pads: `Worker` <- `Keepalive` (which implements it), `Desk` (the
  worker and the window's lists), `Window` (edits, dialogs and jobs).
- What is edited: `Steps` <- `StepEditor` (a macro's steps, the table and Ctrl+Z); `Profile`
  <- `Codec` <- `Pro3Codec`, `UltimateCodec` <- `Settings`.

The abstract specifications are `PadPromise`, implemented by `Plan` and by `Cli`, and
`Worker`'s, implemented by `Keepalive`. `WriteBatch` and `Session` meet at the calls of
`DeviceIo`: a call of `WriteBatch` answers or fails, and fails with or without effect,
which is what `Session`'s calls do (`SuccessIsThePads`, `HandedBack`); the two are not
composed in a run, whose states would be the product.

Proofs, in the order of what they say about the system: the write stage, the
worker, the window, the wire, the transport, the plan, the CLI's planning, the step
editor, the settings and the macro editor are done (section 4). Left: `ShownIsPlayed` of
`StepEditor`, and liveness, which is out of reach.

## 3. Modules and runs

A module's head comment says what it abstracts. Names are those of the source
where TLA+ allows it. Type invariants are proved where there are proofs (`WriteBatch`,
`Worker`, `Desk`, `Window`, `Lock`, `Plan`, `StepEditor`, `Editor`) and not repeated in a cfg.

### `WriteBatch`: the write stage

One step is one device call of `ProfileWriteOrchestrator::write_slots`; `pc` names the
call made next. `order` are the dirty banks in the order they go out, `result`
what each `WriteResult` says, `bank`, `gone`, `page` and `applied` are the pad's
flash, `session` is `HidrawDevice::held`. The plan is the module's input: any
order, any set of active banks, any page counts that `plan` can produce.
`Answers` and `Fails` are the two outcomes of a call: a call that fails drops the
held session whether or not the pad acted on it; a call that answers ran on the
held session or on a fresh one, which `hidraw_write::open` refuses in a mode that
takes no writes. `Replug` may happen between any two calls. An image is as read,
as sent, torn, or "alike": other bytes where nothing is decoded, which `read_back_slot` cannot tell
from what was sent (`AsSent`). A page is as read, as sent or broken.

**Properties.** `SuccessIsWhole`: when the run is over, a bank reported as written still decodes as it
was sent and is applied, pages included, whatever came after it. `SuccessStandsUnlessUndone` says
it of a run that undid no bank, and `OnlyUndoingStrays` why only undoing can break it: every other
image goes to its own bank. `RolledBackIsRestored`: what is reported as rolled back is as it was
read. `UnwrittenIsUntouched`: so is what is reported as refused or not written.
`DanglingIsReported`: a descriptor of a page that is not its own is never left
behind without the message that says so. `LossIsOnFile`: a macro that was replaced
and did not come back is in a file, or the message says that it could not be
saved. `FlipIsUndoneOrReported`: a flip that is left is told. Two action properties are only proved:
`OnlyTheCurrentBank` and `SettledStaysPut`, a call writes only the current bank, and
never again one that has a result.

**Fairness.** None: the job is straight-line code without a wait of its own and with no retry, so that it
ends is that it never gets stuck, which the runs check as deadlock.

| Run | Instance | Shows |
| --- | --- | --- |
| `batch_pro3` | 2 banks, 2 pages each, flip, unvalidated, 1 replug | the other six with any call failing, and that no path gets stuck; 1,126,000 states |
| `batch_ultimate` | 2 banks with a read-back each, images may be stored corrupted or alike, 1 replug | a success stands unless a later bank is undone, and why |

Two banks are enough to have one before, one current and one after a failure in
the two positions of the order; two pages give a page before and after the failed
one. One replug is enough for a stale session at every call; two add only
repetition, since a session that is stale stays stale until a call fails. A page that is
stored corrupted is in no run: what the last read-back then says of it is proved
(`SuccessHolds`, `SuccessStandsHolds`), which leave `Silent` open.

### `Bank`, `Plan`, `PadPromise` and `Cli`: what a batch of jobs becomes

`Bank` has the slot operations of both codecs: a slotted model (Pro 3) keeps a
descriptor in each macro slot and the steps in pages of their own, a packed one
(Ultimate) keeps the macros in the blob, one behind the other, and renumbers them
after each edit. Step lists, outputs and buttons are values of small sets. `Plan`
is `plan` of `batch.rs` with `plan_macros` of `orchestrator/macros.rs` and `patch.rs`: `Begin`
starts a batch with the read of every bank, `PlanJob` folds one job into its bank,
`RefuseBatch` is every early return, `Write` the write stage as one step (`WriteBatch` has
its failures). `policy` is the confirm policy; `abort` refuses what would ask.

`PadPromise` is what a batch promises: `view` is what the pad shows of each slot, and
a batch is asked for, then fulfilled in one step, every slot as its job asked with
all macro edits made at once on what the slot showed, or refused without a trace;
under `abort` it loses no macro.

`Cli` adds the command line: `export`, `upload-all` with and without macros and with
"clear the missing slots", `upload`, `write-macro` and the patches, each a batch of `Plan`.

**Properties.** `KeepsPromise`: `Plan` implements `PadPromise`, mapping `view` to what each slot
shows. `PutsStartAlone`: no put macro shares its trigger with another of its slot.
`PagesCoverReplaced`: every step page that is filled is written, and saved before when
it was in use. `ExportComesBack`: `upload-all` of an export, with macros and with the
missing slots cleared, brings back what each slot showed.

| Run | Instance | Shows |
| --- | --- | --- |
| `plan` | pads of both kinds, 2 modes, 2 slots, 3 macro slots, 2 buttons, 2 step lists | all four, for the app's batches and the CLI's commands |

Bounds: a behaviour is an export, one batch of the app (any of `Batches` alone, or one
of `Between` after an export) and one command, in that order at most, and only `upload-all`
follows the app. Batches of up to three jobs and up to three edits of one slot are
enough for a put and two deletes to renumber each other. One program writes at a
time. A torn file stands for a failed write part-way. Profile names, the limit on
triggers per macro and the glide drops of a conversion are left out; refusals of
`upload` and `upload-all` before a read are no batches.

### `Session` and `Lock`: the transport

`Session` has every call of `DeviceIo` packet by packet on one port path: the lookup and
open with its refusals, pause and resume, START_CONFIG, the chunks of a bank and a
macro page, the session a write job holds, the flip and the way back. A packet is
its command and a part; the host takes the first report that echoes the command,
as `Framing::reply` does, and checks the offset only where the code does. `Lock` has
every usbfs step of an unlock, the wait for what comes up, the release on every
path, and the relock, on the same port path. A pad obeys the packets it
understands but may answer late, wrongly, twice or not at all, and may leave at
any time. The pads are external, and what is taken of them is `KindAssumption` and
`DescriptionAssumption` (which ids pads share) and: a late answer arrives at the latest
while the next session settles; resume, release and connect are obeyed unless
the pad is gone; a flip or close may be ignored. Finding and opening a port is one
step. I/O errors other than "gone" are not told apart for a packet that expects no
answer, and the replies to pause and resume and the cap on drained reports are
left out; the drain carries none of the properties.

**Properties.** `HandedBack`: when no call runs, what a call took of a pad is given back: its
input, the interface, the driver. `SuccessIsThePads`: a call that succeeds took the pad's
own answers to its own packets. `UnknownIsLeftAlone`: a stranger, a pad of a model nobody
validated, a locked pad and one that may be Nintendo's hear nothing they may not
hear.

| Run | Instance | Shows |
| --- | --- | --- |
| `transport` | five kinds of pads, 4 calls, 2 chunks, 3 plugs | all three; 1,455,432 states |

Two chunks tell a first, a last and a repeated answer apart, four calls let a late
answer of one reach the next of another kind, three plugs put a stranger between
two pads. Query, erase and APPLY are the packets of other calls without a chunk and
are left out of the instance, not of the module or its proofs.

### `Wire`: packets and frames

The layout of every packet, the three frames, the chunks of a bank and of a macro
page, and what the decoders take, as operators and functions over bytes; the CRC
is an operator without a definition, and a pad's framing of its replies is
external. There is no run: its theorems are proved for all 16-bit sizes (section
4). Read with them: a read-macro reply's echoed size is not compared with the size
asked for, a write-macro reply echoes no offset, the payload of `write_patch` (a
developer command) is cut at 46 bytes, `ReadsStayInTheirPage` is about macros of at most 408
steps, and a wrapped frame loses byte 45 of a chunk.

### `Worker` and `Keepalive`: the thread that owns the controllers

`gui/src/worker.rs`. `bus` is what is on each port path (a supported config port, one
of a model nobody validated, a lookalike that only shares the USB id, an unlisted
id, a locked controller), each under the device number of its enumeration.
`reported`, `candidate` and `agreeing` are the fields of `Debounce`, one per port;
`locked_seen` and `unsupported` are the locals of `run`; `cmds` and `evts` are the
two mpsc channels, `cmd` the command that runs.

`Poll` is `recv_timeout` running out: `scan_sysfs_all`, `Debounce::observe`,
`poll_locks` and `report_refused` in the code's order, with the ports of each hash map
told in any order. It is one step, since it reads sysfs within milliseconds. A
command is two, `Take` and the end of its kind, and pads move between the two: `broken`
says that the command's pad did, which is what makes a read end `Disconnected`.
What a session answers depends on the pad that is there when it ends
(`Answer`), so the retry of `read_with_retry` may reach another pad. A write whose mode
`WriteVia` flips ends with the pad back, still in the mode of the flip, or away (`Leaves`); an unlock
fails before the pad moves or after, with the pad away or its port up (`Unlocks`), and a relock
fails with the pad there or away. `Client` is a window
that sends any commands and takes events when it likes. `log` and `untold` are history: what the
last polls saw, for `TellsOnlyAgreed`, and which ports a command left in another mode or empty
while `mark_seen` counts that as reported and no event has told it.

`Keepalive` composes the worker with `keepalive.rs`: a pad that resets while nobody has its
event node open is held open from here. Each poll takes every watch one step on,
judges those that end and opens the nodes of the judged. A node that is missing and
one that does not open are one case; an open node stays while its pad does; the
verdicts and the window's offer are not modelled, and counters are capped where the
code only compares them.

**Properties.** `TellsOnlyAgreed`: what a poll tells of a port is what every one of the
last `SettlePolls` polls saw there, whatever commands changed the debounce in
between. `HeldOnceItStays`: a pad that needs it and stays is in the end held. One property is only
proved: `LetsGoOnlyOfTheGone`, a refused or unsupported pad is let go of only with its `Unplugged`
event, or as a locked pad.

**Fairness.** A weak one on commands ending; a strong one on a poll whose node opens, since a
node that keeps being refused need not open; `HeldOnceItStays` has the premise `[]<>Idle`, since a
client that always has another command waiting starves the polls, which is true of
the `recv_timeout` loop.

| Run | Instance | Shows |
| --- | --- | --- |
| `worker_any` | 1 port, every kind, 2 modes, 3 polls, any client, 1 mode that resets | both, whatever the window and the pads do |

### `Desk`: the worker and the window's copy of what it was told

`Handle` is `handle` of `main.rs` with `lock_event` of `locked.rs`: one action per event
and outcome, each setting what the handler sets in `AppState` (`ctl`: the
controllers by port, `locked`: the status of each locked panel, `relock_sent`,
`access`: the permission screen) and sending what it sends. `User` are the clicks that
send a command. Slots are abstracted to the device number they were read from,
and whether a controller that left holds edits, which keep it listed, is left open.

`denied` and `assumed` are history: the ports whose last answer was that the user may not open
the pad, and the panels a relock put up that no list of the worker has covered.

**Properties.** `PresentIsTrue`: with no event on the way, what the window shows as
present is what the worker counts as reported (otherwise no later poll would ever
correct it), unless a command left the pad so without a word (`untold`); and a pad
that was never read is being read, or its read failed or was denied. `UnlockingIsAnswered`: a panel
that says that its pad unlocks has its answer on the way. `ShowsThePads`: once the pads stay as they
are, a read that the window waits for ends, and but for the untold pads it shows each in its
mode, with slots read from that very enumeration or the reason why not. `LockedIsListed`: the locked
panels are then those of the locked pads, but for the assumed ones.

What these leave out is what the code does not keep (section 5). `untold` are the ports a command left in
another mode, or without the pad, and no event has told since: a write whose flip was not
undone, an unlock that failed once the pad had moved, a pad the user changed under either. On such a
port the window shows the mode before, or nothing, until the next replug, and a command that
leaves the mode as it was adds none. `assumed` keeps one case out, a relocked pad that moved again before
the next poll. Without its exception TLC finds each of the three violated.

**Fairness.** `WF_vars(Worker)`: the loop of the thread runs on, and each of its calls
returns at worst by a timeout. `WF_vars(Handle)`: the event loop calls `handle` for each
event. Nothing of the pads or the user.

**Bounds.** `SettlePolls` is 2 or 3 instead of 4: two already tell a first sighting from
a settled one, and the code uses the number only in one comparison. `MaxDevnum` enumerations
(two or three: the pad, its replug, the flip of a command), `MaxQueue` events that are
not taken (the worker waits then; the code's channel has no bound, so a longer
queue only delays the same events), `MaxSend` commands of the client of `Worker`,
`MaxClicks` of the user. With `Unsettled` pads may change at any time; without it no pad changes while a
write or a lock command for it is queued or runs, a pad of another kind comes
only to a port a poll saw empty, and the user acts on what the window was told. The two
liveness properties need that: a pad that is replugged within one poll, or under a command, may leave no
trace in any list. What the commands themselves do to a pad is in every run.

| Run | Instance | Shows |
| --- | --- | --- |
| `desk_one` | 1 port, every kind, 2 modes with a flip, 4 enumerations, 2 clicks, settled | `ShowsThePads`, `LockedIsListed`; 811,000 states |
| `desk_two` | 2 ports, config ports and locked pads that change at any time, 2 enumerations, 2 clicks | `PresentIsTrue`, `UnlockingIsAnswered`; 1,450,000 states |

### `Window`: what the user edits, and what becomes of it

`AppState` without its locked panels (those are in `Desk`). `ctl` are its
`controllers`: `pad` what each slot holds, `edited` the working copy over it, `changed` the
slots of the changed-slot question, `there` whether `mode` is set. `write` is
`WriteState` field by field; `asks` holds `closing`, `relock_asking` and `pending_import`;
`relock` holds `relock_after_write` and `relock_sent`. `picking` is the file dialog, a thread of
its own whose answer lands whatever the window shows by then (`FileLands`).

`Handle` is `handle` of `main.rs`, one action per event and outcome, each with the calls
the handler makes in its order: `HandleRead` takes the read in, asks for the steps,
lets the review and the batch go on (`review_read`, `batch_read`), and sends the write of
a review that is skipped (`skip_empty_review`). `settle_close` and `settle_relock` end every event
(`Settle`); the code runs them once after draining the channel, which comes to the
same, since each only clears its flag and no event sets one. The methods of
`review.rs` and `batch.rs` are operators from a `WriteState` to the next. `User` are
the clicks: those on the window itself need that no dialog shows (`Free`), for the dialogs
of `app.slint` swallow every click; the others answer the topmost dialog (`Answers`,
by the order of `Dialogs`). Close requests and files come at any time.

The worker is abstracted to what `Worker` has of it: commands are answered one at a
time and in order, polls run while none waits, `reported` is what was told last of a
port (nothing, the pad that is there, or one that was there before). A write stores its
first `n` jobs and fails at the next, which may or may not have reached the pad.
`Move` are pads that come, go and change, and another program that writes one.

Left out of the module: the macros' own edits (a profile is a value, and a slot's
macros are part of it), leftover macros and clashing settings (both only keep a
review from being skipped), the permission screen, the keepalive's dialog and the
"stopped" dialog, wording and layout. All slots are of one mode and all pads of one model.

**Properties.** `EditsStay`: no worker event takes an edit, but a write that stored it or
a relock. `WrittenIsTheEdit`: a write that came back takes only edits it stored.
`ReviewIsTrue`: a review that shows compares with what the pad really holds, also after
a write that failed half way. `OneAtATime`: one write is under way exactly
while the window says so, and one of the review, the clear question, the failure and
the batch stands at a time. `WaitsEndWithTheirWrite`: the writing dialogs have
no button, so whenever one shows a write is on its way that takes it down, and the
relock that waits for a batch goes with it wherever the batch is dropped. `WritingEnds`:
every write ends. `QuestionsStand`: the close and the relock question stand over edits
that are there, and the window never closes under a write.

**Fairness.** `WF_vars(Handle)` and `WF_vars(Worker)`: both threads run on. The user may stop at any
time and the window may close, which ends everything: hence `CHECK_DEADLOCK FALSE`.

**Bounds.** Two ports with one slot, or one port with two. Two profiles: the read
and the edited one differ, and a third value is the empty slot. `MaxClicks` 3 with
pads that move once reaches edit, "Write n slots and relock" and every way its batch
ends; 6 with one pad that stays reaches a batch of two slots that fails half way,
its retry and the next question over it. `MaxQueue` 1: the worker waits while an event
is not taken; a longer queue delays the same events behind one another.
`StepsFail`, `Moved` and `Files` switch the environment on. `ReviewIsTrue` needs pads that only the
window writes (`Moved = FALSE`), `OneAtATime` that step reads do not fail and that there is
one port (section 5), and `WrittenIsTheEdit` that no file lands during a write
(section 5). Ports and profiles are interchangeable, and `window_pads` uses the symmetry; the one
`CHOOSE` that could tell ports apart is never made, since the picked controller is
listed whenever one is (the conjunct of `TypeOK`).

| Run | Instance | Shows |
| --- | --- | --- |
| `window_pads` | 2 ports, 1 slot, 3 clicks, 1 move, failing steps, imports | `EditsStay`, `WaitsEndWithTheirWrite` |
| `window_slots` | 1 port, 2 slots, 6 clicks | the other properties, `WritingEnds` under fairness |

### `Steps` and `StepEditor`: the steps of a macro

`Steps` has what a step holds, `Expand` and `Fold` of `model/glide.rs` (a pad records no
glides: each is cut into short steps and found again), and the edits of
`gui/macro_steps.rs` as operators on a list. `StepEditor` is the Macros tab of the window:
the step table, one undo list for every controller, reads, writes, imports.

**Properties.** `GlidesEnd`: a glide leads to a step that holds its control
elsewhere, and its switch is offered exactly where it stays on. `ShownIsPlayed`: what
the table draws is what plays, before and after the macro is recorded, read again or
split. `UndoChains`: the undo entries of a macro lead from one to the next up to the
steps shown.

| Run | Instance | Shows |
| --- | --- | --- |
| `steps` | 1 stick, 1 trigger, 1 button, lists of up to 5 steps, 2 macros, 3 changes | all three, in every order |

Bounds: three changes make an edit, one that changes it again and a Ctrl+Z of
either; values are a rest, a full and one between. Triggers are analog; what a mode whose
triggers are on or off keeps of them (`Kept`) is covered by the proof. One pad (section 5
has what happens with two).

### `Editor`: the macros of a slot beside its button map

The window's two tabs on one slot over `Plan`: a profile that is read, edited or
imported, macros with triggers that the button map must leave alone, Revert, the
changed-slot question, and the write of what is shown. Reads and another program's
writes come in any order.

**Properties.** `OneStarter`: a button starts one macro at most, and one that does has
its default output. `JobIsAccepted`: the checks take what is written. `ShownIsWritten`: a
write that succeeds leaves the slot as shown. `RevertPutsBack`: what "Revert" says. All but
`ShownIsWritten` are of edits nobody wrote under (`Undisturbed`): a program may write two
macros with one button, and when the first is deleted and the second is not, Revert of a third that
took the button leaves it to the second.

| Run | Instance | Shows |
| --- | --- | --- |
| `editor` | 2 buttons, 2 macro slots, 2 edits, one write of another program | all four |

Bounds: the other program clears the slot on an Ultimate and writes another profile
on a Pro 3. Files land only while no write runs, macros are valid and have no bits that
name no button, one mode, one read at a time. The proofs bound none of it but the mode
and the reads.

### `Profile`, the codecs and `Settings`: what can be set, and what is stored

`Profile` is a canonical profile and what a controller description says of it, with the
checks of `service/validation/profile.rs` and the conversion between modes; `Codec`,
`Pro3Codec` and `UltimateCodec` are the two byte layouts, with the raw values that several
bytes read as. `Settings` edits one slot in the GUI, imports files over it, patches it
from the CLI and writes it. What the shipped descriptions, slots and files are next to the
codecs is `StartsAssumption`: a mode's settings are the codec's with its ranges (`Matches`), as
the tests of `devices/pro3/mod.rs` say for the Pro 3, every output of an Ultimate has a code of
its own, and slots and files have the shape of `IsSlot` and `IsProfile`.

**Properties.** `WrittenReadsBack`: what is written reads as it was asked. `OthersStayAsRead`: what
was not asked to change stays byte for byte. `EditsAreAccepted`: what the GUI lets one make
can be written, in a mode that has all groups of its codec's profile (`DeclaresAll`: DInput on the
Wired and 2.4G Ultimate has not, section 5). `NoClashIsMade`: no write makes two flags clash that did not. `LossIsListed`: an
import lists what it drops.

| Run | Instance | Shows |
| --- | --- | --- |
| `settings` | one slot of a Pro 3, an Ultimate and a wired one in every mode, one edit, import, write and command each | all five |

Bounds: a behaviour keeps to one tab, rows that have to do with each other; the values
are 3 and 70, a strength is in twentieths; some buttons (for the Pro 3 two faces,
two shoulders, home, turbo and two paddles, for the Ultimate those with the star and two
paddles). Files have the codec's shape, the firmware offers every extra, macros aside.
A slot is read right after each write.

## 4. Proved, and out of the prover's reach

All theorems hold for every value of the constants under the assumptions the
modules name. Each invariant that is not inductive has a strengthening:

- **`WriteBatchProofs`**. `WriteInv` (addressing): the banks before the current one have
  their results, the banks after it are as read, and while a call may still reach
  the pad the last slot select named the current bank (`SelectedWhileReached`). It gives
  `SuccessIsWhole`, `UnwrittenIsUntouched`, `OnlyTheCurrentBank` and `SettledStaysPut` under `Addressed`: one
  bank, or no read-back and no replug that leaves a writable pad. Without it the
  selection moves under the rollback and they are not true of several banks
  (section 5). `StandInv` needs no `Addressed`: up to the first call that fails the job has its session,
  and while it has it nothing but its own calls moves the selection, so whatever is not an undoing
  reaches its own bank. It gives `SuccessStandsUnlessUndone` and `OnlyUndoingStrays` on every pad, with any
  number of banks, pages and replugs. `MacroInv` (macros): which pages and files hold the old steps at each
  call; it needs no `Addressed`, since a step page is written by its own address, and
  gives `LossIsOnFile`. On both stands `BackInv` (the rollback), which gives
  `RolledBackIsRestored` and, with `MacroInv`, `DanglingIsReported`. A pad that corrupts what it acknowledges must be
  one whose writes are read back, for `LossIsOnFile` and `DanglingIsReported`; for
  `RolledBackIsRestored` no pad may, since a corrupted restore is not noticed by any
  call. `FlipIsUndoneOrReported` needs no hypothesis.
- **`DeskProofs`**. Of the worker alone: `TypeOK`; `TellsOnlyAgreed` by `Agreed`: the last `agreeing[p]` polls saw
  `candidate[p]` (the count alone is not inductive: a command that forgets the port
  must be shown to start the count again); `LetsGoOnlyOfTheGone` from the types.
  `KeepaliveIsAWorker`: `Keepalive` implements `Worker`, so the worker's theorems hold of it.
  Of the worker and its window: `DeskTypeOK`; `UnlockingIsAnswered` by `Awaited`, which follows the answer from
  the command's channel to the running command, to the events' channel, to the
  handler that takes the pad out of "unlocking". `News` and `Accounted` give `PresentIsTrue`: the last event
  in the channel that tells of a port, or the window when none is, fits what the worker
  counts as reported, unless the port is `untold`; a controller with no slots read is being read or
  says why not, since a pad that answers a read has a number. It has no hypothesis: any
  number of ports, pads that change under any command, writes that leave a pad flipped.
- **`WindowProofs`**. `WindowInv`: the types, part by part (a `WriteState` whose parts fit each
  other is `GoodWrite`), with `EditsKnown` (an edit is of a slot that was read) and
  `PendingListed`. `WaitsInv`: the write that is running is queued or its event unhandled.
  They give `TypeOK`, `WaitsEndWithTheirWrite`, `EditsStay` and `QuestionsStand`, for every number of
  ports, slots, values and clicks and every length of the queues. For one controller whose
  macro steps read, `AloneInv` (one stage of `AppState::write` stands, nothing waits for a read that is
  not on its way, one write or its answer is) gives `OneAtATime`; `Matches` (the jobs of a
  write are the edits as they stand, or clear them), with no import, `WrittenIsTheEdit`; `Compared` and
  `Fresh` (what is reviewed, and every read on its way, is what the pad holds or is overtaken by a
  write's answer), with pads only the window writes, `ReviewIsTrue`. Without these hypotheses the three
  are not true (section 5); they are those of the run `window_slots`, with imports and moving pads
  let in where the property stands them.
- **`TransportProofs`**, of `Session` and `Lock` together: `InFlight` (a report that is queued or owed
  answers the packet that waits or comes after it has given up), `PausedIsHeld` (a pad is
  paused only under a session), `Whole`, `Locks`, `Strange` and five smaller parts. They give
  `TypeOK`, `HandedBack`, `SuccessIsThePads` and `UnknownIsLeftAlone` for every number of chunks,
  calls and plugs and every set of kinds that `KindAssumption` allows.
- **`TransportProofs`**, of `Wire`. No state: seven theorems about every 16-bit size, every bank and every
  frame. The chunks cover a bank and share no byte, the packets carry every byte at
  its place and nothing else, a read puts the bank together, macro packets stay in
  their page, and the frames lose no byte of a header, nor of a payload but the 45th.
- **`PlanProofs`**, of `Plan`. `Sound` is inductive on any pad: the types, the base is the pad, a planned
  slot is its job's own, the others are as read, puts start alone, pages are
  planned. It gives `TypeOK`, `PutsStartAlone` and `PagesCoverReplaced`. `Faithful` adds what
  each planned slot shows and, where nothing was asked, keeps. With `SteppedPads` the two give
  `KeepsPromise`, the refinement of `PadPromise`. Its core are `PackedChain` and `SlottedChain`: the edits
  of a job made one by one, in the order of `plan_macros`, leave what all at once do,
  although a packed model renumbers its macros after each. They go by the least
  edit that would not (`LeastNumber`), as the sorted enumerations do.
- **`PlanProofs`**, of `Cli`. The same three for `CliSpec`, which is what the run `plan` checks: its
  commands start other batches than `Batches`, made from files found or exported. `CommandIs` shows that
  a step of `Cli` is one of `Plan` with some well-formed batch (`PlanStep`), so `Sound` and
  `Faithful` are kept, for every folder, every set of files and every order of exports, commands
  and the app's batches. `FilesOK` is what the folder adds to the invariant: also after an
  export that stopped halfway, each file is one the commands can read or refuse. That the jobs are
  well formed needs no order of the files: `ListIs` is about `SetToSeq`, whatever it chooses.
  `KeepsExport` and `Restores` give `ExportComesBack`: what an export saved is in the folder as it
  showed, or showed nothing, and the batch of a restore has one job for each slot, each of
  which asks for what was saved. With `Faithful` the write shows it; and as no
  saved macro presses another output, no put of a forced restore is refused.
- **`StepsProofs`**. `Inv`: every list that is shown, held on a pad or kept for Ctrl+Z is typed and
  has right glides (`Right`), and the undo entries are `Linked` to each other and `LeadsTo` the
  steps shown; the counts of the other changes, which never fall, tell which entries
  still do. It gives `TypeOK`, `GlidesEnd` and `UndoChains` for one shown pad (section 5 has two), in any mode,
  with any values, lists, numbers of edits and depth of the list. That what a pad is
  read as has right glides (`FoldIsRight`) is an induction over the recursion of
  `Fold`: no induction theorem can be cited for it, so each recursive function is shown to
  exist, and to have its property, by the least number at which it would not
  (`LeastNumber`); so are `FlattenSeq` in `FlatIs` and the sum in `TotalMsIs`. A folded step is as
  long as its run, and its glides lead on because its run is what it plays as.
- **`SettingsProofs`**. All five of `Settings`, for every description, slot, file and number that
  `StartsAssumption` allows. `Inv`: the slot and the working copy have the shape of the codec's,
  and an import shows what `Convert` made of a valid file; `LossIsListed` follows from it, the three
  action properties from it and the step. `WrittenReadsBack` needs what each write asks for to be
  known (`AskedIsKnown`): in range, or what the slot read as. Then the codecs give it back:
  percents and levels by arithmetic (`Pro3PercentComesBack`, `UltimatePercentComesBack`), outputs of
  an Ultimate since no two share a code, those of a Pro 3 by `TargetOfCode`: on every button but
  home, in every mode, the code written for an output is read as that output, though faces
  have two codes and paddles share theirs with other outputs (`CodesDiffer`,
  `OnlyCodesDiffer`, from the tables as they are).
- **`EditorProofs`**. All of `Editor`, for every pad, set of files and number of edits that
  `EditorConstants` and `EditorData` allow. None of its properties is inductive: what a slot
  shows comes from the map and the macros as read and as edited, and an edit may copy, put
  back or import any of the four. `EInv` is `Plan`'s `Sound` and `Faithful` and five parts. `Modal`: a write
  is one job, and nothing is edited or asked under it. `InStep` and `JobIsShown`: where
  `Synced` holds, the slot as read is what the pad has, the steps apart; it does whenever there
  are edits, a review or an upload that began on a fresh read. `Clean`: as long as no other program
  wrote, the edits are `Neat`: a button is in one edited macro at most and has its default
  output then, also with the import that waits for a yes. `Fits` is what keeps
  `Neat`: a button that starts a macro on the pad has its default output
  wherever the window, or an import, has it start one, so the first edit of a macro, which copies
  all of them, Revert and an import of a map alone bring no clash. With `Neat` no macro that
  is written shares a trigger (`EditsAreTaken`), which gives `JobIsAccepted`, and `OneStarter` (`StartsOne`).
  `ShownIsWritten` needs `Synced` only, so it also holds after another program wrote: what the
  job leaves out as unedited is on the pad as read (`UploadShows`). `RevertPutsBack` follows from `Neat`
  and what `Reverted` leaves of each macro (`RevertIs`). Every step of the reads keeps
  these although the edits are kept or dropped by comparison with what was read (`ReadNeat`).

`SteppedPads` says that no pad of a slotted model holds a macro with a trigger and no
steps. The program never writes one (`macro-v1.schema.json` wants a step), and on a
pad that holds one `KeepsPromise` is not true (section 5).

**Constants taken as given.** Two assumptions are about representation: `NothingIsNoRecord` of
`Window` and `Lock` says that Rust's `None` is no `Some`; `PlanConstants` that `Keep` is no map.
`StartsAssumption` says what the shipped descriptions are; TLC evaluates it on those of the run.
`EditorConstants` has the shapes of the constants of `Editor` and what the short form of
a macro's steps is; `EditorData`, that every macro is valid (a step at least, no
unknown button), that the checks of a file refuse one with two macros for one button, and
that no pad has, to begin with, two macros for one button or a button with an output of
its own that starts a macro: the controller would send the macro in place of the output. What
another program writes later may have both.

**Model-checked only.** Liveness, which the provers do not do: `HeldOnceItStays`,
`ShowsThePads`, `LockedIsListed`, `WritingEnds`. Not proved:
`ShownIsPlayed` of `StepEditor`: that the short steps of a list are those of what `Fold` makes of
them is an induction along both recursions at once.

## 5. Where the code and its documentation disagree

Found while modelling. Each is a path a property names as its exception (`SuccessStandsUnlessUndone`,
`untold`, `assumed`), one the instances above leave out on purpose, as their bounds say, or one
that no property is about.

Writing:

- The rollback after a read-back goes out without a slot select, while the read-back
  has just selected the bank of the current mode: it reaches the bank of another job, already
  reported as written, though `batch.rs:121` says that the banks before a failed one stay
  written, or, where the pad ignores it (`device_io.rs:104`), restores nothing.
- The image of a rollback is taken for restored when it is acknowledged, also on an Ultimate, of which
  `device.rs:93` says that every profile write is read back.
- `begin_write` flips the pad and cannot open it again; nothing sends it home and no
  message says so when no write had begun.
- An ignored flip (`send_last`) leaves the input paused until a replug, while
  `transport/session.rs:3` says that the session resumes it "when it is dropped, error paths
  included".
- The APPLY before the step pages fails: the message says that the write succeeded
  (`orchestrator/write.rs`), though no page went out.
- A bank whose target slots were empty is left torn by a failed write
  (`service/rollback.rs` rolls back only an active slot), while `batch.rs` says that a bank
  whose write fails is rolled back.
- A macro of a Pro 3 with a trigger and no steps, which other programs may have
  written, is no longer shown once its last trigger is dropped (`drop_macros` of
  `pro3/edit.rs` zeroes it, `pro3/macros.rs` skips it), also under `abort`.
- `set_macro` of the Ultimate encodes every macro of the slot again, which has no place
  for the trigger bits nobody knows (`orchestrator/macros.rs:32`).

Worker and lists:

- After a write `mark_seen` takes whatever is on the port as reported, and `Written` tells no mode: a
  pad that is left in the mode of the flip shows in the one before, though `controllers.rs:19` says "The
  mode the controller presents now". The same goes for what the user changed meanwhile.
- An unlock that fails once the pad's port is up, because its node does not open in time or the
  interface cannot be given back, marks the port reported too: the window never lists the pad, also
  after the rule is installed, though `state.rs:178` says "Every controller present".
- The window edits its own list of locked pads while the worker compares each poll
  with the list it last told: a relocked pad that has moved again before the next poll stays
  listed, though `state.rs:224` says "The locked controllers attached".
- One permission screen serves every pad: any event of another controller takes it
  down (`gui/controllers.rs`, `self.access = None`) while the first is still denied, though `state.rs:190`
  says "Set while opening the controller is denied".
- The fix offer stays (`fix.rs`, `fix_gone`: "went away, or no longer needs the offer") when
  a pad changes to a mode without `needs_keepalive` without a settled absence, or was
  judged before it was reported.

Window:

- A step read that fails clears `reading` while the read a review waits for is still
  queued, so "Write all" is on; the review of an empty slot confirms itself, the batch
  opens its review beside it, and two writes are under way at once.
- "Discard" while the controller is read for a review leaves the review set and
  hidden; "Write", "Write all" and "Clear slot" stay off.
- A file that lands during a write replaces the edits that are being written, and
  they count as written when it comes back (`gui/review.rs`, `job_finished` takes whatever the
  working copy is by then); `ui/dialogs.slint` says of the writing dialog that nothing may
  change under the write.
- Edits made after a relock was sent go with it unasked (`gui/locked.rs`, `relocked`).
- A pad that leaves while it is read for a batch leaves the batch in its reading
  stage, and writes stay off until that port is read again or another controller is
  picked.
- "Move the edits?" can be answered onto itself. `move_candidates_for(to)`
  (`gui/controllers.rs:343-350`) does not leave `to` out, and `pending_move`, which only a removal or
  the answer clears, outlives its question when the old pad comes back: edit pad 1,
  unplug it, plug pad 2 in (the question), plug pad 1 back (it hides), edit pad 2,
  unplug it. The question shows again with pad 2 as its only candidate, and a yes
  removes pad 2 and loses its edits (`:351-354`: "listed controller `from` hands its edits to the
  waiting new controller and goes").
- Ctrl+Z looks an edit up by slot and macro only, in one list for every controller
  (`gui/step_table.rs:202`): with two pads it can undo on one what was done on the other
  (`StepEditor`'s `SpecPads` and `UndoTakesBackItsOwn`).
- After a write the window takes its own copy for what the controller holds until the
  next read (`gui/review.rs:257`). Where the controller holds it otherwise (an Ultimate packs
  its macros), edits begun before that read raise "Another program wrote to the
  controller after you started editing" (`ui/dialogs.slint:395`), though none did.
- A button that is mapped away from its macro and put back on it has its macro in the working
  copy of the macros again, and not in that of the profile (`gui/macros.rs`, `leave_macros` takes it from
  both, `join_macro` gives it back to one). The next read drops the macros' copy, which is
  equal to what was read (`take_macros`), and keeps the profile's: the button is off its macro, and
  a write drops it there, though `gui/controllers.rs:59` says that a read "keeps the edits".
- "Imported ..." shows though `edit_macros` does nothing while the steps are unread
  (`gui/macro_files.rs:146`); a macro import that waits survives "Take the controller's"
  and can make a button start two macros.

Settings and files:

- The Ultimate's 2.4G and Wired descriptions have a vibration page only in XInput, but
  decoding puts `vibration` in always: a DInput profile that was read is refused
  (`service/validation/profile.rs:146-149`).
- A file that maps a button of an Ultimate to one that is no output is valid and
  imports, and the write refuses it.
- A raw stick above 128 of an Ultimate reads above 100 %.
- An unknown code of an Ultimate's map decodes as disabled and is written back as 0,
  though `ultimate/profile.rs:322-324` and `patch.rs:2` say that it stays. A patch of a Pro 3 swaps
  trigger ranges that are the wrong way round, encodes clamped values again, clears
  unknown flag bits and resets the motor range.
- A file that leaves a button out: the GUI shows the button itself (`buttons.rs:19-20`), the
  Pro 3 in Switch mode writes turbo as Screenshot, an Ultimate keeps its entry.
- The CLI's remap of a paddle onto itself succeeds (`description.rs:530`) but reads back
  disabled in XInput and Switch. DInput to XInput and back turns a disabled paddle
  into its output unsaid.

CLI:

- `export --overwrite` into an older folder leaves the files of slots that are empty
  now, and `upload-all` brings them back (`cli/src/export.rs:4-5`).
- After a remap of a button that starts a macro an export ends well, and
  `upload-all --with-macros` refuses it. A slot of a Pro 3 with a blank name exports with exit
  code 4 and is cleared by `upload-all`.

## 6. Not modelled, and why

- Rendering, languages, view geometry, preferences, the file choosers and portals, D-Bus,
  udev, process listing and logging: I/O with no protocol of its own, or drawing.
- sysfs parsing: what a scan finds is a set (`Scanned` of `Worker`, `Found` of `Session`).
- The keepalive's verdict dialog and its fix (`fix.rs`, `holders.rs`), the mock's `current_mode`
  override, and in `Worker` a locked pad of a model that nobody validated, which counts
  as refused.
- JSON forms, names, checksums, the byte offsets of fields, the values of a macro's
  checks, and the worded reasons.
- The developer commands of the CLI, and commands that only read.
- Much of the code is its tests: the `mod tests` of most files, `snapshots.rs`,
  `string_coverage.rs`, the test pad and the mock. They are read, not modelled.
