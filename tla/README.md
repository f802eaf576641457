# queuer in TLA+

A verification project for queuer (`src/`): a job queue with a per-user daemon (`queuerd`), a
command line (`qur`), a Telegram notifier and remote workers driven over ssh. The modules here
model the daemon, its database, its log files and its Telegram listener, and the host's side of
remote workers; TLC checks them on small instances, and TLAPS proves some of what TLC checks for
every value of the constants. Paths below are relative to `src/src/queuer/` unless they start with
`README.md` (the repository's own).

## 1. Inventory

### The daemon (`daemon.py`)

One process, one asyncio event loop. Between two awaits a coroutine is alone, so the interesting
interleavings are at the awaits.

| part | state | operations | interacts with | module |
|---|---|---|---|---|
| normal worker, one per channel | `_worker_tasks`, `_wake`, `_current_job_id`/`_current_proc` (the *slot*) | `worker_loop`, `_worker_step`, `_lane_busy`, `_run_job` | job store, lane | `Channel` |
| priority lane (`--now`), one runner per channel | `_priority_worker_tasks`, `_frozen` | `_priority_worker_loop`, `_freeze_current_if_normal`, `_resume_frozen` | slot, job processes | `Channel` |
| a job's run | `_starting`, `_cancelled`, `_freeze_events` | spawn, wait, timeout, drain, `_cut_short_by_stop`, `_release` | operating system | `Channel` |
| after a job | none | `_after_finish`: settle dependants, retry, notify, pause, hooks | job store | `JobStore` |
| stop and start | `_stopping` | `serve`, `_shutdown`, `_recover_on_startup` | everything | `Channel`, `JobStore` |
| requests | `_clients` | `_handle_client`, `handle_request`, one `_cmd_*` per command | everything | all of them |
| Telegram listener | `_tg_offsets`, `_tg_alive`, `_seen_callbacks` | `_poll_bot`, `_handle_update`, the supervisor, pairing | `requeue`, workers | `Telegram` |
| log cleaner, hooks, log pump | tasks, threads, `<id>.log` | fire and forget | log files | `LogClean` |

What makes it correct: one job at a time per channel; every process can be found and ended;
nothing stays frozen; what was accepted (a cancel, an add, an edit) is what happens; a stop records
every job; a restart cleans up whatever the last instance left.

### The job store (`db.py`)

SQLite tables `jobs`, `job_deps`, `channels`, `daemon_state`, `edit_locks`, `events` and the
remote tables. Each function is one transaction, or several in a row (`_end_queued`, then
`mark_finished`, then `_prune_backlog`), and a crash may fall between any two; `JobStore` has a crash at
each of these places.
What makes it correct: lanes are totally ordered; queue order and dependencies never deadlock; a
job runs or is skipped exactly as its dependencies say although rows are pruned, cleared and
edited; retries and `--on-fail pause` happen; nothing changes under an open editor, and no editor
holds up a channel for ever.

### Remote workers

| part | state | hard | module |
|---|---|---|---|
| event feed of a worker (`db.py`) | `events`, the database's epoch | pruned, and numbered from 1 again after a reset | `RemoteWatcher` |
| host watcher (`remote_watch.py`) | `remote_hosts`: epoch, cursor, incompatible, alerted; `remote_jobs`; `_send_fails`, `_summarised` | the cursor against sends that fail, a reset, a burst, a death at every await | `RemoteWatcher` |
| pulls (`remote_pull.py`) | `pulled`, `pull_attempts` of a run; the tarball | cut-off downloads, a death between the rename and the row | `RemoteWatcher` |
| run, rerun (`remote_run.py`, `remote_rerun.py`) | `remote_runs`, `runs/<key>.json`, payload | each step may have happened although its answer was lost; several `--resume` at once | `RemoteRun` |
| worker commands (`remote_worker.py`) | folders with their markers, jobs with run keys | commands that go on without their caller | `RemoteRun` |
| ssh, hosts file (`remote.py`, `remote_cli.py`, `hostcfg.py`) | a JSON file | a call may be lost before or after it acted | as lost calls |
| Telegram for workers (`remote_notify.py`) | `_requeued`, `_guard_set` | the answer of the worker decides what is remembered | `Telegram` |

### The rest

`cli.py` and `client.py` (most commands are one request; `qur edit` and `qur clean-logs` act in
several steps and are modelled), `notify.py` (texts, Bot API), `selfcheck.py`, `redact.py`,
`jobenv.py`, `pathresolve.py`, `paths.py`: sequential helpers, string functions and I/O.

`PROJECT.json` lists every component with its status, and the hazards of the code at their lines.

## 2. How the project grew, and what is left

In the order in which the modules were written:

1. `Channel`: the daemon's concurrency on one channel, with `ChannelProofs`.
2. `JobStore`: the tables across channels, the bookkeeping after a job, crashes between its steps,
   with `JobStoreProofs`.
3. `SerialQueue`: what a channel promises. `Channel` implements it; TLC checks the refinement and
   `QueueProofs` proves it.
4. `RemoteWatcher`: feed, watcher and pulls composed, with `RemoteWatcherProofs`.
5. `RemoteRun` and `RemoteRunProofs`: run and rerun, composed with the worker's commands.
6. `Telegram`: the pollers of all bots, with requeues here and on a worker, with `TelegramProofs`.
7. `EditLock` and `EditLockProofs`.
8. `LogClean` and `LogCleanProofs`.

Left: the midpoint arithmetic of `_position_beside` shown to implement the order `ahead` of
`JobStore`; the seconds of `--timeout` while a job is frozen; database errors in `Channel` (the
safety net of `_run_job_safely`).

## 3. Modules

### `Channel`

One channel. A step is what a coroutine does between two awaits.

| model | code |
|---|---|
| `row[j]`, `prio`, `timed`, `left`, `parent`, `nextId` | the `jobs` row: `status`, `is_priority`, `timeout_secs`, `max_retries - attempt`, `parent_id`, AUTOINCREMENT |
| `paused` | `daemon_state` `paused:N` |
| `pc[j]` | the await `_run_job(j)` is at: `spawn` (create_subprocess_exec), `wait` (proc.wait), `timeout` (the kill after a timeout), `drain` (log pump, sampler), `race` (`_cut_short_by_stop`) |
| `slot`, `frozen`, `laneTask`, `cancelled` | `_current_job_id`, `_frozen`, `_priority_worker_tasks`, `_cancelled` |
| `proc[j]`, `dying`, `condemned` | a process group; those a kill waits for with its grace running; those the stop itself is killing |
| `phase` | `up`; `stopping` (`_stopping` set); `killing` (`_shutdown` has sent its signals); `stopped`; `crashed` |
| `acceptedIn`, `refused`, `stops` | observers: at which await each accepted cancel found its job; adds answered with an error; the bound on stops |

`pc[j] = "spawn"` is also what `_starting` says. Records, retries and the release of the slot are
one step (there is no await between them). `TimeoutFires` covers both a cancelled and an
uncancelled job, as the code does. A cancel's signal is sent in the request; its SIGKILL after the
grace is `KillGroup`, and a process may end by itself at any time (`Exit`).

Dependencies, positions, start times and edit locks only say which job a worker takes, and when;
here a lane is served in the order of ids, and `JobStore` has the rest.

### `SerialQueue`

What a channel promises, in two variables and without processes, slots or requests: `stage` of
each job (absent, waiting, working, suspended, closing, over, lost) and `express`. Jobs are worked
on one at a time and in order; an express job goes first and suspends the normal one, which
continues when no express job is left; what is over stays over. `Channel` defines `QueueStage`,
where that queue has a job, and `IsSerialQueue == Queue!Spec`. "closing" covers the time between
the first decision that a job must end and its row, in which the code may have a process that is
being killed beside the next one that is already working; "lost" is a job whose daemon died.

### `JobStore`

All channels' tables. The processes are gone: `running` stands for running and frozen.

| model | code |
|---|---|
| `status`, `chan`, `prio`, `retries`, `attempt`, `pauses`, `parent` | columns of `jobs`; `gone` is a row that was deleted |
| `ahead` | the order of `position` in a lane, as a relation |
| `unplaced` | the queued jobs with `position` NULL: an end took it and was cut off by a crash |
| `deps` | `job_deps` |
| `ended` | the order of `finished_at` |
| `paused`, `known` | `daemon_state`, `channels` |
| `checking` | `_cmd_add`/`_cmd_edit` before its closing `dep_verdict` |
| `finishing`, `todo`, `stale` | `_after_finish` under way; the list of `skip_dependants`; rows `_recover_on_startup` has still to record |
| `outcome`, `wanted`, `shouldPause` | observers that survive pruning: how each job ended, the dependencies it was last given, the failures that owe a pause |

The daemon does all of a job's bookkeeping without an await, so nothing else is served while
`~Idle`; it is still many transactions, so `Crash` is possible at every step. Ending a job is up to three
of them, and `End` is all three without a crash; `CutOff` is the crash after the first (`_end_queued` has
committed `position = NULL`, and the job is still queued: SQLite sorts it before all positions, so it
becomes the head of its lane), `EndUnpruned` the crash after the second (the row has its status, the history
is not pruned). The order in which
`skip_dependants` takes the waiting jobs is left open. `Deadlocked` states the search of
`_find_deadlock` by closed sets of jobs instead of a work list, so that no recursion is needed.

### `RemoteWatcher`

One worker and this host. Several workers share nothing but the database.

| model | code |
|---|---|
| `epoch`, `log`, `pruned` | the worker's database: its `event_epoch`, `events`, and how many of them `_prune_events` took |
| `host` | the `remote_hosts` row: `epoch` (0 before the first contact), `cursor`, `incompatible`, `alerted` |
| `jobs`, `run` | `remote_jobs` of this host's runs; the `remote_runs` row: `remote_id` (`home`, the database it was made in), `pull_attempts`, `pulled` |
| `poll` | the coroutine `poll_once`: what it awaits (`at`), the pages read, the batch left to send |
| `fails`, `summarised` | `_send_fails`, `_summarised` |
| `pull`, `files` | the pull task with its list, and the tarballs in the pull folder |
| `fate`, `stops` | observers: what became of each event; the bound |

Every await of `poll_once`, `_catch_up`, `_process` and `_pull_worker` ends a step: pages, the probe of the
protocol, sends, the alert. `Stop` is the daemon's death or the host being disabled there, with the message
or the tarball on its way delivered or not. What a message says is left out; an event's kind decides how it
is treated. A batch is a set of events, each with the epoch and the number it was read with, and is handled
in the order of the numbers (`First`), as the code does with its list; only a read whose pages came from two
databases has two events with one number.

The code finds a run's events by the number of their job alone, whatever database that was made in. So
`ev.run` is the run whose row *has that number*: in the database the run was made in (`home`) it is the run's
own job; in another one it is a stranger's (kind `told`: that worker has announced it itself), which ends,
is stored and is pulled as the run's own. `Mine` and `Pending` ask for a number, not for a database, as
`_catch_up` and `_pending_pulls` do.

### `RemoteRun`

One worker, any number of drivers (`qur run`, `qur rerun`, `--resume`) on the host.

| model | code |
|---|---|
| `row[k]` | `remote_runs`: `state`, the folder, `remote_id` |
| `saved`, `payload`, `asks` | `runs/<key>.json` (present, blanked); the replaced files of a rerun; the runs with `--require`, `--link`, `--worker-copy` |
| `driver[d]` | the driver's place in `_drive` and its own copy of the row |
| `cmd[s]` | the command a driver has on the worker (sent, busy, done, refused); slot `orphan` is one whose driver is gone |
| `folder[f]` | a run folder: marker with the key, half received or whole, prepared; `gutted` is one that was deleted while it is filled, `torn` one of these with the marker of a finished upload |
| `gc` | the folders that sweeps under way found without a job and have still to look at |
| `jobs` | the worker's `jobs` with their run keys |

A command acts on the worker in one step or, for `receive` and `update`, in two, so that another one can
come in between. `Lost` cuts a driver from its command at any moment, before it reached the worker or after;
`WorkerDies` ends all commands. Half a folder of a key is deleted by the next `receive` of that key unless
its flock is held. The contents of the files are left out.

`remote gc --delete` takes no lock. `GcStarts` reads the folders the jobs use; after that `GcLooks` comes to
one folder at a time, whatever has happened meanwhile, and several sweeps may be under way. A sweep deletes a
folder without the marker of a finished upload if the run-key marker is old (`old`, left open) and leaves the
others, except under `--force-completed` (`"gc"`). That the marker of an upload which is still going on is
already older than `--older-than` is `"slow"`.

### `Telegram`

| model | code |
|---|---|
| `presses`, `confirmed` | Telegram's queue of updates per bot, and the offset up to which it has forgotten them |
| `poller[b]` | `_poll_bot`: off, in its loop, waiting for getUpdates, with an update, waiting for a worker; `draining` a backlog |
| `offset`, `alive` | `tg_offset:` and `tg_alive:` in `daemon_state` and in memory |
| `seen`, `guard` | `_seen_callbacks`; `_requeued` in memory, and what `_guard_set` writes to `daemon_state` |
| `epoch`, `known` | the worker's database, and the one the watcher recorded |
| `acts` | what presses did, in order |
| `polled`, `gap`, `late`, `dropped` | observers: the true time of the last good poll and the pause before the poller began, presses that waited through an outage, presses that were dropped |

Time starts at `AliveSave`, so that a good poll of a poller that has not saved yet (`saved` 0) is
saved, as in the code, where the time since 0.0 is always long.
Buttons that only show something are `look`. Pairing takes the bot from its poller and its updates
too (`PairingTakes`).

### `EditLock`

`version[j]` stands for all settings of a job, `ran[j]` is the version it was started with, `lock`
is `edit_locks` with the time that is left, `editor[p]` is the `qur edit` process with the version
it shows, `reused` are the ids of dead editors that other processes have got, `requests` are
requests of editors on their way to the daemon (they can be late, and their editor may have given
up), `starting` is `_starting`. The observer `editor[p].left` is how much longer the editor may
count on its lock.

### `LogClean`

`row` with its start, `log[j]` and `kept[j]` (`<id>.log`, `<id>.log.old`: size, modification time, and the
databases whose jobs wrote to it), `handle[j]` (what the pump has open, or that it has not come to that
yet), `opened` (an observer: the jobs whose log was opened), `hooks[j]` (hooks still to run), and per
cleaner where it is: rows read, plan made, deleting one file after another. The daemon's timer cleans in a
thread, `qur clean-logs` in its own process. The row says running first (`Starts`); the pump is a task of
its own that moves an older log away and opens the new one later (`LogOpens`, whether or not the move
succeeds), or cannot open it and drops the output (`LogFails`). The daemon may die in between.

Logs are taken in the order of `Older` (finish or modification time, then id): `OldestFirst` is the
one enumeration of a set that is sorted by it.

### `ChannelProofs`, `QueueProofs`, `JobStoreProofs`, `RemoteWatcherProofs`, `RemoteRunProofs`, `TelegramProofs`, `EditLockProofs`, `LogCleanProofs`

Theorems about the modules (section 7).

## 4. Runs

| run | asks | instance | distinct states |
|---|---|---|---|
| `Channel` | what holds of a daemon and across its stops and crashes; is it a `SerialQueue` | 3 ids, 1 retry, 1 stop | 1.9 million |
| `ChannelLive` | does everything that waits get its turn, with timeouts | 2 ids, 1 retry, timeouts | 34 thousand |
| `Store` | dependencies, pruning, crashes | 2 channels, 3 ids, 2 dependencies each, history of 1, 1 crash | 1.4 million |
| `StoreOrder` | deadlocks across lanes, edits | 2 channels, 3 ids, edits | 0.9 million |
| `StoreFinish` | retries, pauses, `--now` | 1 channel, 3 ids, 1 retry, edits of the retries | 1.3 million |
| `StoreLive` | does the queue drain, also after a crash | 2 channels, 3 ids, history of 1, 1 crash, jobs end done or are cancelled, skipped or interrupted | 0.5 million |
| `StoreCut` | (violation) section 5 | 1 channel, 2 ids, 1 crash | |
| `RemoteWatcher` | is every event told, what is stored pulled, no history replayed | 1 run, 2 events per database, 2 databases, pages and bursts of 1, 1 stop, failing second reads | 0.4 million |
| `RemoteOwn` | does the cursor jump over own results | 2 runs, strangers' jobs, 2 events per database, 2 databases | 3.3 million |
| `RemoteUnread` | (violation) section 5 | 1 run, failing second reads | |
| `RemoteRun` | one folder and one job per key | 1 run, 1 rerun, 2 drivers, 2 folders, 2 jobs, 1 loss, sweeps | 2.9 million |
| `RemoteSlow`, `RemoteForced` | (violations) section 5 | the same, with `"slow"` and with `"gc"` | |
| `Telegram` | are presses run once, never late, never for ever dropped | 1 bot, 2 presses, 1 job here and 1 on a worker, 2 databases, 1 stop | 0.4 million |
| `TelegramInterrupted` | (violation) section 5 | 1 bot, 1 press, 2 stops | |
| `EditLock` | what an editor may rely on, and what the channel may | 2 jobs, 2 processes, 2 sessions, 1 edit by flags, 1 restart | 0.3 million |
| `LogClean` | whose logs go, whose output they hold | 2 ids, the timer, 1 undeletable log, 1 stop or new database, hooks | 2.5 million |
| `LogLimits` | do the limits hold | 2 ids, the timer and a command, 1 undeletable log | 0.1 million |
| `LogTruncated` | (violation) section 5 | as `LogClean`, less time | |

What each property says is in the comment above it.

**Bounds.** `MaxId` counts every row ever made. Three are enough for the patterns the code
distinguishes on one channel: a normal job, a `--now` job that freezes it and a third that queues
in either lane, or that is one of them's retry. In `JobStore` the smallest wait cycles have two
jobs on one lane or, through two lanes, need four; three jobs and two lanes give every cycle in
which one edge is queue order (`JobStoreProofs` proves the rest). `MaxRetries` 1 shows a first and
a last attempt; one stop, crash or loss falls at every step. `Keep` 1 makes pruning as eager as
`QUEUER_KEEP` allows. `RoomFor`/`CanAdd` refuse an add that would leave no id for a retry that is
still owed, so that the bound never hides a retry.
In `RemoteWatcher`, pages and bursts of one make two events a burst, a second page and a page that
has to wait for the next poll; two databases give a reset. `RemoteRun` needs a second driver for every
interleaving of `--resume`, and the second job is a requeue in the same folder or the rerun's.
`Telegram` scales the seconds: an outage is long from `Stale` ticks on, and `tg_alive` is up to
`AliveSave` ticks old when the daemon dies. In `EditLock` a lock lasts one tick, so that it expires
at any point of an edit. `LogClean` has an age limit of 0 and room for one chunk, so that each log
is soon too old or too much. What breaks `OwnFinalsKept` takes two own results in one catch-up or two databases,
hence `RemoteOwn`'s instance; deaths of the host's daemon beside them are left to the theorem. A folder number of
`RemoteRun` is given out again after its folder was deleted, so that two folders are enough for uploads, sweeps
and new uploads.

**Symmetry**: `RemoteRun` and its two violation runs, over the drivers; they check no liveness.

**Environment switches.** A circumstance that breaks a property is a constant, off in the passing
runs, so that one flaw does not hide others; turned on, TLC shows what then goes wrong (section 5).
`NowDuringSpawn` and `LongGrace` in `Channel`, `Faults` in `RemoteWatcher`, `RemoteRun` and
`Telegram`. The exclusion is as narrow as the model allows: `"unsent"`, for example, only forbids
sends to fail while the watcher catches up; everywhere else they fail freely. `RemoteWatcher` has `"unread"` on,
which breaks `OwnFinalsKept` only. `Timeouts` is on in
`ChannelLive`, where two jobs are enough: one that is frozen or timed out and one that takes its
place.

**Deadlock** is checked except in `RemoteRun` with its two violation runs and in `EditLock`, where the system
may come to rest: every key has its job, every job has ended, every bound is used up. `EditLock` is kept from
resting too early by its liveness property.

## 5. Disagreements with the documentation

Each of these is a run that ends in the counterexample:

- `TelegramInterrupted`: README.md:725 says that presses that piled up while the daemon was off for more than
  five minutes are dropped, "never run late". The first good poll of the drain writes `tg_alive`
  (`daemon.py:1214`) before the backlog is through; a daemon that ends then finds a recent `tg_alive` at its
  next start, does not drain, and runs the presses that are left.
- `StoreCut`: `_end_queued` commits `position = NULL` (`db.py:1322`) and leaves the rest to `mark_finished`. A
  daemon that dies in between leaves a queued job at the head of its lane, ahead of a job it depends on: the
  lane stands still, although such waits are rejected (`db.py:736`) and "the gap it leaves in the queue needs no
  closing" (`db.py:1314`). It ends when somebody cancels the job again or moves it to another channel.
- `RemoteUnread`: if the second read of a database that was reset fails, the cursor is put at its end
  (`remote_watch.py:163`) and nothing is processed; the final events of this host's own runs, which
  `remote_watch.py:186` wants "announced and pulled", are passed over for good.
- `RemoteSlow`: `gc --delete` takes no flock and goes by the age of a marker that is written when the upload
  *begins*; it is said to remove "leftovers of an interrupted upload" only (`remote_worker.py:747`). The
  extraction makes the folder again for the files that are still to come and marks it received: the job runs
  in a part of its folder (`JobFolderWhole` and `RowsTrue` fail with `"slow"`, too).
- `RemoteForced`: `gc` "never touches a folder [...] with a job" (`remote_worker.py:750`), but the jobs are read
  once (`remote_worker.py:755`) and the folders deleted one by one afterwards.
- `LogTruncated`: an older job's log is to be moved "instead of truncating it" (`daemon.py:1418`); when the move
  fails, the open with `O_TRUNC` that follows may still succeed.

The following were found with the same modules. Each is one property and one change of constants
away from a run (constants not named are as in the module's run).

| sentence | what happens | property, constants |
|---|---|---|
| a normal job never starts beside a running `--now` job (README.md:145) | `--now` during create_subprocess_exec finds an empty slot and freezes nothing | `OneAtATime`; `MaxId` 2, `MaxRetries` 0, `MaxStops` 0, `NowDuringSpawn` |
| cancelled jobs are never retried (README.md:305) | a cancel in a timeout's grace is recorded `failed` | `CancelledNeverRetried`; `MaxId` 2, `MaxStops` 0, `Timeouts` |
| every row still running is marked interrupted (README.md:986) | one `running` row per channel is looked for, there can be two | `NoStaleRows`; `MaxId` 2, `MaxRetries` 0 |
| a clean stop writes `interrupted` for each job (README.md:976) | a cancelled frozen job is in no slot, and its grace is longer than the stop waits | `CleanStop`; `MaxId` 2, `MaxRetries` 0, `LongGrace` |
| left-over priority rows get a runner (`daemon.py:500`) | only if the normal lane has a head and is not paused | `NowStarts` under `FairSpec`; `MaxId` 2, `MaxRetries` 0, `MaxStops` 1 |
| `--retries` requeues the job automatically (README.md:302) | the skipped dependants prune the failed row first | `RetriesHappen`; `StoreFinish` with `Keep` 1, `OnFail {FALSE}`, two `Outcomes`, no edits |
| the cursor jumps over nothing that is this host's own (`remote_watch.py:186`) | a failed send ends `_process`, and the cursor goes to the end all the same | `OwnFinalsKept`; run `RemoteOwn`, `Faults {"unsent"}` |
| old history is never replayed (README.md:917) | a death, a disabled host or another protocol in the middle of the catch-up leaves the new epoch with cursor 0 | `HistoryNotReplayed`; `Faults {"stop"}` |
| every message is given up only after `SEND_ATTEMPTS` polls | `_summarised` and `_send_fails` are kept by sequence number over a reset, and a new worker's events fall under the old summary | `NothingSilentlyLost`; `Faults {"burst"}` |
| the cursor moves after each successful send (`remote_watch.py:8`) | `_read` takes the header from its first page: an event that is added before the last page lies behind the end the header named; while the history is caught up, an own job's event moves the cursor past it | `NothingSilentlyLost`; `Faults {"torn"}`, `MaxSeq` 3, `MaxPages` 3, `Burst` 3 |
| a stored result is pulled | a job that ends before its run's row names it (`remote_id`) is not seen as the run's own | `OwnFinalsKept`; run `RemoteOwn`, `Faults {"late"}` |
| the final events of this host's jobs are processed (`remote_watch.py:186`) | a worker keeps more events than one read takes (`PAGE * MAX_PAGES`, 2000, which is also the default of `QUEUER_EVENTS_KEEP`): the catch-up goes to the end all the same | `OwnFinalsKept`; run `RemoteOwn`, `Faults {"long"}`, `MaxPages` 1 |
| a key makes one job (`remote_run.py:3`) | a job that is pruned from the worker's history before its answer was recorded is made again by `--resume` | `MadeOnce`; `Faults {"pruned"}` |
| a prepared folder waits for its job | `remote gc --force-completed` takes it | `RowsTrue`; `Faults {"gc"}` |
| a second Requeue within seconds does nothing (README.md:723) | the guard is set when the worker answers, not when it is asked | `NoDoubleRequeue`; `Faults {"unanswered"}` or `{"race"}` with two bots |
| a queued or running job's log is never deleted (`logclean.py:5`) | a job added after the cleaner has read the rows looks like an orphan | `UnfinishedLogKept` without its exception |

More that the models show and no sentence contradicts. In `RaceReturns` the cancelled set is not
looked at again after the second `_cut_short_by_stop` may wait, so a cancel answered in that
second is lost. In `AddNowRaises` the slot still names a job that was cancelled while frozen:
`mark_stopped` raises after the SIGSTOP and after the new row was committed, the client is told the
add failed, and the job is queued without a runner (`refused` keeps such jobs out of `NowStarts`).
Two drivers of one key can take its row from `queued` back to `sent`, as each records from its own
copy (`RowsTrue` holds all the same). A crash between a run's row and its saved arguments leaves a
row that `--resume` cannot take up. A job that fails to start after the database was deleted
has its hooks append to an older job's log, and so does the job whose daemon died between its row and its log's
opening, or whose log could neither be moved nor opened (`OwnOutputOnly` is about jobs whose log was opened).
A job that was cancelled or is to be skipped, and whose end was cut off by a crash (`CutOff`), may still run,
although the cancel was on its way: it is the first of its lane. While it has no position, a job cannot be
added before or after it, and an edit of its dependencies is refused.
The watcher matches jobs by number only: after a reset the result of a stranger's job is stored, and pulled,
as a run's own. `"late"` also stands for a `remote_jobs` row of an earlier database whose number a run is given
later: those rows are not cleared at a reset. The
size limit counts files that cannot be deleted as freed, and `<id>.log.old` is never cleaned.

## 6. Fairness

`Channel`: weak fairness of every coroutine's steps (asyncio runs each ready coroutine), of a
kill's end (its deadline is absolute), of `ShutdownKills`/`ShutdownExits` (bounded waits), of
`Start` (systemd restarts the service), and of the end of a job that is *running*. A frozen job
is not assumed to end: it must be continued or killed. No request is assumed. Without the
fairness of jobs' ends a channel waits for ever behind an endless job, as it should.

`JobStore`: weak fairness of the bookkeeping, of taking the head of a lane, and of a running job's
end. `QueueDrains` excludes paused channels, where jobs wait by request.

`RemoteWatcher`: the loop polls for ever, and sends and downloads return (they have timeouts):
weak fairness. Of the network: a worker that is polled again and again answers sometimes, and a
summary that is tried again and again is sent once: strong fairness of those answers. The summary
needs it, as the code has no last attempt for one; single messages do not, they are given up.

`Telegram`: pairing ends by a timeout, the supervisor starts a missing poller, the watcher polls:
weak. Telegram answers a poller that asks again and again: strong.

`EditLock`: time passes, the worker looks again every few seconds, a process is created or fails,
jobs end. Nothing is assumed of editors, nor that requests ever arrive.

`LogClean` (run `LogLimits`): the timer comes back, and a cleaner that has begun goes on. Jobs need not end.

`Channel`, `Store`, `StoreOrder`, `StoreFinish`, `RemoteOwn`, `RemoteRun`, `LogClean` and the violation runs
check safety only and assume nothing.

## 7. What is proved

**Channel** (`ChannelProofs`), from `ConstantsOK` alone (any number of jobs, retries and stops):
`TypeCorrect` (`Spec => []TypeOK`), and, if `NowDuringSpawn = FALSE`, `ExclusionInvariant` and
`ExclusiveChannel` (`Spec => []OneAtATime`). The assumption is needed: section 5.

`OneAtATime` by itself is not inductive: it does not say why the normal worker may not be starting
a job while the lane runs. `Exclusion` adds that. `RowsAndProcs` ties rows to processes and
runners; `OneEach` says each runner has at most one job, that a `--now` job implies a lane runner
and that a daemon that is down has neither; `Slots` says what the two slots may name; and
`LaneExcludes` is the heart: while the lane has a runner the normal worker is not spawning, its
process is not running unless it is being killed, and a running normal process is the one the
slot names (so that the next `--now` finds and freezes it). Each action preserves each part; the
proof has one step per action.

**Refinement** (`QueueProofs`), under the same assumption: `ChannelIsSerialQueue`,
`Spec => IsSerialQueue`. The initial state maps to `SerialQueue`'s, and `QueueStep` maps every
step of the daemon to a step of the queue or a stutter: Begin is the normal worker's or the lane's
spawn succeeding, Continue is `Resume`, SubmitExpress with a suspension is the add that freezes. What
the mapping needs beyond `Exclusion` is `Turns`: a job that somebody waits for has an open row and
a process (`RowsOpen`), a job past its wait has no process any more (`EndedSeen`), ids are handed out
without gaps (`IdsUsed`), and a job whose process is being created is the first of its lane
(`FirstSpawned`), which is why jobs begin in order although a pause, a cancel or an add may
come between the choice and the spawn. TLC has checked `Turns` on run `Channel`'s instance.

**The channel's other invariants** (`QueueProofs`). Without an assumption: `FrozenIsHeld`
(`[]NoOrphanFreeze`), `StoppedIsRecovered` (`[]StoppedRowsRecovered`), `CancelWins`
(`[]CancelIsHonoured`) and `CancelledNotRetried`. If `NowDuringSpawn = FALSE`: `AlwaysReachable`
(`[]Reachable`). If `LongGrace = FALSE` too: `StopWaitsForJobs` (an action property: the daemon does
not exit of itself while a coroutine waits for a job) and `StopIsClean`,
`Spec /\ [](phase # "crashed") => []CleanStop`. The last is about behaviours without a crash: a
crash can leave two running rows, a start recovers one of them, and the next clean stop leaves the
other; TLC finds this with `MaxStops = 2`, while the run has one stop or one crash.

`ChannelInv` holds whatever arrives when. To the parts above it adds `Custody`, which says of a
stopped process and of a `stopped` row who has them (at most one row, of a normal job, in the frozen
slot or being killed), and `Answers`: an accepted cancel is in `cancelled` or recorded (`Cancels`),
and only failed jobs have retries (`Parents`), which the order of the tests in `DrainReturns` keeps
apart. `StrictInv` adds `Exclusion`, `Turns` and `Held`: a running process is named by the slot or is
being killed (`SlotHolds`), and after the stop has sent its signals nothing is left out
(`KillingKills`). TLC has checked both on run `Channel`'s instance.

**Job store** (`JobStoreProofs`), from `ConstantsOK` alone (any channels, jobs, dependencies per
job, retries, crashes and history size): `StoreTypeCorrect`, `DependenciesStay`, `LanesOrdered` and
`NeverDeadlocked`: `Spec => []TypeOK`, `[]DependenciesKept`, `[]LaneOrder`, `[]NoWaitCycle`.

`LaneOrder` holds wherever the daemon dies, within an end too; `NoWaitCycle` is about the jobs that no crash
has robbed of their position, as the others can indeed wait for each other (run `StoreCut`).

The inductive invariant `StoreInv` adds what these leave unsaid. `UnplacedFirst`: queued jobs without a
position come before those with one, by id, which is what keeps a job that is inserted from getting before
them. `RowsNamed`: an id that was not handed out has no row and nothing names it, which is why a new row
cannot close a cycle through an old dependency. `RetriesSettled`: the attempt before a retry has ended, so
that no edit changes its `--retries` afterwards. `StrictOrder` says `LaneOrder` of pairs of jobs; a job is
inserted behind a `front` of its lane that misses no job ahead of it (`InsertKeepsOrder`), which is what all
three of the end, `--before` and `--after` are.

`NoWaitCycle` quantifies over sets of jobs, and the code searches from one job only. `CheckedWaiter`
is the argument that this suffices: if only job n has new waits and others at most come to wait for
n, then the set S that the search from n reached is closed under waiting, holds no n and so has no
new edge; a group of jobs that meets S has a free job within S, and one that does not meet S has n,
or a job that was free before. It is cited once for the insertion and once for the edit; every
other step only removes waits (`FewerWaits`). A retry, a requeue and a `--now` job are not checked
by the code: `LastWithoutDeps` shows that a job without dependencies at the end of a lane would
always pass. Ending a job, with the pruning in it, is one lemma for all six actions that do it
(`EndKeeps`). TLC has checked `StoreInv` on the instance of `StoreOrder`.

From the same assumption `OnlyRunsAsAsked` (`[]RanAsAsked`), `OnlyDeservedSkips` (`[]SkipsDeserved`)
and `NobodyWaitsInVain` (`[]NoDoomedWaiter`). `Ledger` relates what happened to what the tables
remember of it: the outcome of a row that is still there is its status (`Recorded`), a waiting job's
`job_deps` rows are what was asked for (`Remembered`), so that a pruned row never changes a verdict,
and the daemon does one piece of bookkeeping at a time (`OneThing`). `Told` says why nobody is
forgotten: a job that failed a waiting one is still on the list of `skip_dependants`, or the waiting
one is the add or edit that has yet to look.

`FailuresRetried` and `FailuresPause` are `Spec /\ []InHistory => []RetriesHappen` (and
`[]FailurePauses`). `InHistory` says that the row of a job that just ended is in the history until
`_after_finish` has read it. The code does not promise it: the jobs skipped on its account are put
into the history first and can push it out (section 5). `LongHistoryKeeps` shows that it holds of
every behaviour if `Keep >= MaxId`.

**Remote watcher** (`RemoteWatcherProofs`), from `WatcherOK`, for any runs, kinds and numbers of
events, databases, stops, pages, bursts and attempts:

| theorem | property | `Faults` without |
|---|---|---|
| `HistoryStaysHistory` | `HistoryNotReplayed` (an action property) | `"stop"` |
| `OwnResultsStored` | `[]OwnFinalsKept` | `"unsent"`, `"unread"`, `"late"`, `"long"` |
| `NothingPassedInSilence` | `[]NothingSilentlyLost` | `"unsent"`, `"burst"`, `"torn"` |
| `WatcherTyped` | `[]TypeOK` | nothing |

Each of the first three excludes only the circumstances that break it (section 5) and allows the others:
results are stored also when reads are torn and the host dies in a catch-up. The excluded ones are needed:
with each of them TLC finds the property violated.

The common invariant `Sound` says what a poll is at each await (`Shape`), which databases the row, the
header and the batch can be of (`Databases`), that events in hand are those of the log as long as it is the
same database (`Events`), and how cursor, page and batch are ordered (`Cursors`). `Gaps` adds that between
the events of a read only pruned ones are missing, and those before the cursor. The two properties about
what is behind the cursor have one argument: `Covered(G)` says that whatever the cursor has reached, or will
have when a catch-up closes, is in the set `G` or still in hand; it is proved once for any `G` that a step
does not shrink (`Accounts`), and used with `KeptEvents` (stored, not to be stored, pruned; that an event is
history is no excuse) and `HandledEvents`. `Whole` says that a read is of one database and a history of one
moment, and `Summed` that final events up to the last summary were told, which is why a burst may pass over
them. `ReadOut` says that the read of a history leaves room for all that is still to come of it (`Room`, in
pages), so that its end, to which the cursor goes, was read. `Past` is the inductive form of
`HistoryNotReplayed`: an event that is history lies behind the cursor, or will when the catch-up closes, and
is not in hand. The proof is over steps, not actions: `Steps` maps every action to one of a few shapes of
what it does to the poll, the row and the marks (`PageStep`, `SaveStep`, `CloseStep`, ...), and each
invariant is shown of the shapes. `WatcherTyped` adds `Bounded` to `Sound`: the numbers of a poll stay
within those of the feed (`Numbered`), a message fails fewer than `SEND_ATTEMPTS` times before it is given
up (`Patient`), and the pull task has each run once, and none whose attempts are used up (`Attempts`), which
is why no run is tried more than `PULL_ATTEMPTS` times, through stops and resets.

Two of the circumstances came out of proof attempts that failed, and the run's bounds had hidden
them: a reset or an added event between two pages of one read (`"torn"`), and a reset during the
second read of a database that was reset (part of `"burst"`).

**Telegram** (`TelegramProofs`), from `TelegramOK`, for any bots, presses, jobs, outages and deaths:
`TypeCorrect` (`[]TypeOK`), `PressesRunOnce` (`[]AtMostOnce`) and `DropsAfterOutages`
(`DroppedOnlyAfterOutage`, an action property) with every circumstance let in; `StalePressesDropped`
(`[]StaleNeverRun`) without `"interrupt"`; `RequeuesGuarded` (`[]NoDoubleRequeue`) without `"race"` and
`"unanswered"`. Section 5 shows that these are needed.

`Held` says what a poller has in hand: ids that follow each other, behind the saved offset, except
the one a worker is asked about, which is the last that was saved. With `Pressed` (what was acted on
lies at or before the saved offset, and is not the one at a worker) no press comes twice, through
deaths and pairing. `Lived` bounds the record on disk: it lags less than `AliveSave` behind the true
last poll, which is where the assumption `AliveSave < Stale` comes from (60 and 300 seconds in the code),
and why `DroppedOnlyAfterOutage` promises `Stale - AliveSave` only. `OutOfTheWay` says of a press that
waited through an outage that it is behind the offset, or in the hands of a poller that drops, or to
be fetched by one. `GuardInv` relates the requeues that were done to the guard in memory and on disk
and to the one request that may be at a worker.

**Log cleaning** (`LogCleanProofs`), from `LogCleanOK`, for any jobs, cleaners, limits, hooks and
restarts: `TypeCorrect` (`[]TypeOK`), `LogsHoldOwnOutput` (`[]OwnOutputOnly`, of every job whose log was opened,
wherever the daemon dies and whether or not an older log could be moved), and two action
properties, `UnfinishedLogsSpared` (`UnfinishedLogKept`) and `PlansTakeTheRightLogs`
(`PlansAreRight`). `Known` is what makes `UnfinishedLogKept` inductive: of the jobs a cleaner saw a row
of, those it found ended and those it plans to delete are not unfinished, and since ids are never given
out twice by one database they will not be again. That a plan holds deletable logs only is shown of
`Plan` without an induction: what is chosen is cut with `Deletable` at the end.

`PlansAreRight` needs what `Plan`'s two folds compute: the size of a set of files and the walk from
the oldest file on. A fold of `Folds` is defined by `CHOOSE` of a recursive function, and the
library's theorems about such functions take operators as parameters. The proof does without them:
`FoldExists` shows that the function exists, by taking a least cardinality at which it would not
(`Climb`, `Least`, from `WFMin` of `WellFoundedInduction`), and `FoldSame` that two functions with the
same recursion agree, which gives the equation of a sum (`TotalIs`) and of the walk (`WalkIs`). The
invariant of the walk is `Walking`: after `n` files, those chosen are deletable and hold all overdue
ones, no deletable file is older than a chosen one and not chosen itself, `total` is the size of what is
left, the limit is kept or all `n` are chosen, and without the last one chosen for its size the limit
was not kept. At the end of the walk (`WalkEnds`) this is what `RightPlan` asks for.

**Edit locks** (`EditLockProofs`), from `EditOK` alone (any jobs, process ids, sessions, edits and
restarts): `EditTypeCorrect`, `NothingChangesUnderAnEditor` (`[]EditorUndisturbed`), `LastEditRuns`
(`[]RunsAsEdited`) and `NoEditIsLost` (`NoLostUpdate`, an action property).

`EditorUndisturbed` speaks of open editors only and is lost by a request that is still on its
way. The inductive `EditInv` adds: a process that asks for a lock has asked for nothing else, and
an open editor waits for nothing (`OneAsked`); an editor with time left has a lock on its job with
at least as much time left, and the job is queued with the settings that were shown
(`PromisesKept`); while a process holds a job's lock, its editor or its edit under way knows the
current version (`HoldersKnow`), which is what a late edit is checked against; and a job that is
being started or runs has the version it was started with (`StartsAsEdited`, `RunsAsEdited`). TLC
has checked `EditInv` on `EditLock`'s instance.

**Remote run** (`RemoteRunProofs`), from `RemoteRunOK` and `Faults = {}`, for any runs, reruns,
drivers, folders, jobs and losses: `RunTypeCorrect` (`[]TypeOK`), `RunsMadeOnce` (`[]MadeOnce`),
`JobFoldersWhole` (`[]JobFolderWhole`), `RowsAreTrue` (`[]RowsTrue`) and `RunsNeverFromRedacted`
(`[]NeverFromRedacted`). `Faults = {}` excludes three circumstances, with which the code promises less:
a job whose row leaves the worker's history before its run is recorded on the host (a repeated step
then makes a second job), `remote gc --force-completed`, and an upload that lasts longer than the `--older-than`
of a sweep. All other sweeps are let in at every step, with folders read long before they are looked at.

The inductive `RunInv` says what everybody knows. The folder of a key is known to the host's row,
to drivers with their own copy of it, to commands that were told of it or made it, and to jobs:
whoever knows one knows the same one (`OneDir`), and it is there, whole (`KnownPlaces`); that is why
a stale driver, an answer that was lost or a command without its driver can repeat a step and
do no harm. An upload under way has half a folder of its key to itself (`Receiving`), which nobody
knows yet, so that it may be deleted and begun again. `RowSteps`, `DriverSteps`, `CmdSteps` and
`Owners` say what has been done by the time a row, a driver or a command is where it is. A job that
was pruned leaves a key that nobody works on (`GoneSettled`); so a key without a job in the history
never had one, `qur add` makes the only job, and arguments that were blanked, which takes a job
(`Redacted`), are never queued. A host step is framed by `HostStep`, a command's by `CommandStep`, a
step of the worker's history by `HistoryStep`. Of a sweep the invariant needs one thing, `LeftoverGoes`: what it
deletes is a folder without the marker that nobody fills and so nobody knows.

## 8. Only model-checked

- Liveness: `FrozenResumes`, `NormalStarts`, `NowStarts`, `QueueDrains`, `EventsAnnounced`,
  `PullsHappen`, `Responsive`, `ChannelGoesOn` and `LimitsKept`. Fairness and `ENABLED` are beyond the
  prover.

Every other property of the passing runs, and the type invariant of every module except the abstract
`SerialQueue` (which states none), is stated by a theorem of section 7: for the constants it names, not only
for the instance of the run.

## 9. Not modelled, and why

- Database errors: the safety net of `_run_job_safely` and the guard of `worker_loop`. Any
  statement could fail, and the properties would have to say what then remains of each.
- `_reindex_queue`, which numbers a lane anew when its midpoints are used up: it would give a job without a
  position (`unplaced`) one, at the front where it already is. `reorder_before`/`reorder_after` (`db.py:1646`):
  no command calls them.
- Processes below the group: a process group is one thing that runs, is stopped, or is gone.
- Time: a timeout or a grace may end at any moment after it began; a start time delays a head,
  which any step may do. That frozen time does not count towards `--timeout` is not modelled.
- Numeric positions: `ahead` is the order they define. Hooks' commands, usage figures, the texts of
  messages: no modelled state depends on them.
- A crash between a failure's row and its retry or its channel's pause loses the retry or the
  pause. Nothing promises more; `RetriesHappen` and `FailurePauses` are about a daemon that has not
  crashed. A crash after a process was created and before its row says running makes the job run
  twice, which nothing in the database can tell.
- Files that `remote update` replaces, and the payload of a rerun that was pruned when the job is
  queued with the old files: the models know folders and markers, not contents. `update` looks for
  jobs in the folder once (`remote_worker.py:702`), and a requeue can start there while it works.
- `qur edit --cwd` reads a command with one request and writes it back with another; in `EditLock`
  an edit by flags is one request.
- Two daemons started by hand at the same moment; systemd starts one.
- A Telegram button about an older database of a worker, in the window between the watcher's last
  look and the ssh command.
- Schema and migrations (run once, at start), the doctor, argument checks, environment capture,
  redaction, path resolution: no state to explore.
