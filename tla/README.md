# A verification development for nrw (Naver reservation watcher)

The watcher looks at a booking page on behalf of its user and, depending on the watch's
mode, books a slot by itself (AUTO), asks first (ASK) or only tells (NOTIFY).  These
modules model its control in TLA+: TLC checks them on small instances, TLAPS proves the
most important properties for all values of the constants.  Paths are relative to the
repository, whose Python package is `src/src/nrw`.

## The system

| Part | State it keeps | Operations | Talks to |
|---|---|---|---|
| watch loop: `watcher/service.py`, `watcher/core.py` | in memory: claimed jobs, due rows, the suspended attempt | claim jobs, read due watches, `process_one_watch`, `attempt_reservation` | database, adapter, notifier |
| job handlers: `watcher/jobs.py` | none | check now, reserve now, approve, decline | database, adapter, notifier |
| database: `db.py` (SQLite file) | watches, jobs, reservations, events, heartbeat | one short transaction per call | shared by three kinds of process |
| MCP tools: `mcp_server/server.py` (another process) | none | add, remove, list, status; create a job and wait for its result | database |
| toasts: `notifier/windows_toast.py` | toasts on the screen, callback threads | buttons approve, decline | database (creates jobs) |
| adapter: `browser/naver_adapter.py` | the page of one attempt | check availability, reserve, dry run, coupons | the site |
| browser profile: `browser/persistent.py`, `scripts/login_naver.py` | a lock file | take, release | watcher and login script |
| pure functions: `time_utils.py`, `coupon_utils.py`, `compute_next_check_at` | none | choose a time, a coupon, the next check | |
| `scripts/*.ps1`, `mcpb/` | none | install, start, restart after a failure | |
| `mock_site/server.py`, `browser/mock_adapter.py` | a fake shop with coupons, changed over an admin API | book, download a coupon; the adapter's side of it | the loop's `attempt_reservation` |

The parts meet in the SQLite file.  The MCP server and the toast buttons never act on a
watch: they insert a job and the loop, a single asyncio task, executes it between two
rounds of checking.  What makes this hard:

* the loop decides from copies of rows it read several awaits earlier, while other
  processes insert, delete and order;
* the site accepts a booking some time before a row says so, and the process may die, the
  database may be locked or the confirmation may be missing in between;
* orders arrive late, twice, or contradict each other (approve and decline; an old toast);
* one announced and one declined time are remembered per watch, while several times open
  and close on the site;
* the page changes between any two Playwright calls of an attempt, and the final click is
  the only step that cannot be undone;
* a busy watcher is silent for longer than its clients wait, and a user told that it is dead
  may start a second one; the browser profile is shared with the login script;
* dates are written by the client, the page and the watcher in three ways and compared now
  as instants, now as texts.

What makes each part correct: bookings are authorised and made once (loop, handlers); rows
tell the truth about reservations (database); orders are taken up, executed at most once
and answered (jobs); a paused watch is left alone (due list); nothing is clicked past a
captcha, a payment screen, an undecided consent or another slot (adapter); the outcome the
adapter reports is true (its contract); a caller is told what happened or that nothing came
in time (queue); one browser at a time (profile lock); no opening and no end is overlooked,
and the site is not hammered (polling); what is offered was really open (checking); a coupon
is applied as picked or the attempt stops (coupons).

## Modules

| Module | Contents |
|---|---|
| `Watcher` | the loop, the handlers, the tables, the tools, the toasts, the site, faults |
| `WatcherProperties` | type invariant, safety, action and liveness properties of `Watcher` |
| `WatchLifecycle` | abstract specification: what the status of a watch promises its user |
| `WatcherInvariant` | the inductive invariants |
| `WatcherProofs`, `WatcherSafety` | proofs: type correctness; the inductive invariant and what holds at every moment of the loop |
| `WatcherPromises` | proofs: accounts and bounds of bookings, order of commands, finality, the refinement of `WatchLifecycle` |
| `MCWatcher` | instances for TLC |
| `AttemptContract` | abstract specification: what an attempt promises to the loop |
| `ReservationFlow` | the Naver adapter's attempt, real or dry, step by step |
| `FlowProperties`, `MCFlow` | its properties, the refinement of `AttemptContract`, instances |
| `FlowInvariant` | its inductive invariant |
| `FlowProofs` | proofs of all its safety properties and of the refinement |
| `CommandContract` | abstract specification: what the command queue promises to a caller |
| `CommandService` | the queue end to end: clients, one or more watcher processes, heartbeat, profile lock, login script, time |
| `ServiceProperties`, `MCService` | its properties, the refinement of `CommandContract`, instances |
| `ServiceInvariant`, `ServiceProofs` | its inductive invariant; proofs of all its safety properties and of the refinement |
| `Polling`, `PollingProperties`, `MCPolling` | when a watch is looked at, with the clock and dates as texts |
| `PollingInvariant`, `PollingProofs` | its inductive invariant; proofs of all its properties |
| `Checking`, `CheckingProperties`, `MCChecking` | one check: reading the page element by element, choosing the candidate |
| `CheckingProofs` | its inductive invariant; proofs of all its properties |
| `MockShop`, `ShopProperties`, `MCShop` | an attempt with a coupon at the mock site, which implements `AttemptContract` too |
| `ShopProofs` | its inductive invariant; proofs of all its safety properties and of the refinement |

How they fit together: `Watcher` takes an attempt as `AttemptContract` promises it, and
`ReservationFlow` and `MockShop` are two adapters that keep that contract.  `Watcher` and `Polling`
are two views of one row and keep the same `WatchLifecycle`.  `Watcher` takes any
active watch as due and any available time as the candidate: `Polling` and `Checking` say when
and which.  `Watcher` knows one process; `CommandService` lets several claim the same jobs and
leaves out what a job does.

Definitions whose name starts with `M_` are faulty variants of the definition that
follows them; the specification never uses them.  Each breaks, when put in its place, the
property `PROJECT.json` pairs it with, which shows that the property depends on that code.

### Watcher

`row`, `jobs` and `reservations` are the tables.  A row keeps the mode, the status,
`pending` (pending_candidate), `notified` and `declined` (from last_snapshot) and the
reservation id; UNREGISTERED and REMOVED stand for an id without a row.  `page`, `open` and
`ended` are the site and the clock, `toasts` the notifications with buttons that are still
on the screen.  `pc`, `batch`, `due` and `act` are the loop's memory: where it is suspended,
the claimed jobs and the due rows still to go, the attempt or notification in progress.
The last variables are ghosts that only properties read: bookings the site accepted per
watch (`booked`) and per job (`spent`), and events after which one more booking is possible
(`causes`).

Every stretch of the loop between two awaits is an action: `ClaimJobs`, `ReadDue`, one per
branch of each handler (`CheckNow`, `ReserveNowStarts`, `ApproveFindsGone`, `Decline`, ...)
and of `process_one_watch` (`Expire`, `CheckBlocked`, `NothingFound`, `KeepWatching`,
`AskSilently`, `Announce`, `AutoStarts`), then `Click`, `RecordReservation`, and the saving
of the outcome (`FinishAuto`, `FinishJob`, `SaveAnnounced`).  `ApproveFindsGone` saves the row
and awaits the notification; `AnswerGone` answers the command after it, if the process lives.  The user (`Register`,
`Remove`, `Request`, `ClickToast`) and the site (`BookingOpens`, `SlotOpens`, `SlotCloses`,
`EndPasses`) may act between any two of them.  Faults, `MaxFaults` in all: `Crash` (memory
and toasts lost; `Restart` repairs nothing), `StorageError` (a write after the click fails),
`LoopAborts` (an exception reaches `run_forever`, for one a profile-lock timeout),
`ClickUnconfirmed` (booked, but reported as ERROR, AWAITING_APPROVAL or NEEDS_HUMAN).

Abstracted: next_check_at, backoff and the clock (`ReadDue` takes any set of active
watches, so every order of checks is covered; `Polling` has them); consecutive_errors; a watch's date, party
and store; the text of messages and events; the coupon step before `adapter.reserve`.  An
availability check and the decision after it are one step: nothing of the watch is read in
between (`Checking` opens that step up).  Left out: ad-hoc jobs without a watch, which touch no
watch; a second watcher process (`CommandService`).

`WatchLifecycle` is what one status tells the user: a watch is followed only while it is active;
one that waits for the user, is booked or has ended stays so unless a command on that very watch is
being carried out or it is removed, which is for good; nothing is offered or booked without a command
before the page opens.  Carried out, not answered: `_handle_approve` saves the row and then awaits a
notification (jobs.py:150), and a crash there leaves the change without an answer.  Each row of
`Watcher` maps to it with its status, the page and whether the job the loop is serving is one on the
watch (`Commanded`).  TLC cannot check `\A w : Lifecycle(w)!Spec`, one specification per
watch, so `KeepsLifecycle` states the initial state and the step of all watches in one formula;
`EachLifecycle` proves the refinement in its usual form.

### ReservationFlow and AttemptContract

`step` runs through `_advance_to_confirm_screen` and `_reserve_inner`: the first captcha
check, reading the date and times, selecting, the coupon modal, the consent boxes, counted and then one by
one, captcha and gate checks, the summary, both checks again, the click, both checks once
more and the wait for the confirmation.  The page's texts, the wanted slot's availability,
the form's slot, the consent boxes and the coupon on the form are variables; what the flow
looks at only once (which layout, is there a summary, is the button enabled) is chosen at
that moment.  `PageChanges` (at most `MaxChanges`) and `SiteAccepts` interleave with every
step; `SiteAccepts` may come after the flow gave up.  A change of the page is one of its texts, of
the slot's availability, or of the form (`FormChanges`): a box is hidden or shown, or one of
`NewBoxes` comes after the others.  Calls that raise and are caught, at most `MaxFaults`:
`ReadFails`, the read of the page's text, after which both checks report nothing;
`ConsentReadFails`, any of the calls of `_has_unchecked_required_consent`, which then takes the page
for a gate; `UnreadBox`, a box of the consent pass whose label is not readable, which stops the
attempt, or whose state is not, which makes the pass decide it as a visible unchecked one.  `Fails`
is any call whose exception ends the attempt.  The ghost `unsure` collects the boxes that came or
changed after the pass had counted or passed them, and those that a failed read was about.

A consent label is the set of kinds of wording it contains, a coupon its title, value and
flags, a slot (date, time and party) one value; `LookAlikes` are the slots whose summary
contains, as substrings, all texts that `_summary_matches` looks for ("1" person inside
"11").  `asked` is what the click asked the site for: nothing yet, nothing at all (an empty
form), or a slot.  Assumed of the site: the words of `SUCCESS_MARKERS` appear only after it
accepted, and one click makes at most one booking.  Not modelled: the `coupon_id` path (the
Naver adapter's estimated amount is None, so `pick_best` never returns a coupon and the path
is not taken), a box removed, moved or renamed while the attempt runs, a change of the page between
the reads of one box, closing tabs, calendar navigation, the report of a dry run on coupons.

`AttemptContract` is the promise `attempt_reservation` relies on: at most one booking,
RESERVED only of an accepted one, and after NOT_OPEN, UNAVAILABLE, INVALID, COUPON, or any
report of a dry run, nothing booked now or later; after GATE, HUMAN and ERROR anything is
possible.  The attempt in `Watcher` is written against it: its ERROR, AWAITING_APPROVAL and
NEEDS_HUMAN may hide a booking (`ClickUnconfirmed`), its UNAVAILABLE may not.

### CommandService and CommandContract

`status` is the jobs table, `client` what the tool call that created a job has returned
(`wait_for_job`), `beat` the age of the heartbeat row, `lock` the profile's lock file.  Each
process in `Watchers` has its place `pc` in `run_forever` and `poll_and_handle_jobs`, its
claimed jobs `hands`, the job `at` in `handle_job` and a timer `left`.  `Beat`, `Select`,
`Mark` (the claim is a SELECT and an UPDATE of its own), `JobLock` or `JobLockTimesOut`,
`Begin`, `Complete`, `JobsDone`, then `NothingDue` or `SomeDue`, `DueLock` or
`DueLockTimesOut`, `Checked` are one round; `Crash` and `PollFails` the faults.  `login` is the
login script, which opens the profile twice.  `Call` is a tool that finds the heartbeat fresh
and `ClickToast` a button of a live process's toast.  What a job does is left to `Watcher`.

Time passes in steps (`Tick`) of about the job poll interval.  Steps on the database take none;
a job, a check, a login take any number; a wait ends when its timer does.  A process that finds
the lock free takes it in the same unit.  The bounds keep the order of the real durations: the
wait of `check_availability` (45 s) is shorter than that of the other tools and the heartbeat's
limit (both 90 s), these shorter than the lock's timeout (120 s) and that shorter than the
login script's (600 s).

`CommandContract` is the promise to a caller: a process begins commands in the order they were
sent, none twice; an answer is an outcome that an execution of that very command had, or that
none came in time.  It promises no execution: commands are lost in crashes and lock timeouts.

### Polling

One watch with its row (`status`, `next`, `errors`), its dates and the clock.  A date is an
instant and a way of writing it: in UTC, in local time with or without offset, or in words,
since `add_reservation_watch` stores what the client sends.  `SortsBy` is how SQLite compares the
text with the watcher's UTC times (the hour that is written counts), `Parsed` what
`fromisoformat` and the assumption of UTC make of it.  The outcomes of `process_one_watch` are
actions (`Retire`, `VisitBeforeOpen`, `VisitGoesOn`, ...), each with the interval
`compute_next_check_at` draws from; `EndUnreadable` and `VisitFails` are the exceptions that
`run_due_watches` counts, `VisitUnsaved` one it cannot even record.  Commands (`CheckNow`,
`LookAgain`, `JobEnds`) change the row at any time.  `Tick` may not pass the moment at which the
loop is `Lag` late for a due watch: other watches, jobs and the sleep between rounds are in the
lag.

### Checking

One availability check, from the page to the candidate.  `page` is a sequence of elements, each
with the hour it shows, its style and the mark it carries when closed; `open` the hours that can
be booked, changed by `Flip` between any two reads.  `ReadText`, `ReadMark` (each its own
Playwright call, and each may fail) go through the list as the widget's loop does or, on a page
without chips, the generic one: first element of each text only, at most `Limit` (500), closed
marks read by the value of the attribute.  `Choose` is `pick_best_candidate`.  Left out: minutes
(an hour and whether it is written with two digits show every comparison of texts), a list that
is rendered anew while it is read, finding the store, the login check's selectors.  `Start`
stands for what comes before the times: captcha, a closed or missing day, a notice of the
opening, month navigation.

### MockShop

An attempt at the mock site, coupon step included: `get_coupon_pick` (`List`, `OpenShop`,
`ClickReceive`, `ListAgain`, `Pick`), then `reserve` or `dry_run_reserve` (`Goto`,
`SelectCoupon`, `PressReserve`, `PressConfirm`, `SeeSuccess`), the pages' script and the server.
`page` is what the open page was loaded with, which the script goes on using; `downloads` and
`confirm` are requests under way, answered by `ServeDownload` and `ServeConfirm` at any later
time, or lost.  The admin requests of the tests and the expiry of a coupon come at any moment
(`AdminOpen`, ..., `Expire`).  A coupon is its flags and its discount; which of two equally good
ones Python's `max` returns is left open.  `Fails` is any timeout or exception.  Not modelled:
the adapter's `check_availability` and the coupon preview of a dry run, which only read; coupons
whose expiry cannot be parsed; two attempts at once, which the loop never makes.

## What the runs check

Runs of `MCWatcher`:

| Run | Bounds | Shows |
|---|---|---|
| `core_safety` | 1 watch, 2 times, 3 modes, 4 commands, 2 jobs, 1 fault, batch of 1 | `SurplusHasCause`, `AtMostOncePerJob`, `AttemptsAreAuthorised`, `NothingIsUnasked`, `RowsAreBacked`, `BookingsAreAccounted`, `PausedIsLeftAlone` |
| `core_two_watches` | 2 watches in one due list, 1 time, AUTO and ASK, 4 commands, 1 job, 1 fault | `CopiesAreCurrent`: what was read of the second watch is still true after the first was booked; `KeepsLifecycle`: every row goes through the life of `WatchLifecycle` |
| `core_live` | FairSpec, 1 watch, 1 time, AUTO and ASK, APPROVE and RESERVE_NOW, 2 jobs, 1 fault | commands are taken up and, unless something fails, answered; ended watches are retired, removed ones forgotten |

Two jobs are enough for every pair of contradicting orders and for a job queued behind
another; with a batch of 1 the second waits a round.  Two times make one preferred and one
fallback.  One fault separates the click from the saved row in every way.  The proofs below
remove the bounds.

Runs of `MCFlow`:

| Run | Bounds | Shows |
|---|---|---|
| `flow_gates` | FairSpec, all 4 texts, 2 changes of page or form (no new boxes), 1 failed read, 4 forms, 2 other slots | no click on a settled blocker; another slot only unseen; the flow implements `AttemptContract`, liveness included |
| `flow_forms` | all forms of up to 2 boxes, every wording, hidden or visible, checked or not; all modals of up to 2 coupons; 1 change of page or form, a new box required or optional; 1 failed read | consents are decided before the click; the two readers of the form agree but for boxes that changed behind the flow or were not readable; the coupon on the form is safe, none in a dry run; progress is reported |

Two changes let a text come up after one check and go before the next, or a box be hidden from the
pass and shown to the check.  One failed read and one change fall between any two steps.  A box or a
coupon interacts with at most one other (the box before it, the coupon of the same title).

Runs of `MCService`, `MCPolling`, `MCChecking` and `MCShop`:

| Run | Bounds | Shows |
|---|---|---|
| `queue_two` | 2 watcher processes, 2 commands, batch of 2, all waits 1 unit, 1 fault, no login script | one browser at a time; both processes may claim one job and the contract holds; lost commands have a cause |
| `queue_login` | FairSpec, 1 process, login script once, 2 commands, waits 1 and 2, heartbeat 2, lock 3, login 4, 1 fault | calls return, the profile is freed, the heartbeat goes stale only over browser work |
| `polling` | intervals 3..4, tight 1..2, backoff 2 to 5, zone 5, lag 1, ends 5 and 11, openings 3 and 10, 3 errors counted, 1 unsaved visit, end of time 18 | the site is spared, openings and ends are noticed in time, a watch starts when it should |
| `reading` | 9 kinds of element, all pages of two and one of three, `Limit` 2, 4 wishes, 2 flips, 1 failure | candidates were open, the best is taken, errors have a cause |
| `mock_shop` | FairSpec, 2 coupons of all kinds, every gate and opening state, 1 change, dry and real | the coupon reported is the one applied; full price and stops have causes; `AttemptContract` |

Two processes and two commands give every race of a claim, and a process that loses its jobs
while the other works on them.  In `polling` all orders of the real values are kept (tight <
backoff base < interval < backoff limit), the zone is longer than an interval and time runs past the later
end by more than the longest wait.  Two elements suffice for two texts of one hour, two hours of
one text, and one that closes while the other opens.  One change at the shop falls between any
two steps of the attempt.

Fairness: in `CommandService`, weak fairness of each process's loop and of the script, whose
awaits have timeouts, of `Start` of the scheduled process only (the task scheduler restarts it; nobody
restarts one started by hand), of each waiting call, which polls; time passes whenever it can
again and again (strong fairness of `Tick`, as claims and calls interrupt it).  In `MockShop` weak
fairness of the attempt, since each wait of the adapter has a timeout, and none of the server.  In
`Watcher`, weak fairness of the loop, on the same assumption about awaits as below, of `Restart`,
since the scheduled task restarts a dead process, and strong fairness of reading an active watch as
due: next_check_at is minutes ahead once the watch has been looked at, and before that it is the
start the client gave, which may be far off but is reached (`Polling` has both).  None of the user,
the site or the faults.  In `ReservationFlow`, weak fairness of the flow.  This assumes that every
Playwright call ends: navigation, clicks, reads and waits do by their timeout; `locator.count()` and
`new_page()` have none and end because the browser answers or is gone.

### Where code and text disagree

Each run named `claim_...` checks one sentence of a comment or document and finds a
behaviour against it; `PROJECT.json` quotes the sentence and names the line.

| Run | Behaviour found |
|---|---|
| `claim_reserved` | a decline handled after the booking puts a RESERVED watch back to WATCHING |
| `claim_opening` | the hour a page names is stored without its zone and taken as UTC: the tight interval begins nine hours after the opening, and the normal one lies before it |

Smaller ones, seen while reading, without a run of their own.

Loop, handlers and tools:

* a second decline erases the first (jobs.py:187): the time declined first is offered again;
* approving a time that is gone puts the watch back (jobs.py:147) and says that it is gone
  (jobs.py:150), but the time still counts as announced: open again, it is pending without a toast.
  The row is saved before that notification and the job answered after it, so a crash between them
  leaves the watch watching and its command unanswered;
* one announced time is remembered: two that alternate are announced again and again though one
  stayed open (core.py:342);
* a toast's button names the watch only (windows_toast.py:91): an old toast approves the time
  pending now, not the one it shows;
* pending_candidate outlives AWAITING_APPROVAL after a gate or captcha (jobs.py:163; the schema
  comment at db.py:41);
* a captcha met by reserve_now does not pause the watch (jobs.py:114; server.py:218);
* declining a watch that is PENDING or EXPIRED makes it look at the site at once (jobs.py:189);
* AWAITING_APPROVAL and NEEDS_HUMAN are never due: such a watch does not expire and can be
  approved after its end;
* `WatchStatus` has CANCELLED and ERROR, which nothing sets.

Queue and profile:

* `poll_and_handle_jobs` opens the browser before it looks at the jobs: a DECLINE, which needs
  none, waits for the profile like the others, though its docstring speaks of jobs that need it;
* the watcher and the script give up on the lock after 120 s (persistent.py:25), though its
  docstring says that they wait their turn, and the README, line 60, that the script may run
  beside the watcher; the commands claimed meanwhile are lost;
* a tool that finds the heartbeat stale advises `run_watcher.ps1` (server.py:38), which starts a
  second process beside one that is only busy; `IgnoreNew` covers the scheduled start only.

Dates:

* a start given in local time is compared as text with UTC (db.py:236): the watch starts up to
  nine hours late and, if it is shorter than that, expires unseen;
* watch_end_at is stored as given: one that cannot be parsed fails every check before the site is
  seen, and the watch never ends (core.py:259);
* an interval drawn before the tight window begins may reach far into it: only checks made
  inside the window are tight.

Adapters:

* two coupons of one title: the gated one is ticked (naver_adapter.py:1176);
* no summary on the page: the click is not rechecked, another slot may be booked
  (naver_adapter.py:431);
* without an Apply button the coupon modal is closed but the coupon reported as applied
  (naver_adapter.py:1189);
* a hidden consent box stops the attempt as a gate though the consent pass leaves hidden boxes
  out (naver_adapter.py:941, 1004), and so does an optional one whose state or label cannot be
  read, or one that comes after the pass (naver_adapter.py:936-951);
* a box whose state cannot be read is clicked if it is required, and so unchecked if it was checked,
  but reported as accepted (naver_adapter.py:1011, 1034);
* consents given before a captcha or an unclear box are not reported (naver_adapter.py:1039);
* on a page without chips a text like "24:00" that looks available raises in `parse_hhmm` and
  hides all other times; an empty `disabled` attribute counts as available
  (naver_adapter.py:1232);
* `pick_best` does not ask whether a coupon has been or can be received: a better one that
  cannot be had stops every attempt (coupon_utils.py; at the mock shop, mock_adapter.py).

## What is proved

Every safety invariant and action property that a passing run checks is also a theorem, for all
values of the constants; the type invariants of all six components are theorems only.

`WatcherProofs` proves type correctness.  `WatcherSafety` proves what holds at every moment of the
loop, for all watches, times, priorities, modes, commands and bounds: `CopiesStayCurrent`,
`AttemptsAuthorised`, `RowsBacked`, `OncePerJob`, `SurplusCaused`, `PausedLeftAlone`.  The only
assumption is `ConstantsAssumption` of `Watcher`.

None of the properties is inductive.  `WatcherInvariant` adds:

* `Shape`: what the loop may hold at each await: due rows only while it checks, claimed jobs
  only while it handles, at most one entry per watch, the suspended attempt still listed,
  claimed jobs RUNNING.
* `CopiesAreCurrent` follows from `Shape`: two writers of one row would both have to be the
  loop, which is in one place only.  Everything else rests on it.
* `Backed`: the outcome about to be saved names a reservation of its own watch.
* `Budget`: a watch that may still be booked (in the table, in the due list, in an attempt
  that has not clicked) has no booking without a cause.
* `Unspent`: a job that may still come to an attempt has booked nothing.

Each part is shown to hold initially and to be preserved, one step per action or, where
several actions have the same effect on the part, per lemma on their common effect
(`OutsideEffects`, `EndJobEffects`, ...); `PausedLeftAlone` is an action property derived
from `Shape` and `CopiesAreCurrent`.  TLC checks the whole invariant (`Inductive`) on the
bounds of both safety runs.

`WatcherPromises` proves, under the same assumption, what the user of a watch can rely on over its
whole life:

* `BookingsAccounted`: reservations and bookings of a watch agree up to the losses named, and
  `BookingsBounded`: beyond the first, at most one booking for each fault and for each DECLINE or
  reserve_now it was sent.  The second is `SurplusCaused` without the ghost `causes`:
  `CausesAreCounted` relates it to the jobs that have caused something (`Spent`), a set that only
  grows, and each cause takes a new fault or a new job.  That a job is new when its attempt clicks
  is `Unspent`.
* `NothingUnasked`: a watch that is not AUTO is booked at most once for each command that may book
  it.  The same argument with the jobs that have booked (`Obeyed`); it needs that a mode never
  changes (`ModeStands`) and that a watch not yet registered has no booking (`FreshIsUnbooked`).
* `CommandsKeepOrder`: claimed in order, and none acted on after a newer one was answered.  With
  `ServesOldest` (the job in progress is the oldest in hand), from `ClaimsTheOldest`, a fact about
  the claim's cardinality test.
* `OnlyWishedTimesBooked`: only ranked times, or one that a reserve_now on that watch named, are
  booked; by `OnlyWishedPending` the same holds of every pending and every attempted time.
  `CandidateIsBest` says what `Candidate` returns, for any list and any set of available times.
* `ReservedStays` and `FinalWithoutDecline`: a RESERVED watch leaves that status only by removal or
  by a DECLINE on it; with none to be sent it is final.  So the run `claim_reserved` shows the only way.
* `ForgottenStays`: a removed watch that the loop has let go of stays so; that it is let go of is
  liveness, and `core_live`'s.
* `LifecycleKept` and `EachLifecycle`: `Watcher` implements `WatchLifecycle` for every watch.  Each
  step is a command if the job being carried out is one on the watch (`Commanded`), before the step
  or after it, and else a round or a stutter; that rounds
  offer and book only on an open page is `OpenWhenActing`.  With `ReadDue` taking only active
  watches and `CopiesAreCurrent`, a round starts from an active status still in the table.

The strengthenings together are `AlsoInductive`, which TLC finds invariant on the bounds of the
safety runs.

`FlowProofs` proves type correctness of the attempt, each safety property of
`flow_gates` and `flow_forms` and the refinement (`ContractKept`: `Spec => Contract!Spec`),
for all slots, look-alikes, texts, consent forms and modals of any length, and bounds.  The
only assumption is `FlowAssumption`.  `FlowInvariant` says what each step may rely on:

* `ClickIsLast`: the site is asked for nothing before the click, in a dry run or before a
  report of a clean failure; with it the contract and, with `SummaryMatches` (a summary once
  read matches what the form holds), `WrongSlotIsUnseen`.
* `StandingIsChecked`: of what stands since the recheck, a captcha is excluded after the
  second human check and a payment or fee after the second gate check, unless a read failed.
* `BoxesAreDecided`: the boxes the flow has passed are checked, hidden, may be left out or are
  `unsure`, and all it counted have been passed once it is at the later checks; those that came
  afterwards are `unsure`.  From it both `ConsentsDecided` and the agreement of the two readers of
  the form (`ConsentGateExplained`): the consent check stops the attempt only on a page without
  boxes, after a failed read, or for a box that may not be left out and is hidden or `unsure`.
* `CouponIsHandledOnce`: no coupon before the modal.  The index the code computes among the
  parsed coupons lies in the modal (`PlaceIsInModal`), and is the chosen coupon's own when all
  are readable and no two titles equal (`WellListedIsFoundAgain`).

`ReportIs` names, for every step that reports, the outcome and the condition it is made
under.  TLC checks the parts of the invariant on the bounds of both runs.

`ServiceProofs` proves the safety properties of `queue_two` and `queue_login` and the
refinement (`QueueKeepsContract`: `Spec => Contract!Spec`) for any set of processes, any number
of commands and all durations.  The assumption is `ServiceAssumption`: the bounds are numbers,
the heartbeat's limit is not 0, no process is called like the script.  `ServiceInvariant` adds:

* `LockIsUsed`: the lock file names exactly who is in the browser; `OneBrowser` follows.
* `JobsInPlace`, `ClaimsInOrder`: what a process holds is newer than what it has begun, and every
  job up to there has been claimed; without it the contract's order fails, since the claim takes
  the oldest pending jobs and nothing else says that no older one is left.
* `RunningIsHeld`, `TimeoutHasCause`: a RUNNING job is in somebody's hands or was let go.
* `HeldIsUnfinished`: of one process alone, no job in hand has an outcome; this is what two
  processes break, and why `AnswerStands` is about one.
* `QuietIsShort`: without the browser, a process is one sleep from its heartbeat.

`PollingProofs` proves every property of `polling` for all intervals, zones, lags and dates under
`PollingAssumption` (the intervals are ordered as in the configuration; the page's dates are
numbers).  Its invariant relates the row to the visits: `NextFollowsLast` (the next check lies
between the shortest and the longest wait after the last visit), `UnseenIsUntouched` (a watch
never visited is as it was created) and `InTime`.  The properties are not inductive as they
speak of the past that the row has only in this form.  `LifecycleKept` proves that `Polling`, with
its clock, errors and unsaved outcomes, implements `WatchLifecycle` too.  Two more pin down the claim
that `claim_opening` refutes: `TightIsShifted` says that the tight interval is kept around the
opening as the code reads it, and `TightIsNeverUsed` that where local time is ahead of UTC by the
window or more, as in Korea, no visit before the opening is followed by another within the tight
interval.

`CheckingProofs` proves every property of `reading` for all pages, wishes and numbers of changes
under `CheckingAssumption`.  `SlotsWereOpen` ties each listed time to a moment at which it was
open, `PassedAreListed` each element passed to a listed time; `ReadsBack` says that a
twelve-hour text with its label is read as the hour it shows, and `BestIsBest` that a choice by
preference or by earliness is no worse than any time that stayed open (least elements come from
the library's `WFMin`).

`ShopProofs` proves the safety properties of `mock_shop`, that a dry run asks the shop for nothing
(`DryRunIsHarmless`), and that each step of the attempt is one of `AttemptContract` or a stutter
(`AttemptKeepsContract`), for all catalogues under `ShopAssumption`.  `BookedOnConfirm` and
`FormHoldsPick` tie the booking to the confirmation and the coupon on the form to the one
picked; `ListIsRight` says what the last list still tells at a shop that has not changed.

Only model-checked: liveness, which TLAPS does not reach under fairness (`core_live`,
`queue_login`'s `CallsReturn` and `ProfileIsFreed`, the end of an attempt in `KeepsFairContract`
and in `mock_shop`), and the two claims, which TLC refutes.  What a data structure of any length
comes to by induction, such as the number of bookings as a sum over commands, is stated through
cardinalities of sets of jobs instead, since each step adds at most one.

## Not modelled

* Login detection, selectors and the reading of labels: DOM access whose results are the inputs of
  the models.  Month navigation in the calendar is one step of `Checking`, and the search for a
  store by name happens before any watch is acted on.
* The Naver adapter's `/home` coupon list: `estimated_amount` is None, so `pick_best` returns no
  coupon and the path with a `coupon_id` is never taken.
* Ad-hoc checks and bookings without a watch: they touch no watch, and their path in the adapter is
  the one modelled.
* The list and status tools and the events table: they only read, or are only written.
* The mock adapter's `check_availability` and its preview of coupons: they read a page loaded at
  once.  `rank_all_candidates`, which nothing calls.
* Configuration, the Telegram stub, which raises, the installer and the set-up part of the scripts:
  input and output without state of their own.
* Text: messages, formatting, logs.
