# Verification of LUG Manager

TLA+ models of the parts of this server that are hard to test: jobs that race
requests, decisions taken on rows read earlier, steps of which one fails, scripts of
pages whose timers, requests and answers come in any order. Each
module is read off the code under `src/`; TLC checks it on small instances and
TLAPS proves the results that matter most for any size. `PROJECT.json` says for
every definition which lines of the source it stands for.

## The system

LUG Manager is one process: a Crow web server (`main.cpp`) whose request threads
run concurrently, a small pool of workers (`async/ThreadPool`) that carry out
jobs with Discord and Google Calendar, a few background loops (reminders,
digest and dues, member sync, backups), and one SQLite connection. The
connection sits behind a recursive mutex (`db/SqliteDatabase`): a statement is
atomic, and so is a `Transaction` from `BEGIN` to `COMMIT`; nothing else is.
So a request that reads a row, thinks, and then writes can meet any other
request, job or loop in between. Normally there is no other process; the
reminder loop is written for a second one (`ReminderService.cpp:21`), and
modelled with it. Discord and the calendar are remote and may fail.

The other half runs in browsers: pages rendered on the server, parts of which htmx
fetches and replaces, and scripts under `src/static`. They keep state of their own (what
has been typed, what is being uploaded or drawn, what has changed elsewhere), and talk
to the server by requests that may be refused or lost and by one websocket.

| Component | State it keeps | Operations | What is hard | What makes it correct |
|---|---|---|---|---|
| Worker pool | queue, workers | enqueue, take, run | two jobs of one event at once; lost at a restart; shutdown | every job is carried out, the pool comes to rest |
| Events | `lug_events` rows with ids of remote objects | create, update, cancel, sync to calendar | the row is rewritten whole from a snapshot while jobs write ids into it | what is on Discord and in the calendar is what the row says |
| Chat hub | refs in the row, remote posts | publish, update, remove, retry | one remote call at a time between reads and saves of ids | nothing orphaned, nothing shown that is suppressed |
| RSVPs | `event_rsvps`, capacity in the event | rsvp, cancel, promote, notify | capacity read before the transaction; edits, merges | no overbooking, first come first served, promoted people are told |
| Member merge, deletion | all tables that refer to a member | merge, delete | tables it forgets, requests under way | rows follow the person |
| Shifts, display requests, meeting RSVPs | a row per member | upsert, delete | seats of a shift | as for RSVPs, without a waitlist |
| Meetings, series, conversion | `meetings`, `meeting_series` | create, complete, cancel, materialise, stop | materialising from two threads; full-row writes | one meeting per date, none after stopping |
| Inventory | items, stock per place, loans | add, lend, move, return, edit, remove | checks outside the transaction | pieces are conserved, nothing is lent twice |
| Dues | payments, `paid_until` | record, remove, expire, remind | recomputation without a transaction | paid-until covers what was paid |
| Reminders | claims, recorded DMs, snoozes | claim, send, snooze, resend, digest | claims against crashes, stale lists | at most once, never of something cancelled |
| Member sync, Discord matches | members, pending matches | sync, match, settle | full-row writes from an old list; two admins | no edit lost, a match settled once |
| Sessions | cache and table | create, find, revoke | cache against table | a revoked session stays revoked |
| Account security | password, TOTP, tokens, attempts | set, confirm, reset, lock | one-time tokens | a token works once |
| Live updates | changes to announce, connections; per page: its queue, requests under way | publish, gather, heartbeat; connect, hear, fetch again, offer the button | a burst while a request is under way, lost connections, hidden pages, pop-ups, sessions that end | no change is lost; pages keep up; only ended sessions are cut off |
| Logo editor | canvas, inputs of the form; logo, original, settings | choose, move, encode, save, edit again | answers of loader and encoder against later changes; three writes in a row | what is shown is what is sent; what is saved can be edited again |
| About page of Fan CoLab | area, selection, uploads; text, photo rows, files | upload, edit, save, sweep | a save deletes what its text does not show, while others edit and upload | photos of the page exist, the others do not |
| Calendar feed | cache | generate, invalidate | cache against rows | no stale feed kept |
| Backups, other settings, audit, pages, API | files, key-value rows, log | copy, set, append | nothing past one statement | |

`PROJECT.json` lists every component with its sources, and every hazard at its
line, with the properties that cover it or the reason none does yet.

## Modules

### Publication

One event on its way to Discord and the calendar: `EventService` and `ChatHub`.

* `row` is the event's row: whether it exists, its contents, the ids of the five
  remote objects (thread, announcement, scheduled event, chapter announcement,
  calendar entry) and whether the thread is ours. Contents are a version number;
  `versions` keeps what each version said in the fields the code branches on
  (scope, the two suppress switches).
* `queue` and `worker` are the pool: each worker has a program counter, the
  snapshots its job captured or read, and the set of places it has still to go
  through. `request` is the same for request threads.
* `remote` is what exists out there, with the version it shows.
* One action per stretch of code between two points where something else can
  be seen or changed: `UpdateRead`/`Disown`/`UpdateWrite`/`UpdateEnqueue` are
  `EventService::update`; `CancelRead`/`CancelEnqueue`/`CancelCalendar`/`CancelDelete`
  are `cancel`; `SyncRead`, `SyncCreate`, `SyncUpdate` and `SyncKeep` an admin's
  "Send everything to Google Calendar"; `Find`, `LookUp`, `Edit`, `Move`, `Unref`,
  `Takedown`, `Clear`, `Post`, `Save`, `Own`, `Link`, `LeaveNote` are the job and the
  `ChatHub` calls it makes; the `Calendar...` actions are its second half.

Remote calls fail. `MayFail` names the kinds of objects whose calls may, creations,
edits and removals alike, and a failed creation may have made its object (the answer was
lost). The code logs a failure and goes on: an object that could not be edited
shows what it showed until the next edit (`ChatHub.cpp:444-518`,
`EventService.cpp:220`), the id of one that could not be removed is cleared all the
same (`ChatHub.cpp:472-487`, `528-540`, `GoogleCalendarClient.cpp:433`), and a thread the
forum refused is started from the announcement (`ChatHub.cpp:402`). `history` keeps
what the row then does not know: `left` (what a removal failed on, what a lost answer
made, and threads given up for a picked one, which the code does not remove),
`behind` (what the last edit failed on), `missed` (what the last creation failed on) and
`notes`, the update notes in threads, a picked one too, whose ids are not kept
(`ChatHub.cpp:520`). The properties say that these are all: no failure loses, hides or
leaves behind anything but the object of its own call. `EditAll` and `RemoveAll` choose
which of several calls in a row fail.

Abstractions: one provider (Discord), one chapter, one event; private events,
reports, reminder posts, the parts of an event somebody asked to skip (`chat_skip`) and
the retry of failed posts are left out. Local
updates, or remote edits and removals, that follow each other with nothing read in
between are one step; `create` is one step because nobody else knows the row yet. A
calendar update of an entry that is gone has no effect. The route that changes
only the thread (`EventRoutes.cpp:735`) is not modelled. `Patient` restricts a
run to requests that find the pool at rest, as one organiser's edits with pauses in
between do; two requests at a time do not, with a pool or without.

### Signups

RSVPs, capacity and waitlist of one event: `RsvpRepository`, its four callers
(the page, the Discord buttons, the reminder's buttons, a manager), the edit of
the event, deletion of events and members, merges.

* `status` and `ahead` are `event_rsvps`: each member's status, and who signed
  up before them (the order of `created_at, id`; row times never go back).
* `thread` is what each request has read: `Click` reads the event and its
  capacity, `DecideCancel`/`DecideRsvp`/`DecideNothing` the clicker's RSVP,
  `Rsvp`, `CancelOnly` and `MoveUp` are the transactions, `Tell` the message
  after one.
* `peak`, `edited`, `freed`, `unaware` are history variables: they name the
  circumstances under which a promise may not hold, so that the invariants can
  state it in all others.

`NoSilentMove` speaks of member records: if somebody's record is merged away
between being moved up and being told, the message goes to nobody. A crash
between the two loses it as well.

### Inventory and Ledger

One item of `InventoryRoutes`: how many, where, lent to whom. `shelf` is
`inventory_stock`, `loan` the open rows of `inventory_loans` (a returned row
never changes again, so its slot is free). `Ask...` actions are the reads a
request may be refused on, the other action of the same name its transaction or
update. An edit counts by two queries whose order C++ leaves open, so both
orders are there. The reads before a transaction are one step, which loses
nothing: each is of a row that goes one way only, and may go right after it.

How many there are in several places is counted by their pieces (`Pieces`, `Sum`),
and what is lent by the loans' (`Lent`): a sum is the number of elements of a set.
`Ledger` is the abstract specification: pieces have a holder, are only moved
from where there are as many, and only a stocktake changes how many there are.
`Inventory!KeepsBooks` says that the inventory implements it, with what is
placed, lent and loose as the holders. `raced` records that some request wrote
although another had written since it read; the invariants that need a count
to be current are stated for histories without that.

### Dues

One member's dues: `paid` and `until` are the two columns of their record, `covers`
the payments (`dues_payments`). `Record`, `EditPayment`, `SetPaid` and `Expire` are
one statement or one transaction each. Deleting a payment is four steps
(`AskDelete`, `Remove`, `Refit`, `FallBack`/`Lower`: a read, a delete, two reads, a
write), the backfill two. Everything that changes anything else in the record
(`OpenForm`/`PostForm`/`Update`, `CopyRecord`, `ReadRecord`, all ending in `Save`)
writes both columns as it read them, which is how members are stored here.
`decided` and `raced` are history: somebody set the date by hand, a request wrote
on what was no longer so. A payment that covers nothing is not distinguished from
none, and what a merge does to payments is left out.

### Roles

One member's role and where it comes from: `RoleSync.hpp` decides, signing in,
the sync, `MemberService::update` and a merge write. `mapped` is what
`RoleMappingRepository` makes of their Discord roles. Each request goes through
the reads and writes its code makes, in that order (`Login`, `Fetched`, `Decide`;
`SyncFetch`, `SyncFind`, `Decide`; `Give` or `CopyRecord`, then `Update`; then
`Save` for the row and `Mark` for the source). The sync takes one action per step
for one member; it does the same to each. `newName` stands for the other changes
that make a sync save the record. Its `Init`, `Next` and `Spec` are called
`RolesInit`, `RolesNext` and `RolesSpec`, so that it can be checked beside Sessions.
Left out: the bootstrap admin, whom nothing demotes, chapter leads' Discord roles, new members.

### SignIns and Sessions

`SignIns` is what being signed in promises: one truth, `session`, and look-ups
that are one step. `Sessions` is `SessionStore`: `table` and `cache`, the mutex
(`lock`: who holds it, how far they are, what they have read), and the answer
of the last look-up. Operations of the store exclude each other by the mutex;
`DeleteMember` (also by a merge) and `SetRole` wait for no mutex and fall between
its statements, and deleting a member empties the table but not the cache.
`find` is `FindExpired`, `FindOrphan`, `FindCached` (in the cache), `FindRow`,
`FindNothing`, then `RowExpired`, `RowOrphan`, `RowFound` (in the table), then
`Renew`. Everything in a session but its member and its expiry is left out, and
so is the one-off hashing of old tokens at start-up. The store implements
`SignIns` with `session <- table`: the cache is never needed to know the answer.

### Reminders

The round of the reminder loop (`main.cpp`, `ReminderService`, `LoanReminders`,
`Notifier::send_snoozed`), the messages it sends and what their buttons do
(`ReminderActions`). `loop` says of each loop at which stage of its round it is,
what is left of the list it read, and the errand under way. A stage reads its
list in one step (`LoansDone`, `SnoozedDone`, ... move on and read the next one),
`Take...` is the claim of one entry together with the check of the member's
choice. The errand that follows takes several steps (`doing`, `by`, `row`): `SendDM`
records the row and sends the message with its buttons, `Confirm` is the answer that it
arrived. If none comes, `Forget` deletes the row, though the message may be there and
its "Remind me later" clicked, and `Mail` sends an email in its place, without asking
again whether the member has muted the kind (`Notifier.hpp:56-65`). `claimed`,
`marked` and `dms` are `reminder_sent_at`, `reminded_at`/`reminded_on`, and
`reminder_dms` with each row at `sent`, `later` (snoozed), `due`, `again` (taken up)
or `gone`. A claim and the check after it are one step: what happens in between happens
as well before both. A message that arrives after the client has given up on it is left
out: it arrives before its row is deleted, or never. The
kinds share no rows, so a behaviour is about one of them; a meeting goes the way
of an event. A post that Discord refuses to remove is not modelled, and neither
are dues reminders (module `Dues` has the dates) and the weekly digest. Buttons
stay clickable, which includes late and double clicks.

`told`, `mailed` and `asked` count. `leeway` is how many messages the errands under way
for a member could still send when they muted, DMs and mails; `MuteIsHeard` says that no
more came. `raced` is that a deletion fell between claiming an event and noting its
post, or the round was cut short there. `SnoozeIsKept` allows one loss, because the code has
it: the snooze of a message whose row the loop that sent it forgets.

### LivePages

The hub (`LiveHub.cpp`) and the script of each open page (`live.js`), with the parts of
htmx 1.9.12 and `layout.html` it relies on.

* `data` counts the changes of each topic. `pending`, `hub` and `conn` are the hub's
  `pending_`, where its thread is in `run()`, and `conns_`; `wire` is what it has sent.
  `Take` gathers a burst, `Send` sends it, `Beat` and `CloseEnded` are the two halves of
  the heartbeat, which looks sessions up without the lock.
* `linked`, `lost`, `queue`, `timer` are the script's: `Open`, `Closed`, `Hear` and
  `Apply` are its handlers. `Apply` leaves everything to the hook of a page that has one
  (`Hook`); else it offers the button (`pill`), or fetches the page or the pop-up again.
* `Hook` is that of the members table (`templates/members/_content.html:357`): it
  reloads the rows for changes of members, chapters and perks (`HookTopics`) and says of
  every other that it has handled it, so that neither a request nor the button follows.
* `body` and `next` are the request htmx makes for the body of the document and the one
  that waits for it, which another forgets; `link` is the request of a link, made beside
  it. `AnswerBody` is the moment the server renders, `SettleMain`, `SettlePopUp` and
  `SettleLink` the moment the answer is swapped in, which also takes the button away.
* `shown` is what the page shows, in the same counts. `hands` says what somebody does
  in it: has the focus in a field, or has opened or filtered something.
* `missed` is history: a change before the page was first connected, a request that
  failed (which nothing repeats), an answer of before either, or of before a change the
  script has acted on, that arrives late.

No other page narrows its topics. What the hook drops is not all without effect: the
settings that switch dues and chapters on and off add and remove columns of the very
page, which then stays as it is until it is opened again. `NothingLost` and `KeepsUp`
claim nothing of these (`Listens`). A change and its announcement
(`AuditService::log`, right after it) are one step: a page that is answered in between
shows the change and is told of it all the same. Delays, limits on connections, the
listener for tests and rights that change while connected are left out.

### LogoEditor

`logo_editor.js`, the form it fills, and what `BrandingRoutes` writes. `Choose` starts
the loading of a picture (`Loaded`, `NotLoaded`), which draws it and starts the timer
anew; `Fire` is the timer: the canvas goes to the encoder, and `Encoded` fills the inputs
`file`, `orig` and `state`, some time later and in any order. `Submit` sends them;
`StoreLogo` and `StoreOriginal` are two of the server's writes with other admins
(`Elsewhere`) and a `Crash` in between. Size and position are one value. `strayed`
names what leaves the inputs different from the canvas for good: a picture that cannot
be shown, an encoder that failed, one that answered after a later result.

### RichEditor

`rich_editor.js` in any number of tabs, and what `FanCoLabRoutes` and `PhotoStore` do with
its texts and photos. A text is the set of its pieces, words and photos; formatting is
left out. `past` is what undo can bring back. An upload is `Upload`, `SaveFile`,
`InsertRow`, `Uploaded`; saving the form is `Send`, `Publish` (or `Refuse`), `List` (the rows
its text does not show), `DeleteRow` and `DeleteFile` for each of them, `Render`, `Answer`;
`SweepList` and `SweepFile` are the daily removal of files without a row. `AnswerLost`,
`NotUploaded` and `Crash` cut each of them short.

`torn` names photos that a save deleted while another tab, the clipboard, an upload or a
form without an answer still had them: nothing in the code prevents that. `fresh` are
the rows made since a save last listed them, and `cut` says that a crash fell between the
text and the last deletion; the next save makes up for it.

## What is checked

| Run | Bounds | Shows |
|---|---|---|
| PublicationPatient | 1 worker, 1 request thread, 3 contents, all parts, forum, 3 versions, `Patient`; calls about threads, the announcement, the Discord event and the calendar entry fail, answers lost up to id 3 | `NothingLeftBehind`, `NoOrphans`, `KeptInStep`, `ShownAsAsked`, `PickedThreadUntouched` |
| PublicationOverlap | 2 workers, 1 request thread that does not wait, 3 contents, announcement and calendar, both failing, 2 versions | `NeverShowsSuppressed`, `EventuallyQuiet` |
| PublicationDelete | 2 workers, no waiting | finding: a deletion overtakes the publication |
| Signups | 3 members, 2 threads, capacities 1, 2, unlimited; symmetric | `NoOverbooking`, `NoIdleSeat`, `SeatsInOrder`, `NoSilentMove`, `PlaceNeverSlips` |
| SignupsWaitlist | 2 members, 1 thread | finding: room made by an edit moves nobody up |
| Inventory | 2 places, 2 members, 2 pieces, 2 threads; symmetric | `KeepsBooks`, `NoPhantoms`, `RetiredIsHome`, `NothingStranded` |
| Dues | 2 requests, 2 days and the grace of one, 2 payments | `PaymentsCount`, `GraceIsKept` |
| DuesPreserved | 1 request, 1 payment, no grace | finding: a sync writes old dues back |
| Members | Roles: 2 requests. Sessions: 2 tokens, 2 members, 2 roles, a lifetime of 3, extended every 2, times to 6. Symmetric | `ManualIsKept`, `SourceIsHonest`; `Coherent`, `UsedIsExtended`, `KeepsPromise` |
| Browser | LivePages: 1 tab, 2 topics (1 of them for staff), 2 pages (1 of them a table, which listens to the other), 2 tokens, 2 changes, 1 fault, seven `Scenarios`. LogoEditor: 3 pictures (1 too large, 1 broken), 2 places, 1 colour, 3 turns, 1 trouble. RichEditor: 2 tabs, a word, a photo, a page of one piece, 4 turns, 1 trouble | `NothingLost`, `KeepsUp`, `OnlyEndedClosed`; `SendsWhatIsShown`, `CanBeEditedAgain`; `PublishedPhotosExist`, `NothingLeftOver` |
| Reminders | 2 loops, 1 member, asked for later once, 1 round cut short | `OncePerAsking`, `PostedOnce`, `MuteIsHeard`, `PostGoesWithEvent`, `SnoozeIsKept` |
| RemindersCancelled | 1 loop | finding: shifts at a cancelled event are reminded of |

Why the bounds are enough: a race needs two actors and one thing they share. Two
workers and a request thread give every overlap of two jobs with an edit; two
versions are before and after, a third lets a change be followed by another;
three members are one in the seat and two who wait, which is what order is
about, and the proofs lift that bound. Two pieces are the last one and another.
Two payments are the one that gives the date and the one to fall back to; on two
days and a grace of one there is every order of a date, its grace and today.
One member is enough for reminders: rows of two members never meet, and a round
cut short with names left is the same as one that had not listed them.
Bounds on unbounded counters are `MaxVer` (versions of an event), `MaxId`
(objects made by a call whose answer is lost), `MostOwned`
(the code allows totals to 100000), `LastDay` and `MostPayments` (payments),
`MaxAsks` and `MaxStops` (snoozes and cut rounds), `MaxChanges` and `MaxFaults` (live
updates), `MaxTurns`, `MaxOthers` and `MaxTroubles` (what people do in the editors, what
others do and what fails), and `Horizon` (time): twice the lifetime, so a session can be
extended, extended again and end.

Members and Browser check modules that share nothing side by side: a behaviour is one of
Roles or of Sessions (`MCMembers`), of LivePages, LogoEditor or RichEditor (`MCBrowser`),
while the variables of the others rest. Whether a tab keeps up depends on what the others
do only through `data`, which `Elsewhere` changes too, so one tab is enough. Not everything
can happen in one behaviour of LivePages: a behaviour takes one of the sets in
`Scenarios`, which pair what disturbs each other: ending sessions with signing in
again, with links and with pop-ups; faults with each of these and with hiding;
work with pop-ups. Two changes are one that is fetched and one
that comes while it is. Two tabs of the other editor are one whose save deletes and one that
still has the photo; four turns are to upload, to save, to undo and to save again; a page
of one piece is the smallest that can be refused for its length.

Deadlock is not checked: an event may be deleted and everybody gone, and then nothing
is left to do. Every passing property has a mutant, a plausible bug in a definition of
the model, that breaks it; they stand next to the definition they alter, marked as such.

Fairness (Publication): a request that has started and a worker that has
something to do go on, one weak fairness condition per thread. The threads of
the pool wait on a condition variable that every enqueue signals, and nothing
in a job waits for another job. A remote call that never returns is not
modelled; the HTTP client has timeouts. `Reminders` assumes it of each loop,
which `main.cpp` keeps running whatever a round throws, and of the moment a member
asked for coming (`Wake`). Rounds are cut short finitely often (`MaxStops`): if every
one were, nothing would ever be sent. `LivePages` assumes it of each step of
the hub's thread, of each handler of a page's script and of its requests, which come to
an end, by an answer or by failing. Nobody has to sign in again, to come back to a hidden
page or to click: `KeepsUp` says when it needs them. The other modules state only safety.

## What is proved

`SignupsProofs` proves, for any finite set of members, any set of threads and
any capacities (`SignupsAssumption`), that `Spec` implies `[]TypeOK`,
`[]NoOverbooking`, `[]NoIdleSeat`, `[]SeatsInOrder`, `[]NoSilentMove` and
`PlaceNeverSlips`.

The properties are not inductive by themselves. A transaction decides with the
capacity its thread read earlier, so the invariant has to say what such a
reading can be. `Readings`: it is never roomier than the roomiest capacity so
far (hence no overbooking); while no room was made it is at least as roomy as
the capacity is now (hence a cancellation that promotes nobody really had no
seat to give); while the capacity was not changed it equals it (hence order).
`IInv` adds that to the types and the three invariants. `InitEstablishes` and
`NextKeeps` are its induction, with one lemma per action; the counting in them
rests on the library's theorems about cardinalities, `RoomKept` (a smaller set
and a roomier limit leave room) and `RowGoes` (what leaving a line does to those
behind). `NeverSilent` is an induction of its own: whoever is unaware has a
thread at `tell`. `PlacesHold` follows from `IInv` step by step: the set of those
ahead of somebody who waits can only lose members, or rename one.

`DuesProofs` proves `[]TypeOK`, `[]PaymentsCount` and `GraceIsKept` for any number of
days, payments and requests and any grace (`DuesAssumption`). A request writes what it
decided on an earlier reading; `IInv` says what one that is not outdated knows, and
what its write leaves. `Sound` strengthens `PaymentsCount`: the date covers every payment,
and whoever has a date to come is paid. Recomputing takes the latest of a set of dates;
that there is one is `LatestDate`, by well-founded descent.

`MembersProofs` has two parts. The first proves `[]RolesTypeOK`, `[]SourceIsHonest`
and `ManualIsKept` for any set of requests (`RolesAssumption` only keeps `Nothing` apart
from the roles). `RolesInv` is built like that: it says of each request which has not
been outdated since what it knows of the record (`Knows`), which role it is
about to write (`Shaped`), and that whoever is between its two writes will write
the truth (`MarksTruly`). A step reads or it writes, and there is a lemma for each:
`ReadsKeep` for the former, `WritesKeep` for the latter, which outdates all others.

Its second part proves `[]TypeOK`, `[]Coherent`, `[]UsedIsExtended` and
`KeepsPromise` - the whole refinement of `SignIns` - for any tokens, members, roles,
lifetime and `Day` (`SessionsAssumption`: a day is no longer than the lifetime;
`NoneIsNoRecord` keeps `None` apart). `SessionsInv` adds that rows are of members that exist
and of drawn tokens (`RowsAreSound`), that a look-up holds what the table still says
unless its member is gone (`HeldIsTrue`), and that it was granted before it extends
(`GrantedFirst`). `StepRefines` then maps each action: finding out is `Look`, the
`UPDATE` is `Extend`, and reading a row or sweeping the cache a stutter.

`RemindersProofs` proves `[]TypeOK`, `[]PostedOnce`, `[]PostGoesWithEvent`,
`[]MuteIsHeard` and `[]OncePerAsking` for any finite set of loops, any members and any
bounds (`RemindersAssumption`). `OneMayPost` says that the claim gives the right to post
to one loop, which has posted nothing yet; `NotedSoon` that a post without a note has a
loop about to note it, or the race on record; `LeewayCovers` that the allowance at
the time of muting covers all that the errands under way can still send, DMs and the
mails in their place, a count that `NothingStarted` and `OneStops` show can only shrink
while they have muted it. `OncePerAsking` counts as well. `Covered`: what a
member was told, plus what is still `Open` to them (the first reminder while nobody has
claimed it, the lists that may name them, the rows they asked for), plus the errands
under way, is at most what is `Fair`, which is once and once for each asking, and for a
loan once per loop. Each step only trades one of these for another: a claim the first
reminder for a list, an errand an entry of a list for a message.

`RichEditorProofs` proves `[]TypeOK`, `[]PublishedPhotosExist` and `[]NothingLeftOver` for
any tabs, words, photos and any number of saves, uploads and crashes
(`RichEditorAssumption` keeps `None`, words and photos apart). That the page's photos exist
is not inductive: a photo gets into the page through areas, undo, the clipboard, forms
and answers. `IInv` says where names may be and whose they are. `Names`: what anything
speaks of was drawn, and its upload has its row. `Folder`: every row has its file, and
neither a save nor the sweep is about to remove that file; this is what makes the row
before the file (`DeleteRow`) and the file before the row (`SaveFile`) the right orders.
`Claims`: what may come to be published has a row or is torn. `Owned`: the page is the text
of some form, so a deletion that spares that form's past spares the page. `Leftovers`:
unless a save was cut short, the save of the page itself has still to list the rows, or
what is too much is listed by a save already. `InvariantNext` puts one lemma per kind of step
together; edits share `EditKeeps`, since all they do to the invariant is to add to a past
what was in it, in the clipboard or in an answer.

`PublicationProofs` proves two things of whatever overlaps, for any workers, requests,
versions and failing services: `[]TypeOK` and `[]NeverShowsSuppressed`. The latter looks
at remote objects only; `Consistent` says why it lasts. Every id is one of the kind it is
used as, every version named was written, and a worker that is about to show a version on
Discord has read in that version that it is not suppressed there. The calendar has one
exception: "Send everything to Google Calendar" (`WithSync`) pushes suppressed events too,
and where an instance has it nothing is claimed of entries in the calendar.

For requests that find the pool at rest (the hypothesis `Patient`) it proves the other
five: `[]PickedThreadUntouched`, `[]NothingLeftBehind`, `[]NoOrphans`, `[]KeptInStep` and
`[]ShownAsAsked`. Four of them speak of quiet states, so the invariant must follow the job
that leads there. `Phase` says that one thing happens at a time: nothing (`AtRest`), one
request, one job in the queue, one worker, or a removal; and for each step of it what the
row, the remote objects, `history` and the worker's copy of the row have in common.
`QuietIsRest` then reads the properties off `AtRest`. They hold for any number of workers
and whichever kinds may fail, with the exceptions the properties name and `history`
records; where nothing may fail, only threads given up for a picked one are left. Without
`Patient`, `NothingLeftBehind` and `PickedThreadUntouched` are false, as the findings show.

`InventoryProofs` proves `[]TypeOK`, `[]NoPhantoms`, `[]RetiredIsHome`, `[]NothingStranded`
and `KeepsBooks`, the refinement of `Ledger`, for any finite sets of places, loans, members
and requests and any most that may be owned (`InventoryAssumption`). `Sound` adds what each
request holds between its check and its transaction (`Ready`): `Fits`, whatever others
did meanwhile, and `Knows`, what of its reading is still so while it is not stale. A sum
over places is the number of elements of a set of pieces, so that no induction is
needed: `SumParts` takes one place out of the sum, `SumChanged` says what moving
pieces does to it. For the refinement each transaction is one of the ledger's entries or,
like reading, a stutter.

`BrowserProofs` proves of each module of the browser's half what `Browser.cfg` checks.
`NothingLost` and `OnlyEndedClosed` hold of `Live!Spec` for any finite sets of tabs and
topics, any pages, sessions and number of changes (`LiveAssumption`). `NothingLost` is
not inductive, because an answer that was given earlier replaces what is shown now.
`KeepsWord` therefore says two things of every page and each topic it listens to. `Promised`: the page knows
that it is behind, hears of it, or has a request that will bring it; this is stronger
than `NothingLost`, which lets the request of a followed link count although that may
fail unnoticed, and the hub count although the page has lost its connection. `Current`:
an answer on its way is of now, or what it lacks is on its way too. `SendsWhatIsShown`
and `CanBeEditedAgain` hold of `Logo!Spec` (`LogoAssumption`): `LogoInv` says which
answers of loader and encoder are of the canvas as it is (`Fresh`, `LastIsCurrent`,
`AboutToFill`), what the form then holds (`FileIsSent`, `CalmIsDrawn`) and, for a save
in three writes, that the logo in place is its own unless another save or a crash came
between (`LogoIsSaved`).
`PartsAreWhole` puts these and the editor's invariant side by side for `[]TypesOK`. The
theorems are of the instances in `MCBrowser`, whose constants are the module's own.

Only model-checked: the liveness properties `EventuallyQuiet`, `SnoozeIsKept`
and `KeepsUp`, since fairness is outside the prover's reach, and the four violations.
Every invariant and every other action property of the passing runs is proved.

## Findings

1. `PublicationDelete`: `cancel` takes the ids from the row while the job that is
   creating the posts has not saved them; what it makes later is in no row.
2. `SignupsWaitlist`: raising the capacity, or deleting or merging a member with a
   seat, leaves people waiting beside a free seat.
3. `DuesPreserved`: whoever saves a member writes all columns as read, so what a
   payment recorded in between has set is put back; the payment stays on record, and
   the member lapses before the day it covers, or is not paid at all if they were not.
4. `RemindersCancelled`: shifts at a cancelled event are reminded of, and so is a
   cancelled event somebody had snoozed.

Two more of the same kind are in the models without a run of their own: a
member's own page writes back the role it read (`Roles`, as in finding 3), and an
edit lowers the total of an item on counts that no longer hold (`Inventory`, which is
why `NoPhantoms` speaks of histories that did not race). A snoozed reminder also
repeats the time and place of the first one, whatever they are by then.

`PickedThreadUntouched` is checked under `Patient` only. Without it a thread picked
while the publishing job is making one ends up marked as our own: the cause is the
one of finding 1, a job that saves what it learned over what was decided since.

What failures lose is no finding, since the code accepts it and promises nothing else, but
it is in the models: whatever a removal fails on stays for good (`history.left`), and so
does what a call makes whose answer is lost; a snooze clicked on a message that was
delivered and not confirmed is forgotten (`Forget`); the members page ignores the
settings that change its columns (`Hook`).

The editors have places of the same kind, named by history variables: a photo may be
deleted while another tab still shows it and then be published from there (`torn`), and
a logo may be sent that is not the one on the canvas (`strayed`). `live.js:16` promises
that nothing is replaced under someone's hands. It asks when it makes the request and not
when the answer comes, so what is typed meanwhile is replaced; the model has these steps
(`Work` between `Apply` and `SettleMain`) and no property claims otherwise.

The hazards without a property (in `PROJECT.json`) name further places of the
same kind that the plan below reaches.

## Not modelled, and why

HTTP, JSON and HTML, translation of times, the text of posts and the calendar
feed are conversions no property is about. Permissions, API keys, settings and
audit are single statements. Backups are files. The database is
assumed to do what SQLite and the mutex promise. Restarts of the server are modelled where a
request writes in several steps (RichEditor, LogoEditor) and for the reminder loop;
otherwise they lose the jobs in the pool's memory and a message after a commit, and both
are listed as hazards. In the browser: formatting and Markdown, DataTables beyond reloading
rows, the theme, the service worker (which only serves a page when offline) and the demo's
script, none of which keeps state that steps of two actors meet in.

## Plan

Done, with their proofs: Publication, Signups, Dues, Roles, Sessions, Reminders,
Inventory with Ledger, RichEditor, LivePages and LogoEditor.

1. What a merge does to payments.
2. `Matches`: new members in the sync, pending matches settled by two admins, merge
   over the tables that refer to members.
3. `Series` and `Meetings`: materialisation against the page and against stopping;
   the pool's shutdown. Pure algorithms (occurrences of a series, proration of
   dues) against a reference definition.
4. Proofs of these as they are written.

At most one or two runs per module: an overlapping instance that passes, and a
violation where the code and its documentation part. Small modules that share
nothing are checked side by side in one run.

## Running

    tlc -config Signups.cfg MCSignups
    tlc -config Browser.cfg MCBrowser
    tlapm SignupsProofs.tla DuesProofs.tla MembersProofs.tla RemindersProofs.tla
    tlapm RichEditorProofs.tla PublicationProofs.tla InventoryProofs.tla BrowserProofs.tla
