# quicksurvey in TLA+

Models of quicksurvey's core, checked with TLC, and theorems about them, checked
with TLAPS.  Every definition follows the Go source; `PROJECT.json` maps each one
to the lines it models and lists the runs, the hazards, the divergences found and
the theorems.

To check a run: `tlc -config survey_moderation.cfg MCSurvey.tla` (each run's module
and cfg are in the table below).  To check the proofs: `tlapm` on each of
`SurveyProofs.tla`, `BallotsProofs.tla`, `TallyCacheProofs.tla`, `AccountsProofs.tla`,
`SessionsProofs.tla`, `RateLimitProofs.tla`, `BackfillProofs.tla`, `PortableProofs.tla`.

## 1. The system

quicksurvey is one Go server over one SQLite database.  Every HTTP request runs in
its own goroutine.  Every change of the database is one `BEGIN IMMEDIATE`
transaction (`Store.tx`), so the store's operations serialise; what does not
serialise is everything around them: the page the browser still shows, the check a
handler makes before it calls the store, the SELECTs of a read that share no
transaction, the cache and the limiter in memory, the file beside the database, the
second process on the same data directory.

| Component | State | Operations | What is hard | What makes it correct |
|---|---|---|---|---|
| Surveys, options, responses (`store/survey.go`, `store/response.go`) | survey state, first opening, close time, settings; option statuses and merge pointers; per respondent choices, seen set, comment | create, edit, set state, publish, delete, moderate, merge, answer, propose | options change status between two answers of one respondent; merges chain and are undone; a survey goes back to draft; ceilings counted in three places | hidden votes survive, exposure only grows, Votes <= Shown <= respondents, merges end, suggestions stay private, real answers are never discarded |
| Survey handlers (`web/public.go`, `web/admin.go`) | the pages that are open, requests between their check and their transaction | render and submit a ballot, propose, render and save the edit form | stale pages, a decision made on a survey that has changed | a submission does what its form said, drafts take answers from previewers only |
| Tally cache (`Store.Tally`, `Store.tx`) | `gen`, `tallyGen`, `tallyCache` | the two critical sections of `Tally`, five SELECTs, commit and bump | a slow computation that ends after a write; two processes | no call misses a write that had returned; the cache fills once writes stop |
| Accounts, invitations, resets (`store/users.go`, `invite.go`, `reset.go`) | account rows, links | add, set password, sign out everywhere, set role, delete, approve; create, claim, revoke an invitation; create, use a reset | links that outlive their reason, the last administrator, names used again | single-use links, links that die with the password, an instance that stays administrable |
| Sessions and account handlers (`web/auth.go`, `invite.go`, `admin.go`) | a cookie per browser, the accounts page, requests past their checks | sign in and out, change and reset a password, claim, the accounts page's buttons | there is no session table; checks and store calls are apart | an ended session is never good again; one decision per request for an account |
| First administrator (`main.go`, `store.go`, `users.go`) | the account rows, the initial-password file | count, insert, write the file, clear the file | racing servers, crashes between the steps, the command line | every server comes up; the file holds the password that is the way in, and no file means nobody waits for one |
| Rate limiter (`web/ratelimit.go`) | a map of token buckets | charge, check, sweep | the map at its ceiling, two callers that use it differently | sweeping forgives nothing; a newcomer gets through |
| Schema migration and seen backfill (`store/store.go`) | `seen` rows, the rows `seen_backfilled_through` and `seen_backfilled` of `meta`; in a process the marker it read and the surveys it listed | look at the guard, read the marker, list the surveys, one transaction a survey, finish | interruption anywhere, several processes, one serving while another still fills, an older version put back in between | the marker never claims more than was committed, no exposure is invented, the backfill is completed |
| Portable documents (`store/portable.go`) | a file; a restore between its check and its transaction | `SurveyDocument`'s five reads, `RestoreSurvey`'s check and its transaction | reads that share no transaction, an existence check outside the transaction, files nobody here wrote | what is restored can be counted, no circle of merges comes of laying files over rows, a backup that nothing disturbed brings everything back |
| TSV export (`export/tsv.go`) | none | the table of responses, the summary | columns against chains of merges | the two files agree, no vote falls between the columns |
| Backup, secret, digests, routes, templates, flags, deployment | - | - | - | not modelled, section 8 |

Interaction: handlers call the store; the store's transactions end in `gen.Add`,
which the tally cache reads; `SetPassword` and `UseReset` remove the file that
`AddUserMustChange` wrote; sessions are derived from account rows and need no store
of their own; the limiters stand in front of voter identities and sign-ins; the backfill
gives the exposure the tally divides by; a restore is another way for a survey to exist,
beside every operation on it.

## 2. The modules

```
VoteLedger          what the response store promises
   ^ implemented by
Survey              the store, one survey  ------------ SurveyProofs
   ^ extended by           ^ extended by                  ^ extended by
Ballots                 Export                          BallotsProofs (Ballots),
web handlers,           the two TSV files               PortableProofs (Export
stale pages                ^ extended by                and Portable)
                        Portable
                        save and restore

TallyCache          Tally against tx ------------------ TallyCacheProofs

Accounts            users, invites, resets ------------ AccountsProofs
   ^ extended by           ^ extended by                  ^ extended by
Sessions                Bootstrap                       SessionsProofs (both)
cookies, handlers       first administrator, crashes

RateLimit           the two limiters ------------------ RateLimitProofs

Backfill            opening an older database --------- BackfillProofs
```

`MCSurvey`, `MCBallots`, ... give the constants of each module their model values.

Conventions.  An operation that returns an error rolls back and is the absence of a
step.  A variable or field called *history* in a comment is not in the program; it
remembers something a property compares with, and no guard reads it.  A definition
whose comment begins with *Mutant:* is a plausible bug in the definition after it;
no specification uses it, and the property `PROJECT.json` pairs it with fails when it
is put in place of the original.

**Survey.**  `state`, `opened`, `closeAt` and `settings` are columns of `surveys`
(`opened` is "`first_opened_at` is set"), `status` and `mergedInto` of `options`;
`answered`, `choices`, `seen` and `comment` are `responses` and its two child tables.
Each action is one transaction: `EditSave` and `SetState` are `Store.Update` with the
closures of `handleEditSave` and `handleSetState`, `SetOptionStatus` and `Merge` are
`Store.SetOptionStatus`, `SaveResponse` and `AddWriteIn` are themselves and their
preview variants.  `SaveSurvey` is the code every survey write passes through and
`SaveResponseTx` the code both answers pass through, including the optimisation that
writes `seen` only when it got longer.  `Resolve` has the source's bounded walk
(`Walk`, a recursive function of the passes left).
`origin` (was the last answer a preview) and `author` are history.

**VoteLedger** is the promise with options' moderation taken away: a ballot free of
hidden options is cast, the rest is untouched, and the ledger is wiped at the first
publication and at deletion.  `Survey!Ledger` is the refinement mapping: phase from
`opened` and `state`, `hidden` from the statuses that no `visibleTo` lets through.

**Ballots** splits a submission in three: the page is rendered (`OpenBallot`), the
request reads the survey and decides whether it is a preview (`Submit`, after
`visibleSurvey`), the transaction runs (`Vote`, `WriteIn`).  Anything may happen in
between.  The edit form is split likewise.

**TallyCache** gives a tally the versions of its five tables instead of counts.
`Commit` is `tx` up to the commit, `Bump` its `gen.Add` and return; `Call`, `Lookup`,
`Select` and `Keep` are `Tally`'s load of the counter, first critical section,
`computeTally`'s SELECTs and second critical section.

**Accounts** knows a password hash by its salt, and an account by the salt it was
created with (`since`), which tells it from a later account of the same name.
Instants and salts come from one counter, so no two are equal.  An expiry is an event
(`InviteExpires`, `ResetExpires`) that may come at any time.

**Sessions** gives each browser a cookie whose key is what the MAC covers.  A request
that changes accounts passes its checks in one step and calls the store in another.
The account commands of the binary (`CommandLine`) run beside it.

**Bootstrap** splits `bootstrapAdmin` in count, insert and write, and `SetPassword`
in commit and clear.  A server that ends with an error and one that crashes both go
back to `down`.  `removed` (the first administrator has been deleted), `changed` (somebody
has set a password) and `lost` (a server crashed between its insert and its file) are
history.

**RateLimit** has one tick for the time one token takes.  `Allow` is what `allow`
does to the map; `StartSignIn` is `ok`, which neither sweeps nor charges.

**Export** is functions of Survey's state.  A cell of the wide table is 1, 0 or blank,
through `resolveMap` and `resolvedSets`; a summary row is `Votes` and `Shown`.  Its
properties are checked in survey_moderation, where chains of merges are made and undone.

**Portable** adds to Survey a save and the restores in flight.  `SaveBegins`,
`SaveOptions`, `SaveResponses`, `SaveChoices` and `SaveSeen` are `SurveyDocument`'s
SELECTs, with any step of Survey between two of them; `CheckRestore` is everything
`RestoreSurvey` does before its transaction, `ApplyRestore` the transaction.  A document
stands for a file whose header, enumerations and texts are in order; `Foreign` ones were
written elsewhere and may name options they do not contain, or merge in a cycle.
Identifiers are never minted twice (`issued`), which is what random identifiers come to.
`before` is history: the survey when the save began, until something is written.
Reads are taken to succeed.

**Backfill** has the rows of `meta` and, per process, how far `backfillSeen` has got.
`Open`, `ReadMarker` and `ListSurveys` take no lock and are steps of their own;
`BackfillSurvey` is one transaction, which reads the guard again; `Stop` is a kill, an
error or an exit anywhere.  A process that has finished serves.  The older version runs
alone and, of what it does, takes answers from new respondents and adds options: it is
there for the gap `DESIGN.md:446-471` describes, answers whose survey was done before.
`assumed`, `shownTo` and `unrecorded` are history.

## 3. The runs

Runs that pass:

| Run | Module | What it shows | States |
|---|---|---|---|
| survey_moderation | MCSurvey | consistency of options, votes, tally and export under any moderation, the ceilings, and the ledger refinement: `ChoicesWereShown`, `TallyIsBounded`, `MergesEnd`, `ResolveReachesAnEnd`, `PendingIsPrivate`, `CeilingsHold`, `ExportsAgree`, `NoVoteWithoutAColumn`, `MergeMovesEveryVote`, `KeepsTheLedger` | 203 000 |
| ballots | MCBallots | drafts, previews, publications and close times in any order, stale forms, and decisions made before the transaction: `NeverOpenedHoldsOnlyPreviews`, `RealAnswersAreKept`, `SubmissionIsHonoured`, `WriteInKeepsTheRest`, `DraftsTakeOnlyPreviews` | 2 900 000 |
| tally | MCTallyCache | `TallyReflectsReturnedWrites` and `CacheSettles` in one process | 1 461 000 |
| accounts | MCAccounts | `InvitesAreSpentOnce`, `UnspentLinksAreCurrent`, `StaysAdministered` | 799 000 |
| sessions | MCSessions | `EndedSessionsStayEnded` | 2 000 000 |
| bootstrap | MCBootstrap | servers that race, crash and are restarted: `NoFileMeansSetUp`, `FileIsTheWayIn`, `EveryServerComesUp` | 31 000 |
| limiter_voters | MCRateLimit | `SweepingForgivesNothing`, and `NewcomerGetsThrough` on the path that charges | 9 000 |
| backfill | MCBackfill | two processes, interruptions without end, an older version put back: `MarkerClaimsOnlyCommitted`, `ExposureIsReal`, `BackfillCompletes` | 230 000 |
| portable | MCPortable | a save disturbed anywhere, restores of it and of foreign files, two of them at once: `ChoicesWereShown`, `CirclesAreForeign`, `BackupBringsItBack` | 1 474 000 |

Runs that find a disagreement between the code and what the repository says of it
(quoted in `PROJECT.json`):

| Run | What happens |
|---|---|
| one_decision | a reject from an old accounts page deletes an account another administrator has just approved; both succeed |
| backup_torn | a suggestion made while a full backup is read is in its answers and not among its options: the restore refuses the file |
| restores_overlap | two restores look before either writes; the first writes, the survey is published, and the second takes it back to a draft that was never open |

Further disagreements, which no run is kept for.  In what the models' actions contain:

- A write-in proposed after comments were turned off wipes the proposer's comment
  (`response.go:204`; `response.go:337-339` says the comment is carried forward).
  `WriteInKeepsTheRest` therefore speaks of surveys whose comments are on.
- A previewer may answer a draft whose close time has passed (`survey.go:100`;
  `survey.go:98` says a passed close time still applies).
- A test answer given while a published survey is back in draft is kept and counted
  when it is published again (`response.go:591`); `public.go:107` tells its author it
  will be discarded.
- A preview decided on a draft (`public.go:98`) is recorded in the open survey when the
  survey is published before the transaction runs.
- A form rendered before an option was restored, approved or proposed deselects that
  option (`response.go:176`), though it was not on the form.  `SubmissionIsHonoured`
  therefore speaks of the options that were on the form.
- An edit form rendered before a suggestion was approved and removed restores it
  (`admin.go:150`; `admin.go:139-140` says the two forms cannot fight).
- Setting any account's password removes the initial-password file, also while the
  first administrator's password is still the one in it (`users.go:219`).
- A second process on the data directory keeps serving a tally of before the first one's
  writes, because `gen` is its own (`response.go:628-629` says a stale entry is never
  readable, `DESIGN.md:593` that two processes "both work").
- A full login limiter turns a sign-in away for good when nobody else signs in, because
  `ok` in front of it never sweeps (`ratelimit.go:80`; `ratelimit.go:112-114` says a
  client turned away "retries after the next sweep").
- A crash between inserting the first administrator and writing the file
  (`users.go:144`) leaves a password nobody has; `store.go:682-683` then says the
  instance has already been set up.  `NoFileMeansSetUp` therefore speaks of behaviours in
  which no server crashed there; it allows crashes anywhere else.
- An approval that commits while a backup is read leaves in it a pending suggestion that
  respondents other than its author are on record as having been shown.
- A publication that commits while a backup is read restores real answers under a draft
  that was never opened; the next publication discards them.
- Two restores of different files that overlap leave a survey with the options of both,
  which may be more than the ceiling: `saveSurvey` counts the options of the file, not
  the rows it leaves beside them (`survey.go:285`; `survey.go:267-269` says no path walks
  around the ceiling).  A backup of that survey is refused once the survey is gone.
  `BackupBringsItBack` therefore speaks of files within the ceiling, and `CeilingsHold`
  is not claimed of Portable.

Because of the last three, of restores_overlap and of foreign files, `KeepsTheLedger`,
`PendingIsPrivate`, `NeverOpenedHoldsOnlyPreviews` and `MergesEnd` are not claimed of
Portable: a restored document may break them.  `ChoicesWereShown`, `TallyIsBounded` and `ExportsAgree` hold all
the same, and of `MergesEnd` `CirclesAreForeign` is left.

In what the models leave out:

- A failed read is logged and not returned (`response.go:446`), so a backup over a
  failing database is a file that looks complete with answers missing.
- Two processes that open a fresh directory together may each make an instance key
  (`store.go:484`), and the one whose key is not stored loses its respondents when it is
  restarted (`DESIGN.md:593`: "both work").
- `handleExport` reads the survey before its responses (`admin.go:293`), so an option
  proposed in between is a vote with no column and in no row's count of selections.
  `NoVoteWithoutAColumn` speaks of one state.

## 4. Bounds

- Options: three at a time in survey_moderation, so that a chain of two merges has a start, a
  middle and an end; a fourth identifier that the ceiling of three has no room for; two
  suggestions in moderation, one to a respondent.
  Respondents: two, a suggestion's author and somebody else.  A third respondent adds
  no interaction: responses of different respondents meet only in counts.
- Settings, close times, states and preview flags that a run does not ask about are
  fixed by `Settings`, `CloseTimes`, `StateChoices`, `PreviewFlags`.
- Ballots: two options (one to select and one to propose or hide), one comment, one
  browser of an editor, who is a member of the public once the survey is open, with one
  form and one request in flight.  Another respondent would only meet the first in the
  ceilings and in what moderators decide, which is arbitrary here.  The clock has two
  instants, and the close time an edit form carries is the second: it passes while the
  survey is a draft, while it is open, or before it is published, when it is taken off.
  The clock also moves in survey_moderation, where nothing closes.  The state an
  administrator sets is draft, which is the one that makes a published survey look
  unpublished; a closed survey takes no answers, as one past its close time does.
- TallyCache: two readers, one writer and two surveys with one write each: a stale entry
  needs a write that one reader's computation overlaps and a later reader, and a map is
  taken back by a call for the other survey.  The proof covers any number of writers.
- Accounts: two names, so that one can be used again while the other administers; one
  invitation, because invitations do not meet; two resets, because they replace each
  other; `MaxFresh` = 4 salts.  Sessions: two browsers, three salts (create, change or
  sign out, re-create).
- Bootstrap: two servers, two crashes, three salts for the command line and one for
  each server, which inserts once at most: a server that counts an account comes up.
- Backfill: two processes, two surveys, and two options and one response in the first of
  them: the order of surveys and the marker between two of them are in question, not what
  else a survey holds.  Every status, choice and missing row of the older database is
  tried.  The proof covers any number of everything.
- Portable: two options, one respondent, two restores at a time, so that one may lay its
  file over what the other wrote, and one file (`SaveAgain = FALSE`).  The foreign documents
  are one without exposure and with a suggestion in moderation, and ones in which a merge,
  a selection or an exposure names an option that is not in the document.  None has a circle
  of merges, so `CirclesAreForeign` says of the run that there is no circle at all, also
  when two restores write over each other and options are merged in between; the proof
  also covers foreign files with circles.  Nobody makes a suggestion in this run
  (`MaxPendingPerSurvey = 0`); backup_torn is the run with suggestions.
- RateLimit: a map of two buckets and three clients; two tokens to a bucket, full again
  in two ticks, swept after three.  `Burst <= Ttl` is what the constants of
  ratelimit.go make true (fifteen minutes against one).

Symmetry is used over identifiers, only in runs that check no liveness.  Deadlock is not
checked where a bound ends every behaviour: a deleted survey (`Survey`, `Ballots`) takes
no step once the clock is at `MaxNow`, writes end at `MaxWrites`, and salts at `MaxFresh` or
`MaxCommands`.  It is not checked in Portable either, which is Survey with a file, nor in
Backfill, where a process may be killed in any state, so that no state is stuck.  Accounts
and RateLimit always have a step and are checked.

## 5. Fairness

- `TallyCache!FairSpec`: a goroutine that has begun a call or a write goes on (weak
  fairness of `Proceed` and `Bump`: nothing in them waits for anything but a mutex held
  for a map access), and every survey's ballots keep being loaded (strong
  fairness of `Call`, which is disabled while all readers are busy).
- `Bootstrap!FairBootSpec`: a server that has ended is started again and one that
  starts goes on (weak fairness of `StartStep`); the StatefulSet in
  `src/deploy` restarts it.  Nothing is assumed of the command line, and crashes are bounded.
- `RateLimit`: time passes, the newcomer keeps trying, sign-ins end.  The other clients
  stop after `MaxCalls`; that is the point of `NewcomerGetsThrough`, which says that a
  map filled by clients that have gone does not stay full.
- `Backfill!FairSpec`: a process that is down is started again (weak fairness of `Open`),
  and may be killed without end, but not for ever before one and the same step (strong
  fairness of the others): a transaction the size of one survey that is attempted again and
  again commits.  That is what per-survey commits are for; one transaction for the
  whole database could not be assumed to.

## 6. What is proved

The eight proof modules hold for every value of the constants that the named
assumptions allow.

**SurveyProofs** assumes that the identifiers are finite, that limits are naturals and
that the placeholders are no identifiers.  The inductive invariant `Inv` joins
`TypeOK`, `ChoicesWereShown`, `PendingIsPrivate`, `MergesEnd`,
`NeverOpenedHoldsOnlyPreviews` and the finiteness of `answered`.  None of the first
three is enough alone: that a length comparison decides whether `seen` is written is
right only because `seen` is within the options listed, and a pending option is private
only because votes are for options shown.  The key lemma `SaveResponseEffect` turns
`saveResponseTx` into what a reader expects of it (the ballot's votes replaced, the
seen set grown by the ballot) with exactly those facts.  `MergesEnd` is stated over
sets of merged options, so that its preservation is set reasoning: a set that a new
merge could close contains the new pointer's source but not its target, because a
target is not itself merged.
From `Inv`: `TypeCorrect`, `VotesAreForShownOptions`, `SuggestionsArePrivate`,
`MergesAreWellFounded`, `PreviewsOnlyBeforeOpening`, `TallyBounds` (a vote that resolves
to an option sits in a row of the same voter's seen set that resolves to it too, so the
counted sets are nested), `RealAnswersAreSafe` and `ImplementsTheLedger` (initial states
map to initial states; each step is a cast, a wipe, a curation or a stutter).
`CeilingsAreKept` has step lemmas of its own, which count.

What `Resolve` computes is proved too.  `WalkUnfolds` gives the recursive function its
defining equation, for any statuses and pointers.  `ResolveEnds` says what the walk comes
to, cyclic pointers included: the options from which one can always go on form circles
or lead into them, and the bound ends the loop there with a vote that does not count; from
every other option the loop reaches one that is not merged before the bound.  The argument
counts the options from which so many passes still end at a merged one (`Leaving`): each
further pass leaves fewer of them, or leaves a set that leads only into itself, and there
are no more merged options than passes.  The induction it needs is over a set of numbers
(`CountingUp`), not over a formula, so that no operator has to be given for it.  With
`MergesEnd` no option leads round, which is `EveryVoteReachesAnEnd`.  `MergesMoveVotes`
(every respondent behind a merged option is behind the target afterwards, and nobody else
moves) is the same for two states: an option's end is the old one, or the target's if the
old one is the option merged.

**BallotsProofs** assumes that both previews and answers of the public are allowed for
(`BothKinds`).  `WebImplementsSurvey` shows that the web is a run of Survey: whatever the
age of a page, what reaches the store is one of its operations, the edit form's stale
boxes included, because those of options that are no longer listed do nothing.  Every
theorem of SurveyProofs so holds under the web (`SurveyUnderTheWeb` says it of the ones
about votes and answers).  `SubmissionsAreHonoured`,
`DraftsArePreviewed` and `WriteInsKeepTheRest` then follow from Survey's invariant and
from which handler a response can have changed by.

**TallyCacheProofs** proves `CacheTypes` for any number of processes and `TallyIsFresh`
for any numbers of readers, writers and surveys in one: with two the property fails, as
section 3 says.  `CallInv` says what a call knows at each point: what it has read reflects
the writes it must, and, as long as its counter is still current, every settled write,
which is what makes its result good to keep.  `EntryInv` says the same of a cache entry
while its map's counter is current.

**AccountsProofs** proves `RowsHaveTheirTypes`, `InvitesSpentOnce`,
`LinksDieWithThePassword` and `AlwaysAdministered`.  The invariant adds `Drawn` (no row
refers to a salt that has not been drawn, so a new account is never confused with an old
one), `InviteInv` (a link that made an account is claimed and not revoked) and `ResetInv`
(an unspent link is alone for its name and knows its account's hash).

**SessionsProofs** proves `EndedSessionsNeverReturn`.  That an ended cookie does not match
now is no reason that it never will, since accounts are deleted and made again under the
same name.  The invariant adds that rows and cookies hold drawn salts and instants
only, and a step lemma shows that a key that changes gets a newly drawn part, which is
in no cookie.  `WebImplementsAccounts` shows that cookies and handlers change accounts by
the store's operations alone, so that the theorems about Accounts hold under them
(`AccountsUnderTheWeb`).
Of Bootstrap it proves `BootTypes`, `NoFileIsSetUp` and `FileOpensTheDoor` for any number
of servers, crashes and commands.  Neither property is inductive: both depend on what a
server between its insert and its write still has to put down.  The invariant `BootInv`
says that, until a password is set, a row that must change its password has a file or a
server that is about to write one, unless one crashed between the two (`OnFile`), and that, until
the first administrator is deleted too, what is on file and what any server is about to
write both open that account (`Opens`): recording a password late does no harm.
`BootImplementsAccounts` and `BootStaysAdministered` carry the theorems about Accounts over.

**RateLimitProofs** proves `SweepingForgivesNothing` on both paths (`VoterSweepIsFree`,
`LoginSweepIsFree`), assuming finitely many clients and `Burst <= Ttl`, and `VoterTypes`.
The property is not inductive: it says nothing of a bucket that is not old yet.  The
invariant says that a bucket is full or holds at least as many tokens as ticks of age,
which a charge, a check and a tick preserve each for its own reason.  The login
limiter's steps are in no run; `LoginSweepIsFree` is what is shown of them.

**BackfillProofs** proves `Typing`, `MarkerIsTrue` and `NothingIsInvented` for any number
of processes, surveys, options and responses and any interruptions.  The marker may go
backwards, when a process that is behind commits after one that is ahead, so the
invariant says for each process that what is behind it is covered, and calls a
survey closed when nothing any process still holds can reach it.

**PortableProofs** begins with Export.  `ExportsAgree` and `NoVoteWithoutAColumn` follow
from the types and `ChoicesWereShown` once it is known what `Resolve` comes to: a vote
counts in the one file just if it does in the other, cyclic merges or none (`FilesAgree`);
with `MergesEnd`, the option it ends at is one the export has a column for
(`EveryVoteHasAColumn`).
Of Portable it proves `PortableTypes`, `RestoredVotesWereShown`, `RestoredTallyBounds` and
`RestoredFilesAgree` for any number of restores at once and any foreign documents: of
Survey's invariant, that part survives whatever is restored.  `CirclesComeFromFiles` is what
is left of `MergesEnd`.  Its invariant says of the survey, of the file and of every
document about to be written that each circle in them contains a foreign one (`Traced`):
a restorable document's pointers do not lead out of it, so that a circle of the rows after
a restore that passes through one of its options has a circle of the document in it.  So
`BoundIsForFilesFromElsewhere`: the bound on `Resolve`'s loop is for such files only.
`BackupsBringBack` holds for any number of restores at once too.  Its invariant says that the
file is the survey as far as it has been read while nothing has been written, and that a
restore that finds the survey gone finds none of its rows either, so that what it writes is
the file and nothing else.  That is why it asks for the survey to be gone at the write, not
at the look before it; restores_overlap is what happens when it is not.

## 7. What is only model-checked

- Liveness: `CacheSettles`, `EveryServerComesUp`, `NewcomerGetsThrough`,
  `BackfillCompletes`.  Fairness and ENABLED are out of the prover's reach.

Every other property of a passing run is stated by a theorem; the bounds of section 4 are
TLC's alone.  The other way round, the types of Ballots and Sessions and the agreement of
the exports after a restore are proved (`WebTypes` in both, `RestoredFilesAgree`) and in no
run.

## 8. What is not modelled, and why

- Backup, checkpoint, the instance secret, MACs, password hashing: SQLite, the
  operating system and functions taken as injective.
- Templates, static files, routes, headers, flash messages, flag parsing, the health
  check, deployment: they keep no state the models' properties read.
- Option wording and order, `MaxOptionText`, `MaxComment`, titles, timestamps: no
  operation branches on them beyond refusing.  Two options of the same wording are two
  options.
- Restoring under a new identifier (no `keepID`), which makes a survey nothing else refers
  to.  The checks of a document's header, enumerations and texts, which refuse it whatever
  the survey is.
- Reads that fail: every SELECT of the models succeeds.
- The schema statements, which are idempotent, and `ensureColumn`, which adds a column
  once.
- Quoting, headings, percentages and file names of the export.
- `Store.ClearResponses` outside `Publish`: only tests call it.
- In Sessions the twelve-hour expiry of a cookie, which ends sessions too, and the
  voter cookie.  In Bootstrap the reset links, whose effect on the file is a password
  change's.
- A power loss that takes back the last commit (`synchronous=NORMAL`).
- A tally that overlaps a write may mix two moments.  `TallyReflectsReturnedWrites`
  allows it, as the code does.

## 9. What could come next

A composition of Ballots with TallyCache's reads (what a respondent sees after voting),
and a machine that loses its last commits beside Bootstrap.
