# A verification of tourni

tourni (`src/app/tourni`, Swift) is an iOS app for knockout tournaments. A host
enters groups; the app pads them to a power of two, draws a bracket and stores
the tournament as one Firestore document under a four-character game code.
Others join with the code and watch the bracket; the host presses the winner of
each matchup and ends one round after the other. There is no server code: the
database and the Firestore client (vendored under `src/app/Pods`) are all there
is between the phones.

## Inventory

| part | state it keeps | operations | where |
|---|---|---|---|
| bracket arithmetic | none | `generate_rounds`, `generate_matches`, padding in `generate` | `Classes/bracket_backend.swift`, `Classes/Tournament.swift:127-131` |
| values | `Group` (name, seed, status), `Tournament` (groups, winners, losers, roundList, texts, code) | `makeWinner`, `makeLoser`, `setStatus`, `generate`, `store`, `getTournament` | `Classes/Group.swift`, `Classes/Tournament.swift` |
| bracket screen | the tournament of the last snapshot, the current round, one table per round with its list of groups, the count of winners, the alert | the listener's callback and `make_roundsHost`, `updateWinner`, `incrementWinnerSelectedCount`, `nextRound`, `returnToCurrentRound` | `View Controllers/BracketController.swift` |
| matchup cells | two groups, the round, `winnerSelected` | `setMatchup`, the two buttons; reuse by `UITableView` | `Classes/MatchUpHost.swift` |
| Firestore client | local document, queue of writes, listeners, cache | local write and its snapshot, acknowledgement, remote update, first snapshot of a listener | `Pods/FirebaseFirestore` (vendored) |
| lists of tournaments | rows, the selected row, the host flag; game codes in `UserDefaults` | appear, disappear, select, delete, the lists' listeners | `View Controllers/ActiveGamesController.swift`, `Classes/Tournament.swift:159-279` |
| joining | a text field, lookups that wait for an answer, an alert; the list of joined codes in `UserDefaults` | look a code up, keep it, answer the alert | `View Controllers/JoinController.swift`, `Tournament.exists`, `join` |
| hosting | two pages, the groups entered so far; the list of hosted codes in `UserDefaults` | title and description, add a group, go back, done (`generate`), delete | `View Controllers/HostController.swift`, `AddGroupsController.swift`, `Tournament.generate`, `deleteHosted`, `deleteJoined`, `dbDelete` |

How they interact. Every callback of the app runs on the main thread, so a
handler is atomic; what interleaves is the *order* of touches, alert answers,
snapshots posted to the main queue and messages of the network. The bracket
screen never shows the host a new round directly: `nextRound` stores the
tournament, the client posts the local document to the screen's own listener,
and the callback makes the new table. Cells call the screen through the
`cellInfo` delegate. A viewer runs the same screen with `host` false, on the
documents its client hears of. Joining and hosting meet the rest through two
stores that know nothing of each other: the lists of codes in `UserDefaults`,
which the table of games reads whenever it appears, and the client's queue of
writes, which the database takes later. Neither store's outcome is ever looked
at: completions only print.

What is hard here. Cells are reused, so their flags and their copies of groups
go stale. A choice between two groups edits four lists and may be taken back.
The round is *computed* from the number of winners. The window between a store
and its snapshot is open to presses. Picks are lost when the screen closes. A
viewer can miss documents. Listeners of old screens are never removed. The
answer about a game code meets whatever text and tab the screen has by then.
Two stores are changed one after the other, and a kill separates them. A write
may be refused, a document deleted while somebody looks at it, and nobody is
told. `PROJECT.json` lists these hazards at their lines, with the properties
that watch them.

What makes each part correct:

- arithmetic: the rounds fit together and FREE groups meet only entrants;
- values: winners and losers always divide the field;
- screen and cells: ribbons and lists tell the same story, a round can only be
  ended when it is decided, no index is out of range, ending a round leads to
  the next one;
- the document: its history is the history of a knockout;
- lists of tournaments: what is touched is what is shown, and only of the phone's
  codes; a bracket is opened for its host only where it was created;
- viewers: what is shown does not depend on which documents were missed, goes
  forward only, and catches up; each bracket, on screen or left, follows the
  client's document; a deleted tournament stays deleted;
- joining: the code that joins is the code that was found; nothing of somebody
  else's tournament is written;
- hosting: every stored tournament is a field a bracket can be drawn from; only
  its host writes a tournament, and no other has its code; the
  list of hosted codes and the documents agree; what is listed gets published;
- refused writes: the host does not go on with rounds that were taken back.

## Modules

| module | models | notes |
|---|---|---|
| `BracketBackend` | `class bracket_backend`, the padding of `generate` | closed forms, no recursion, so that proofs can use them |
| `BracketArithmetic` | the same, loop by loop | one state per number of entrants; ties the closed forms to the loops |
| `Tournament` | `struct Group`, `struct Tournament`, the document | groups are equal when their names are, as in `==` |
| `BracketScreen` | one `BracketController`: `viewDidLoad`'s closure, `make_roundsHost`, `updateWinner` | pure operators on a screen record; `Traps` says when the callback indexes out of range |
| `HostBracket` | the host's phone: screen, cells, alert, client, database | actions below |
| `Knockout` | abstract specification of the stored history | refined by `HostBracket` |
| `RefusedWrites` | `HostBracket` with a database that refuses writes | one more action, `Refuse` |
| `Spectators` | `HostBracket` and the phones of viewers, deletion of the tournament | composes the host's steps with the viewers' |
| `GameLists` | one phone's table of games: the game codes in `UserDefaults`, `gethostedTournaments` and `getjoinedTournaments`, `ActiveGamesController` | stands by itself: a tournament is its code |
| `Phones` | several phones' lists of codes, tabs, clients and the database, with restarts | the state that joining and hosting share |
| `Joining` | `JoinController`, `Tournament.exists` and `join` | extends `Phones` |
| `Hosting` | `HostController`, `AddGroupsController`, `generate`, the brackets opened from the table of games and the rounds they store, `deleteHosted`, `deleteJoined`, `dbDelete` | extends `Phones` |
| `GameCodes` | phones that join and phones that host | composes `Joining` and `Hosting` |
| `MCHostBracket`, `MCRefusedWrites`, `MCSpectators` | small tournaments for TLC | |
| `BracketBackendProofs` | powers of two, rounds, padding | lemmas; every proof below that needs arithmetic extends it |
| `BracketArithmeticProofs`, `HostBracketProofs`, `KnockoutProofs`, `RefusedWritesProofs`, `SpectatorsProofs`, `GameCodesProofs`, `GameListsProofs` | theorems | checked by TLAPS |

### HostBracket's state and actions

| action | code |
|---|---|
| `Open` | `prepare`/`viewDidLoad` register a listener; its first snapshot is the client's document |
| `Snapshot` | the closure of `viewDidLoad` with `make_roundsHost`, and the `reloadData` at its end (`Reload`): cells of the current table are refilled (`ReusedCells`), made (`NewCells`), or those an earlier round's table still has (`EarlierCells`); or the trap in it |
| `Scroll` | one row leaves the visible table and another enters, `cellForRowAt` with `setMatchup` |
| `Press` | `group1ButtonAction` or `group2ButtonAction`, with `incrementWinnerSelectedCount` and `updateWinner` (`Select`) |
| `NextRound` | the alert's Yes: `nextRound`, `store`, the local snapshot |
| `ReturnToCurrentRound` | the alert's No |
| `Commit` | the network takes the oldest write |
| `Close` | the screen is left, the app is killed, or it has crashed |

`server` and `unsent` are the document and the client's queue, `snapshots` the
documents posted to the main queue for the listener, `screen` the controller's
fields, `shown` the visible cells of the current round's table (row to cell) and
`pool` the cells waiting for reuse, counted by flag, since `setMatchup`
overwrites everything else. Which pooled cell `UITableView` hands out is not
documented, so it is a choice. So are the position and the flags of a table of
an earlier round, which the host gets back to when a refused write takes a round
away.

`RefusedWrites` adds `Refuse`: the client takes its oldest write back
(`rejectFailedWriteWithBatchID`), and posts the document without it if that
changes what the listener saw. `store`'s completion prints the error.

### Spectators' state and actions

The host's steps are those of `HostBracket`, except that `HostOpen` of a deleted
tournament, whose row the table of games may still show, gets no document.

| action | code |
|---|---|
| `OpenView` | `viewDidLoad` on a viewer's phone: a new controller, whose listener is posted a callback with the cached document |
| `CloseView` | the bracket is left; its listener and its controller stay |
| `RestartView` | the app is killed, or has crashed, and is started again |
| `Hear` | the client receives the database's latest document and posts one callback for the listener of every controller, oldest first |
| `Callback` | the main queue runs the oldest callback on its controller: the closure of `viewDidLoad`, or the trap in it, which ends the app |
| `HearDeletion` | the document is gone: the callbacks get no further than `document.data()` and are not kept |
| `DeleteTournament`, `CommitDeletion` | `deleteHosted` with `dbDelete`, and the network taking it after the writes before it |

`views` holds every controller of a viewer since its app was started, oldest
first; `cache` the last document its client received; `posted` the callbacks on
its main queue. Any of the viewer's steps may come between two callbacks of one
document, so brackets do differ for a while.

### GameLists' state and actions

| action | code |
|---|---|
| `Host`, `Join` | `generate` and `join`, as far as the codes and the database go |
| `Appear` | `viewDidAppear`: a new listener for every copy of a code, which share one list for each of the two kinds |
| `FirstSnapshot`, `Change` | the client calls listeners: a new one, or all of a code that is stored again, oldest first. A tournament of somebody else is stored again at any time, one of this phone from the bracket that is open for its host |
| `Callback` | the completion of `getTournament`: the listener's list becomes the controller's, `reloadData` |
| `Vanish` | the host of a joined tournament deletes it: no callback gets past `document.data()` |
| `Select` | `didSelectRowAt` and `prepare`, or the trap |
| `Delete` | `commit editingStyle` with `deleteHosted` or `deleteJoined`, or the trap |
| `Disappear` | `viewDidDisappear`, when a bracket or another tab covers the table |
| `Restart` | the app is started again |

`collectors` are the lists captured by the completions, two for each visit, and
`listeners` the listeners, each with its code and its collector; `rows` are the
controller's two lists and `displayed` what the table view last loaded of them. A
code that was joined twice is on its list twice and has two listeners for each
visit, which collect one row. A deleted code is not used again (`GameCodes` draws
codes again).

### GameCodes' state and actions

| action | code |
|---|---|
| `Type` | the user edits the text field |
| `JoinButton` | `joinTournamentButton`: `exists` is asked, unless the field is empty |
| `Answer` | the completion of `exists`: `gameFound`, which joins the text *of the field*, or `gameNotFound`; the alert is presented if nothing covers the tab |
| `Yes`, `TryAgain` | the alert is answered: `backToActiveGames`, `cleanTextfield` |
| `Create`, `Back` | `createButtonPressed`, and leaving the page of groups |
| `AddGroup` | `addGroup` |
| `Done` | `doneButtonPressed` with `generate`: any code may be drawn, a taken one too |
| `OpenBracket`, `LeaveBracket` | a row is selected (`didSelectRowAt`, `prepare`), with `host` for a hosted one; back to the table, which appears again |
| `ShowBracket` | a snapshot with data reaches the bracket |
| `StoreRound` | `nextRound` stores the tournament of the bracket again |
| `DeleteHosted`, `DeleteJoined` | a row is swiped away |
| `SelectTab` | the tab bar, which a bracket hides; showing the games crashes the app when the list holds the empty code |
| `Settle`, `Persist`, `Commit` | `UserDefaults` saves; the client's worker saves a write; the database takes one |
| `Restart` | the app is killed, or has crashed, and is started with what was saved |

`lists` are the codes as the app reads them and `settled` as the next start will;
`handed` are the writes the client was called with and `unsent` those it has
saved, so that a restart loses the first and keeps the second. `bracket` is the
bracket a phone shows over its table of games: its code, whether it is open for
the host, and the tournament it has, a deleted one too. `drawn` and
`interrupted` are history: who drew which code, and which codes lost a change to
a kill.

### Abstractions

- A group is its name and status: the seed, the title and the description never
  decide anything. `store` writes every list and `getTournament` reads every list
  back, so the document is the tournament.
- Only the table of the current round matters to state: cells of the other tables
  return from their buttons at once (`round != getCurrentRound()`).
- Panning, paging and zooming are left out. `VisibleRows` stands for how many
  130-point rows fit the table, whose height is the screen's less 100: about
  six on a phone of the time, so that reuse begins with a field of sixteen. The models
  make it small instead of the field big.
- The alert is modal: while it is up there are no presses and no scrolling, but
  snapshots still arrive.
- One host phone runs one bracket of one tournament. The host's own left brackets
  are not kept: its client posts every document to all of them, so that each is
  what a fresh one would be, and they trap when it would. Left brackets that can
  differ are those of viewers, and `Spectators` keeps them.
- The acknowledgement of a write brings back the document the listener has
  already seen, so it posts nothing. Errors that end a listener and the eviction
  of the client's cache are left out.
- A viewer's database connection gives only the latest document.
- The first store of a tournament is accepted in `RefusedWrites`; what is refused
  are rounds.
- A code is a model value. A typed code with a slash in it names another
  collection or no document, and the client throws in `exists`, before anything
  is kept; such codes are not among the texts.
- In `GameLists` the lists of codes are the sequences they are. In `GameCodes`
  their order and their copies decide nothing (deletion filters out every copy, no
  tournament is written per copy), so they are sets.
- A bracket of `GameCodes` is what it can do to documents: which rounds it stores,
  and when, is `HostBracket`'s, so `StoreRound` may come whenever the bracket has a
  tournament, and the groups, which no round changes, stand for it. A bracket that
  traps is a restart. Rows are those of codes on the list of which the client
  shows a document, stored or deleted; touching an emptied list, or a row of an
  old visit's list, is `GameLists`'.
- Everything a lookup can be told is a choice (`Answers`): the document, a local
  write of it, a cached copy, or that the client is out of touch.

### Fairness

`Dequeue` is weakly fair: the main queue runs what is posted for an open screen
(`Snapshot`). `Commit` is weakly fair: the client keeps its writes and retries.
In `Spectators`, receiving a document is weakly fair while a bracket is open: the
client of an active listener reconnects; and so is running what is posted on a
viewer's main queue. In `GameLists`, `Callback` and `First`
(a first snapshot that can be raised is raised) are. In `GameCodes`, `Persist`
and `Commit` are, for each phone: the worker of a running app's client runs, and
retries. Nothing is assumed of people: no press, answer, opening, leaving or
restart is fair, and neither is any refusal.

## Runs

| run | question | result |
|---|---|---|
| `bracket_arithmetic` | do the closed forms equal the loops, do the rounds fit, do FREE groups sit out? 2 to 105 entrants | holds |
| `host_five_without_no` | 5 entrants, 3 FREE, 3 rounds, all rows visible, without No: traps, ribbons against winners and losers, rounds ended only when decided, the stored history, refinement of `Knockout`, does Yes lead to the next round (liveness)? | holds |
| `host_scrolling` | any answers, one visible row, reused cells: types, traps, is the field kept? | holds |
| `refused_writes` | a round's write is refused: is the field kept, does the screen go back, does the host end up with the database's rounds (liveness)? | holds |
| `spectators_three` | a host who never answers No, a viewer with a bracket left open behind: one callback at a time: no trace of the way, do all brackets follow the cache, forward only, deleted for good, catches up (liveness) | holds |
| `lists_two_visits` | two visits to the lists: are touched rows the ones shown, opened as host only if hosted here? does everything get listed (liveness)? | holds |
| `codes_two_phones` | one phone hosts, one joins, both restart at will: are fields fields, who writes (rounds stored from brackets included), do lists and documents agree, is what is listed published (liveness)? | holds |
| `cell_counted_twice` | reused cells: does only a new winner count? | violated |
| `viewer_misses_a_round` | does a viewer's bracket have a table for each round? | violated |
| `deleted_row_returns` | are rows only those of codes on the phone? | violated |
| `joined_unseen` | is the code that joins the one that was found? | violated |
| `unique_game_code` | is a document one tournament's until it is deleted? | violated |

The five violations are disagreements between the code and its own comments;
`PROJECT.json` quotes them under `findings`.

- **A matchup counted twice.** A reused cell with a cleared flag shows a decided
  matchup as uncounted. (A finished tournament that is opened again does so too.)
- **A viewer that misses a round.** The run has five entrants: a viewer who sees
  the first of three rounds and hears next of the third is at round 3 with two
  tables, and `bracketViewArr[i]` traps. A fresh screen makes all its tables at
  once, but a bracket that was left traps as well, whatever the app shows by then.
- **A deleted row that returns.** The listeners of a visit keep their own list. A
  joined tournament is swiped away, its host stores the next round, and the
  listener puts the row back. After a new
  visit it does more: if the phone meanwhile joined another tournament, the old
  list replaces the new one. `EverythingListed` therefore asks that nothing
  that was listed is deleted.
- **A code joined unseen.** `gameFound` joins the text the field has when the
  answer comes. Two taps on Join suffice: the first answer's Yes empties the
  field, the second answer joins the empty text. The table of games then asks for
  a document without a name, the client throws, and so it does after every start.
  The alert asks "Do you want to join?" after the code has joined.
- **A game code that is not unique.** `generate` draws four characters and looks
  nothing up: a code that comes up again, on the same phone or on another, is the
  same document, and the second tournament replaces the first. `HostedIffStored`
  therefore speaks of codes drawn once, `OnlyItsHostWrites` of everybody who drew
  the code.

What else fails, and is left out of the passing runs by their specifications or
bounds. Some of it is the same as a violation above (a cell that counts twice
ends rounds early); the rest has no comment that says otherwise:

- With No, or with reused cells, `AlertMeansRoundDecided` fails: No clears the
  flags of the cells, and a press in the moment between Yes and the snapshot of
  the next round counts towards the next round. Hence `SpecWithoutNo`, a host
  who never answers No, and a screen that shows every row.
- From nine entrants on (four rounds), No also breaks `RibbonsAgree`: with presses
  counted for the next round, a round of eight groups can be ended when three of
  its four matchups are decided. With 5 winners the third round is played on a list that is no power
  of two, and its middle group has no row. (A random walk of TLC over nine
  entrants finds it.) Two snapshots of one round add two tables for it, which a
  bracket opened afresh would not have. So `RibbonsAgree` and the viewers'
  properties are checked, and proved, for a host who never answers No, although
  the small fields of the runs satisfy them with No too. `NeverTraps` is checked
  with No for three entrants and reused cells (`host_scrolling`); it was also
  checked for five with all rows visible, and random walks over nine found no trap.
- With reused cells `RibbonsAgree` fails: a cell filled after a choice holds
  groups whose status is already true, and a flip appends that copy to the
  winners of the next round. `EveryoneAccountedFor` needs neither condition.
- `TouchedRowIsMeant` leaves one case open: the lists are emptied on leaving and
  the table view is not told, so that a row touched on return, before the first
  callback, is past the end of its list and the app traps (`Crash`).
- A finished tournament can be reopened and its final played again, which appends
  one more list to `roundList`; `Knockout` has a step for it, so the refinement
  says that nothing worse comes of it.
- When writes are refused, `NeverTraps`, `AlertMeansRoundDecided` and
  `PublicKnockout` fail: the screen goes back to fewer lists under a count and an
  alert of the later round. What holds is what `refused_writes` checks.

### Bounds

`MaxLists` bounds the history (rounds + 1 lists, and one more so that the final
is decided twice), `MaxUnsent` the writes that wait for the network (two is the
first number at which order matters). Five entrants are the smallest field with
three rounds, and so with a middle round and three FREE groups; three
entrants the smallest with a FREE seat, and with two rows for scrolling on a
one-row screen; there `MaxLists` lets the final be decided twice and one write
wait, so that cells of two rounds and of a finished tournament are reused. One viewer is enough: viewers do not influence each other. `MaxViews` counts its
brackets since a start: two are the least with one left behind. One refused write
(`MaxRefused`) of two that wait is the least where a later write hides the
refusal. The lists have one code of the phone's own and one of somebody else,
which is enough for both kinds; two joined entries (`MaxJoined`) are the least
with a code joined twice; two visits (`MaxVisits`) are the least with an
old listener, and a document changes when fewer than `MaxPosted` callbacks wait,
which keeps the queue finite while first snapshots still interleave. A viewer's
`MaxPosted` is such a bound too: a document is received when fewer callbacks wait,
and posts one for each bracket, so that callbacks of two documents interleave with
a bracket that is opened or left.

In `codes_two_phones` one code is drawn once (`MaxDraws`): with brackets, two draws
are too many states for a run, and what a second draw does is `unique_game_code`'s
question and, for every number of draws, the theorems'. Two waiting writes
(`MaxWaiting`) let a deletion follow a store or a round, and one lookup
(`MaxLookups`) is answered before or after any edit or change of tab. `Hosts` and
`Joiners` give each phone one role, which keeps the instance small; the theorems
hold for phones with both. Two names make the smallest field, which is never padded; that a longer one
is padded well is what `bracket_arithmetic` checks and `StoredFields` proves for
every set of names. `joined_unseen` has two codes and two lookups, as its
counterexample needs them.

For the arithmetic, 105 entrants pass every power of two up to 64 and pad to 128.

## Proofs

Every theorem is for all values of the constants that satisfy the named
assumptions of the modules, and the hypotheses given here.

**Arithmetic** (`BracketBackendProofs`, `BracketArithmeticProofs`), for a field of
any size of two or more:

- `LoopsComputeTheClosedForms` (`LoopsAgree`): the loops, as recursive functions,
  compute the closed forms that all the other modules use;
- `EveryBracketFits` (`RoundsFit`) and `FreeGroupsAlwaysSitOut`
  (`FreeGroupsSitOut`).

The provers cannot apply the library's induction theorems (they take an operator
as a parameter), so each claim about all numbers is proved by its *least
counterexample*: the set of exceptions, if it is not empty, has a least element
(`LeastOf`, from the well-foundedness of the numbers), and the loop's equation at
that number leads to a smaller one. That a recursive function satisfies its equation at
all must be shown too (the `...Unfolds` lemmas): the closed form satisfies it, so
the function TLA+ chooses does.

**The host's phone** (`HostBracketProofs`), for every list of two or more different
entrants, every screen, every bound and every answer:

- `TypeCorrect`: `Spec => []TypeOK`;
- `FieldIsKept`: `Spec => []EveryoneAccountedFor`.

`EntrantsAssumption` admits an entrant whom the host called FREE, equal to the
padding: the screen may then trap, but the field is kept all the same.

Both follow from the inductive invariant `IInv`. `EveryoneAccountedFor` alone is
not inductive: a press hands the two groups its *cell* was filled with to
`makeLoser` and `makeWinner`, so cells must hold groups of the field. Cells are
filled from tables (`CellsInv`), tables from the lists of documents (`ScreenInv`,
with the bound on rows that a callback that did not trap guarantees), and
documents come from the screen (`NetworkInv`). That the count never goes below
zero needs `AlertInv`: the alert is only up after a choice. There is one lemma per
action; `ChoiceKeepsField` and `SnapshotKeepsScreen` carry the weight.

The module begins with what the list operators of `Tournament` do: `Without` (the
filter) keeps exactly the other groups, each from its own position
(`WithoutFacts`, by way of the rank of a position among those kept), `With`,
`SetStatus` and `Generate`.

**The knockout** (`KnockoutProofs`), for `SpecWithoutNo` under the hypothesis
`FieldFits`: no entrant is called FREE, and all rows of the first round fit on the
screen.

- `OrderlyHostNeverTraps` (`NeverTraps`)
- `AlertOnlyWhenDecided` (`AlertMeansRoundDecided`)
- `RibbonsTellWhoIsIn` (`RibbonsAgree`)
- `StoredHistoryIsPlayedOff` (`StoredRoundsPlayedOff`)
- `DatabaseIsAKnockout`: `SpecWithoutNo => PublicKnockout`, the refinement of
  `Knockout`: `Init` gives its first state, and each step is a step of it or a
  stutter.

Each condition is needed. With an entrant called FREE the filter of the first
round removes the padding with it and the screen traps. With more rows than fit,
or with No, cells count twice (`cell_counted_twice`), and rounds are ended
undecided. On a phone of the time about six rows fit, so `FieldFits` covers fields
of up to eight; on a taller screen, bigger ones.

The inductive invariant is `OInv`, on top of `IInv`. What is stored (`StoredInv`):
the lists of a document halve in length up to the final's, and those after it
hold the champion; each was played off to give the next; nobody sits twice; FREE
sits only in second places of the first list; the last list is the winners. The
client's queue (`ClientInv`): every write is its predecessor with one list more. What is on the
screen (`ShownInv`): the screen's round is the stored one but for the ribbons of
the current list (`PlayingInv`), where the count is the number of raised flags
and a raised flag means a decided row; or the round has been ended and its
snapshot is the only thing on the main queue (`EndedInv`). The heart of it is that
window between Yes and the snapshot: every flag is up then and the count is zero,
so presses count nothing (they may still flip winners on the screen, which the
snapshot undoes), and no second alert can come. `SelectOrderly`,
`EndedRoundStored` and `SnapshotOrderly` carry the weight; a final that is opened
and played again is part of all three. TLC checked `OInv` with two, three and
five entrants before it was proved.

**Refused writes** (`RefusedWritesProofs`), for every field, every screen and every
number of refusals:

- `RefusalKeepsField`: `SpecRefusing => []EveryoneAccountedFor`, from the same
  `IInv`: a refusal only shows documents that were there;
- `ScreenFollows`: `SpecRefusing => []ScreenIsOfTheDocument`. The invariant says
  that the last snapshot on the main queue, or the screen if there is none, has
  the rounds of the client's document.

**Viewers** (`SpectatorsProofs`), for any number of viewers and of brackets left open:

- `ViewersTypeCorrect` (`STypeOK`) and `DeletedStaysDeleted` (`DeletedForGood`) for
  `SSpec`, any field, any screen and any answers. A deleted tournament is not
  stored again because a closed bracket shows nothing, and one opened on a
  deleted tournament is told nothing (`EmptyInv`), so that its alert never comes up;
- `ViewersForgetTheWay` (`NoTraceOfTheWay`), `ViewersFollowTheCache`
  (`BracketsFollowTheCache`) and `ViewersSeeRoundsInOrder` (`RoundsShownInOrder`) for
  `SSpecWithoutNo` under `FieldFits`.

Their inductive invariant `SOInv` adds to `OInv` that a client's cache is the
database's document or one with fewer lists (`KnownInv`); that every bracket that
shows anything shows a stored document as a new bracket would, and that the
callbacks posted for it bring, each, more lists than the one before
(`BracketsInv`); and that the newest thing each bracket has, shown or posted, is
the cached document (`FollowInv`; after a deletion, when the cache is empty,
nothing is asked of it). The brackets of one phone do differ between two
callbacks: what they agree on is where they are going. The lemma
that carries it is `NothingSkipped`: when a snapshot does not trap a bracket that
is behind, the bracket was one list behind, or showed all the rounds already, and
in both cases making one table and refreshing the others gives what making all of
them gives. A bracket that was further behind traps, which is the run
`viewer_misses_a_round`.

**Codes** (`GameCodesProofs`), for any number of phones in any role, of codes and
names, with `EmptyAssumption`, the two roles as sets of phones, and the bounds as
numbers:

- `CodesTypeCorrect` (`TypeOK`), by `TypeInv`;
- `StoredFields` (`StoredFieldsAreFields`), by `OwnInv`: the groups entered so far
  are different, and all contents, stored or waiting, are fields;
- `OnlyHostsWrite` (`OnlyItsHostWrites`). It is not inductive: a hosted row is
  deleted by a phone whose list holds the code, so `OwnInv` adds that every code
  on a list of hosted ones, as read or as saved, was drawn on that phone; and a
  round is stored by any bracket that is open for the host, so it adds that the
  code of such a bracket is on that list for as long as the bracket is open
  (`OwnBracket`; no hosted code leaves the list under a bracket,
  `HostedOfBracketStays`), and that what a bracket shows can be drawn;
- `ListsAndDocumentsAgree` (`HostedIffStored`), by `AgreeInv`. What the client
  shows of a code is the last write of it among those that wait, or the
  database's; each step of the queue must leave that alone (`Persist`, `Commit`),
  append to it (`Done`, `StoreRound`, `DeleteHosted`) or cut it off where the kill is recorded
  in `interrupted`. And the document of a code that was drawn once can only be
  changed by its host, which is `OwnInv` again.

The module begins with what that rests on: `Latest` after an append, after the head
has been taken by the database, and after the tail that was not saved is lost,
by way of the greatest index of a code's writes.

**Lists** (`GameListsProofs`), for any codes, any number of visits and any queue,
with `CodesAssumption` only: `ListsTypeCorrect`, `TouchedRows` and
`OwnAsHost` (`TypeOK`, `TouchedRowIsMeant`, `OnlyOwnAsHost`). Their
inductive invariant `LInv` adds to the lists of the controller those of the
visits, of which a callback puts *some* visit's on screen: every listener collects
for a list that there is, a hosted one only codes of this phone; a list holds
only codes that one of its own listeners heard of; every posted callback is of a
listener that has heard; and the flag `host` is only up between a selection and
the disappearance after it.

Only model-checked: `NeverTraps` with a host who answers No (`host_scrolling`), and all
liveness, which with its fairness is out of these provers' reach:
`YesOpensNextRound`, `HostLearnsTheOutcome`, `ViewersCatchUp`, `EverythingListed` and
`HostedIsPublished`. Every other invariant and action property of the passing
runs is a theorem, some of them under the conditions above.

## Not modelled

Panning and paging; application start; the seeds, titles and descriptions; codes
with slashes; errors that end a listener and the eviction of the client's cache;
the classes that nothing uses (`MatchUp`, `MatchUpWinner`,
`ConfigureGroupController`, `ViewController`, `ActiveGames`,
`ActiveGamesNavController`); the tests, which are empty templates; the vendored
libraries beyond the client's behaviour above.

## Plan

1. `BracketBackend`, `BracketArithmetic`, `Tournament`, `BracketScreen`,
   `HostBracket`, `Knockout`, `Spectators`, and the first two theorems: done.
2. `GameLists`, the lists with the listeners of earlier visits: done.
3. `Phones`, `Joining`, `Hosting` and `GameCodes`: the codes that join, the
   tournaments that are created and deleted, over restarts: done.
4. Refused writes, deletion under an open bracket and at viewers, and the
   listeners of brackets that were left: done.
5. Theorems about `RefusedWrites`, `GameCodes` and `GameLists`: done.
6. Theorems about the arithmetic, the knockout and its refinement, the screen
   under refused writes, and the viewers: done.
7. Open: `NeverTraps` with No, for which the lists of early-ended rounds must be
   shown to stay long enough for their tables.
