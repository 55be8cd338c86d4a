----------------------------- MODULE Spectators -----------------------------
(***************************************************************************)
(* The host's phone and the phones of the people who joined the            *)
(* tournament.  Each of those runs the same BracketController, read-only   *)
(* (isHost is false), on the snapshots its own Firestore client takes from *)
(* the database.  The database only ever sends its latest document, so a   *)
(* phone that was slow or offline may never hear of the ones in between,   *)
(* and calls each listener in a callback of its own on the main queue.     *)
(* No listener is ever removed and its closure keeps the controller, so a  *)
(* bracket that was left goes on making tables, and may crash the app.     *)
(* The host may delete the tournament from its table of games.             *)
(***************************************************************************)
EXTENDS HostBracket

CONSTANTS
  Viewer,     \* the phones that joined
  Nothing,    \* a cache that holds no document
  MaxViews,   \* bound: how often a viewer opens the bracket before a restart
  MaxPosted   \* bound: callbacks on a viewer's main queue when a document comes
ASSUME NothingAssumption == Nothing \notin Document
ASSUME MaxViewsAssumption == MaxViews \in Nat /\ MaxPosted \in Nat

VARIABLES
  deletion,   \* of the tournament: "none", "unsent" or "done"
  cache,      \* the last document each viewer's client received
  watching,   \* each viewer's bracket screen: "closed", "open" or "crashed"
  views,      \* each viewer's BracketControllers, oldest first: the last is the
              \* one on screen when the bracket is open
  posted      \* callbacks on each viewer's main queue: one of its controllers,
              \* and the document its listener is called with

hostVars == vars
viewerVars == <<cache, watching, views, posted>>
allVars == <<vars, deletion, viewerVars>>

SInit ==
  /\ Init
  /\ deletion = "none"
  /\ cache = [v \in Viewer |-> Nothing]
  /\ watching = [v \in Viewer |-> "closed"]
  /\ views = [v \in Viewer |-> << >>]
  /\ posted = views
-----------------------------------------------------------------------------
\* The client calls each listener with a document in a callback of its own.
Told(screens, t) == [i \in DOMAIN screens |-> [view |-> i, document |-> t]]

\* Mutant of OpenView: a new listener waits for the next document.
OpenViewUntold(v) ==
  /\ watching[v] = "closed"
  /\ Len(views[v]) < MaxViews
  /\ watching' = [watching EXCEPT ![v] = "open"]
  /\ views' = [views EXCEPT ![v] = Append(@, NewScreen)]
  /\ UNCHANGED <<hostVars, deletion, cache, posted>>

\* The viewer opens the bracket: the new listener, and no other, is told what
\* the client has.
OpenView(v) ==
  /\ watching[v] = "closed"
  /\ Len(views[v]) < MaxViews
  /\ watching' = [watching EXCEPT ![v] = "open"]
  /\ views' = [views EXCEPT ![v] = Append(@, NewScreen)]
  /\ IF cache[v] = Nothing THEN UNCHANGED posted
     ELSE posted' = [posted EXCEPT ![v] =
            Append(@, [view |-> Len(views[v]) + 1, document |-> cache[v]])]
  /\ UNCHANGED <<hostVars, deletion, cache>>

\* The viewer leaves; the controller stays.
CloseView(v) ==
  /\ watching[v] = "open"
  /\ watching' = [watching EXCEPT ![v] = "closed"]
  /\ UNCHANGED <<hostVars, deletion, cache, views, posted>>

\* The process dies: the client keeps its cache.
Gone(v, then) ==
  /\ watching' = [watching EXCEPT ![v] = then]
  /\ views' = [views EXCEPT ![v] = << >>]
  /\ posted' = [posted EXCEPT ![v] = << >>]
  /\ UNCHANGED <<hostVars, deletion, cache>>

\* The app is killed, or has crashed, and is started again.
RestartView(v) ==
  /\ views[v] # << >> \/ watching[v] = "crashed"
  /\ Gone(v, "closed")

\* The client receives the database's latest document.
Receive(v) ==
  /\ watching[v] # "crashed" /\ deletion # "done"
  /\ cache[v] # server
  /\ Len(posted[v]) < MaxPosted
  /\ cache' = [cache EXCEPT ![v] = server]

\* Mutant of Hear: a bracket is only told of the first document.
HearOnce(v) ==
  /\ Receive(v)
  /\ IF cache[v] = Nothing THEN posted' = [posted EXCEPT ![v] = @ \o Told(views[v], server)]
                           ELSE UNCHANGED posted
  /\ UNCHANGED <<hostVars, deletion, watching, views>>

\* The client receives a document and tells the listener of every bracket that
\* was opened.  (The table of games listens too, so the cache moves on without one.)
Hear(v) ==
  /\ Receive(v)
  /\ posted' = [posted EXCEPT ![v] = @ \o Told(views[v], server)]
  /\ UNCHANGED <<hostVars, deletion, watching, views>>

\* The main queue gets on with what is posted, one callback at a time.
Run(v) == posted[v] # << >> /\ posted' = [posted EXCEPT ![v] = Tail(@)]

\* The oldest callback is run, on a bracket on screen or left.
Callback(v) ==
  /\ posted[v] # << >>
  /\ LET i == Head(posted[v]).view
         t == Head(posted[v]).document
     IN  IF Traps(views[v][i], t) THEN Gone(v, "crashed")
         ELSE /\ views' = [views EXCEPT ![v][i] = AfterSnapshot(@, t)]
              /\ Run(v)
              /\ UNCHANGED <<hostVars, deletion, cache, watching>>

\* Mutant of HearDeletion: the listeners do not look for data.
HearDeletionUnread(v) ==
  /\ watching[v] # "crashed" /\ deletion = "done"
  /\ cache[v] # Nothing
  /\ cache' = [cache EXCEPT ![v] = Nothing]
  /\ views' = [views EXCEPT ![v] = [i \in DOMAIN @ |-> [@[i] EXCEPT !.tournament = Nothing]]]
  /\ UNCHANGED <<hostVars, deletion, watching, posted>>

\* The document is gone: a snapshot without data, whose callbacks do nothing.
HearDeletion(v) ==
  /\ watching[v] # "crashed" /\ deletion = "done"
  /\ cache[v] # Nothing
  /\ cache' = [cache EXCEPT ![v] = Nothing]
  /\ UNCHANGED <<hostVars, deletion, watching, views, posted>>
-----------------------------------------------------------------------------
\* Swiped away in the host's table of games (deleteHosted, dbDelete).
DeleteTournament ==
  /\ phase = "closed" /\ deletion = "none"
  /\ deletion' = "unsent"
  /\ UNCHANGED <<hostVars, viewerVars>>

\* The network takes the deletion after the writes before it.
CommitDeletion ==
  /\ deletion = "unsent" /\ unsent = << >>
  /\ deletion' = "done"
  /\ UNCHANGED <<hostVars, viewerVars>>

\* Mutant of HostOpen: the client still has the document.
HostOpenFromCache == Open

\* The host opens the bracket.  A row of a deleted tournament may still be in
\* the table: its bracket gets a snapshot without data, and stays empty.
HostOpen ==
  IF deletion = "none" THEN Open
  ELSE /\ phase = "closed"
       /\ phase' = "open"
       /\ UNCHANGED <<network, snapshots, screen, cells, winnerSelectedCount, alert>>

HostStep ==
  \/ HostOpen \/ Close \/ Snapshot \/ Scroll
  \/ Press \/ NextRound \/ ReturnToCurrentRound \/ Commit

SNext ==
  \/ HostStep /\ UNCHANGED <<deletion, viewerVars>>
  \/ DeleteTournament \/ CommitDeletion
  \/ \E v \in Viewer : OpenView(v) \/ CloseView(v) \/ RestartView(v)
                      \/ Hear(v) \/ HearDeletion(v) \/ Callback(v)

\* The main queue runs, and the client of an open bracket retries until it is in
\* touch again.  (Only Hear receives a document, and only Callback runs one, or a
\* process that dies before its last.)
ViewersFairness ==
  \A v \in Viewer : /\ WF_posted(Run(v))
                    /\ WF_cache(watching[v] = "open" /\ Receive(v))

SSpec ==
  /\ SInit /\ [][SNext]_allVars
  /\ Fairness /\ ViewersFairness

\* The host never answers "No".
SSpecWithoutNo ==
  /\ SInit /\ [][SNext /\ ~ReturnToCurrentRound]_allVars
  /\ Fairness /\ ViewersFairness
-----------------------------------------------------------------------------
STypeOK ==
  /\ TypeOK
  /\ deletion \in {"none", "unsent", "done"}
  /\ cache \in [Viewer -> Document \cup {Nothing}]
  /\ watching \in [Viewer -> {"closed", "open", "crashed"}]
  /\ \A v \in Viewer : \A i \in DOMAIN views[v] :
       /\ views[v][i].initialized \in BOOLEAN /\ views[v][i].currRound \in Nat
       /\ views[v][i].tournament \in Document
       /\ views[v][i].tables \in Seq(Tables)
  /\ \A v \in Viewer : posted[v] \in Seq([view : DOMAIN views[v], document : Document])

\* However the documents reached it, a bracket, on screen or left, shows what one
\* opened afresh on the last of them would show: the tables added and refreshed
\* one snapshot at a time are the tables of the whole history.
NoTraceOfTheWay ==
  \A v \in Viewer : \A i \in DOMAIN views[v] :
    views[v][i].initialized => views[v][i] = AfterSnapshot(NewScreen, views[v][i].tournament)

\* Once the main queue has run, every bracket of a viewer, on screen or left,
\* shows the document the client has: opening a bracket while documents come
\* neither leaves one out nor lets an older document be shown last.
BracketsFollowTheCache ==
  \A v \in Viewer : posted[v] = << >> /\ cache[v] # Nothing =>
    \A i \in DOMAIN views[v] : views[v][i].initialized /\ views[v][i].tournament = cache[v]

\* A viewer's bracket shows rounds in order: a step never takes one back to an
\* earlier round, and it never shows more rounds than the host has closed on its
\* own phone.
RoundsShownInOrder ==
  [][\A v \in Viewer : \A i \in DOMAIN views'[v] :
       /\ i \in DOMAIN views[v] => views'[v][i].currRound >= views[v][i].currRound
       /\ Len(views'[v][i].tournament.roundList) <= Len(LocalDocument.roundList)]_allVars

\* Who keeps the bracket open sees the document the database has, again and
\* again, unless the tournament is deleted.
OnScreen(v) == views[v][Len(views[v])].tournament
ViewersCatchUp ==
  \A v \in Viewer :
    watching[v] = "open"
      ~> (deletion = "done" \/ (watching[v] = "open" => OnScreen(v) = server))

\* A tournament that was deleted is not stored again: no bracket the host still
\* opens from the table writes another round of it (nextRound's store creates
\* the document when there is none).
DeletedForGood == [][deletion # "none" => Len(unsent') <= Len(unsent)]_allVars

\* make_roundsHost makes the correct number of rounds for the tournament: a
\* viewer's bracket has a table for every round so far.
EveryRoundHasATable ==
  \A v \in Viewer : watching[v] # "crashed"
=============================================================================
