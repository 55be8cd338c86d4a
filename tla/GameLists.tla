----------------------------- MODULE GameLists ------------------------------
(***************************************************************************)
(* One phone's lists of tournaments: the game codes kept in UserDefaults,  *)
(* and the "active games" table of the tournaments they name               *)
(* (ActiveGamesController).  Each time the table appears, every code gets  *)
(* a new listener (two, if it was joined twice) whose callback collects    *)
(* tournaments in a list of that visit and then shows this list.  No       *)
(* listener is ever removed, so the visits of the past go on writing to    *)
(* the table.                                                              *)
(***************************************************************************)
EXTENDS Integers, Sequences, SequencesExt, FiniteSets

CONSTANTS
  Mine,        \* the game codes of tournaments created on this phone
  Theirs,      \* the game codes of other people's tournaments
  MaxJoined,   \* bound: the list of joined codes, which may hold a code twice
  MaxVisits,   \* bound: how often the table appears before a restart
  MaxPosted    \* bound: callbacks waiting on the main queue when one is added
ASSUME CodesAssumption == Mine \cap Theirs = {}

VARIABLES
  db,          \* what the database has of each code: "none", "stored" or "deleted"
  codes,       \* the lists of hosted and joined codes in UserDefaults
  listeners,   \* the listeners, oldest first: a code, whether the client has
               \* called it, and where it collects
  collectors,  \* the lists that listeners share, two for each visit
  posted,      \* callbacks on the main queue, each of a listener
  phase,       \* the app: "away" (another tab), "shown", "leaving", "bracket", "crashed"
  rows,        \* hosted_tournament_list and joined_tournament_list
  displayed,   \* the rows as the table view last loaded them
  host,        \* the controller's flag for the bracket it is about to open
  opened       \* what the last bracket was opened with

Code == Mine \cup Theirs
Kind == {"hosted", "joined"}
NoRows == [kind \in Kind |-> << >>]
NotOpened == [code |-> "none", host |-> FALSE]

vars == <<db, codes, listeners, collectors, posted, phase, rows, displayed, host, opened>>
stored == <<db, codes>>
listening == <<listeners, collectors, posted>>
table == <<rows, displayed, host, opened>>
-----------------------------------------------------------------------------
Init ==
  /\ db = [c \in Code |-> IF c \in Mine THEN "none" ELSE "stored"]
  /\ codes = NoRows
  /\ listeners = << >>
  /\ collectors = << >>
  /\ posted = << >>
  /\ phase = "away"
  /\ rows = NoRows
  /\ displayed = NoRows
  /\ host = FALSE
  /\ opened = NotOpened

\* generate keeps the code and stores the tournament.
Host(c) ==
  /\ phase = "away"
  /\ db[c] = "none"
  /\ db' = [db EXCEPT ![c] = "stored"]
  /\ codes' = [codes EXCEPT !["hosted"] = Append(@, c)]
  /\ UNCHANGED <<listening, phase, table>>

\* join keeps the code of a tournament that was found, once more if it is on the
\* list already.
Join(c) ==
  /\ phase = "away"
  /\ db[c] = "stored"
  /\ Len(codes["joined"]) < MaxJoined
  /\ codes' = [codes EXCEPT !["joined"] = Append(@, c)]
  /\ UNCHANGED <<db, listening, phase, table>>

\* Mutant of Collector: the list starts with the rows of the table.
CollectorOfRows(kind) == [kind |-> kind, list |-> rows[kind]]

\* getjoinedTournaments: a new list, and a listener for each code on the phone.
Collector(kind) == [kind |-> kind, list |-> << >>]
Listeners(kind, collector) ==
  [n \in DOMAIN codes[kind] |-> [code |-> codes[kind][n], heard |-> FALSE, collector |-> collector]]
Fetch ==
  /\ collectors' = collectors \o <<Collector("hosted"), Collector("joined")>>
  /\ listeners' = listeners \o Listeners("hosted", Len(collectors) + 1)
                             \o Listeners("joined", Len(collectors) + 2)

\* Mutant of Appear: the lists are only fetched once.
AppearOnce ==
  /\ phase \in {"away", "bracket"}
  /\ phase' = "shown"
  /\ IF collectors = << >> THEN Fetch ELSE UNCHANGED <<listeners, collectors>>
  /\ UNCHANGED <<stored, posted, table>>

\* viewDidAppear: gethostedTournaments and getjoinedTournaments.
Appear ==
  /\ phase \in {"away", "bracket"}
  /\ Len(collectors) < 2 * MaxVisits
  /\ phase' = "shown"
  /\ Fetch
  /\ UNCHANGED <<stored, posted, table>>

\* Mutant of Disappear: the flag stays.
DisappearAsHost ==
  /\ phase \in {"shown", "leaving"}
  /\ phase' = IF phase = "leaving" THEN "bracket" ELSE "away"
  /\ rows' = NoRows
  /\ UNCHANGED <<stored, listening, displayed, host, opened>>

\* viewDidDisappear, into a bracket or to another tab.  The lists are emptied,
\* but the table view is not told.
Disappear ==
  /\ phase \in {"shown", "leaving"}
  /\ phase' = IF phase = "leaving" THEN "bracket" ELSE "away"
  /\ host' = FALSE
  /\ rows' = NoRows
  /\ UNCHANGED <<stored, listening, displayed, opened>>
-----------------------------------------------------------------------------
\* The client raises the first snapshot of a listener: the listeners of one code
\* share a query, which calls them in the order in which they were added.  A
\* snapshot without a document is ignored.
FirstSnapshot(n) ==
  /\ ~listeners[n].heard
  /\ \A m \in 1..n-1 : listeners[m].code = listeners[n].code => listeners[m].heard
  /\ db[listeners[n].code] = "stored"
  /\ listeners' = [listeners EXCEPT ![n].heard = TRUE]
  /\ posted' = Append(posted, n)
  /\ UNCHANGED <<stored, collectors, phase, table>>

\* The numbers of a set, the smallest first.
Ascending(S) ==
  [k \in 1..Cardinality(S) |-> CHOOSE n \in S : Cardinality({m \in S : m <= n}) = k]

\* A tournament is stored again, one of this phone from the bracket that is open
\* for its host: each listener is called, in the order in which it was added.
Change(c) ==
  /\ db[c] = "stored"
  /\ c \in Theirs \/ (phase = "bracket" /\ opened = [code |-> c, host |-> TRUE])
  /\ Len(posted) < MaxPosted
  /\ posted' = posted \o Ascending({n \in DOMAIN listeners :
                                     listeners[n].code = c /\ listeners[n].heard})
  /\ UNCHANGED <<stored, listeners, collectors, phase, table>>

\* Its host deletes another tournament: the snapshot has no data and is ignored.
Vanish(c) ==
  /\ db[c] = "stored"
  /\ db' = [db EXCEPT ![c] = "deleted"]
  /\ UNCHANGED <<codes, listening, phase, table>>

\* The collector's list with a tournament at its row, or at the end: rows of
\* the same code are the same tournament.
Collected(list, c) == IF c \in ToSet(list) THEN list ELSE Append(list, c)

\* Mutant of Callback: the table is not reloaded.
CallbackWithoutReload ==
  /\ posted # << >>
  /\ posted' = Tail(posted)
  /\ LET i == listeners[Head(posted)].collector
         list == Collected(collectors[i].list, listeners[Head(posted)].code)
     IN /\ collectors' = [collectors EXCEPT ![i].list = list]
        /\ rows' = [rows EXCEPT ![collectors[i].kind] = list]
  /\ UNCHANGED <<stored, listeners, phase, displayed, host, opened>>

\* The completion of getTournament: the collector's list becomes the list of
\* the controller, whatever visit it is of, and the table is reloaded.
Callback ==
  /\ posted # << >>
  /\ posted' = Tail(posted)
  /\ LET i == listeners[Head(posted)].collector
         list == Collected(collectors[i].list, listeners[Head(posted)].code)
     IN /\ collectors' = [collectors EXCEPT ![i].list = list]
        /\ rows' = [rows EXCEPT ![collectors[i].kind] = list]
  /\ displayed' = rows'
  /\ UNCHANGED <<stored, listeners, phase, host, opened>>
-----------------------------------------------------------------------------
\* An index is out of range: the process is gone, and its listeners with it.
Crash ==
  /\ phase' = "crashed"
  /\ listeners' = << >>
  /\ collectors' = << >>
  /\ posted' = << >>
  /\ UNCHANGED <<stored, table>>

\* didSelectRowAt and prepare.
Select(kind, i) ==
  /\ phase = "shown"
  /\ i \in DOMAIN displayed[kind]
  /\ IF i \notin DOMAIN rows[kind]
       THEN Crash
       ELSE /\ host' = (host \/ kind = "hosted")
            /\ opened' = [code |-> rows[kind][i], host |-> host']
            /\ phase' = "leaving"
            /\ UNCHANGED <<stored, listening, rows, displayed>>

\* list.filter { $0 != c }
Without(list, c) ==
  LET kept == Ascending({n \in DOMAIN list : list[n] # c})
  IN [k \in DOMAIN kept |-> list[kept[k]]]

\* deleteHosted and deleteJoined: every copy of the code goes, and with a hosted
\* one its document; a code the phone no longer has is left alone.
Forget(kind, c) ==
  /\ codes' = [codes EXCEPT ![kind] = Without(@, c)]
  /\ db' = IF kind = "hosted" /\ c \in ToSet(codes[kind])
             THEN [db EXCEPT ![c] = "deleted"] ELSE db

\* Swiping a row away.  The table view traps when the numbers of rows do not
\* add up afterwards.
Delete(kind, i) ==
  /\ phase = "shown"
  /\ i \in DOMAIN displayed[kind]
  /\ IF i \notin DOMAIN rows[kind] \/ \E k \in Kind : Len(rows[k]) # Len(displayed[k])
       THEN Crash
       ELSE /\ Forget(kind, rows[kind][i])
            /\ rows' = [rows EXCEPT ![kind] = RemoveAt(@, i)]
            /\ displayed' = [displayed EXCEPT ![kind] = RemoveAt(@, i)]
            /\ UNCHANGED <<listening, phase, host, opened>>

\* The app is killed, or has crashed, and is started again.
Restart ==
  /\ listeners' = << >>
  /\ collectors' = << >>
  /\ posted' = << >>
  /\ phase' = "away"
  /\ rows' = NoRows
  /\ displayed' = NoRows
  /\ host' = FALSE
  /\ opened' = NotOpened
  /\ UNCHANGED stored
-----------------------------------------------------------------------------
First == \E n \in DOMAIN listeners : FirstSnapshot(n)
Selection == \E kind \in Kind : \E i \in DOMAIN displayed[kind] : Select(kind, i)
Deletion == \E kind \in Kind : \E i \in DOMAIN displayed[kind] : Delete(kind, i)
Tabs == \/ \E c \in Mine : Host(c)
        \/ \E c \in Code : Join(c)
        \/ Appear \/ Disappear \/ Restart
Others == \/ \E c \in Code : Change(c)
          \/ \E c \in Theirs : Vanish(c)

Next == First \/ Callback \/ Selection \/ Deletion \/ Tabs \/ Others

\* The client raises every first snapshot it can, and the main queue runs.
Fairness == WF_vars(Callback) /\ WF_vars(First)

Spec == Init /\ [][Next]_vars /\ Fairness
-----------------------------------------------------------------------------
TypeOK ==
  /\ db \in [Code -> {"none", "stored", "deleted"}]
  /\ codes \in [Kind -> Seq(Code)]
  /\ listeners \in Seq([code : Code, heard : BOOLEAN, collector : DOMAIN collectors])
  /\ \A i \in DOMAIN collectors :
       /\ collectors[i].kind \in Kind
       /\ \A c \in ToSet(collectors[i].list) : \E n \in DOMAIN listeners :
            listeners[n] = [code |-> c, heard |-> TRUE, collector |-> i]
  /\ posted \in Seq({n \in DOMAIN listeners : listeners[n].heard})
  /\ phase \in {"away", "shown", "leaving", "bracket", "crashed"}
  /\ rows \in [Kind -> Seq(Code)] /\ displayed \in [Kind -> Seq(Code)]
  /\ host \in BOOLEAN
  /\ opened.host \in BOOLEAN

\* A row that is touched is the tournament it shows, or no row at all: the
\* lists and what the table view loaded of them are the same, or the lists were
\* emptied (so a swipe never deletes another tournament than the one swiped).
TouchedRowIsMeant == rows = displayed \/ rows = NoRows

\* A bracket is only opened for its host when this phone created it, whatever
\* was opened before and whichever visit's list was shown.
OnlyOwnAsHost == opened.host => opened.code \in Mine

\* The listeners are of tournaments that are stored, and whose codes are on the
\* phone.
NothingDeleted ==
  \A n \in DOMAIN listeners :
    /\ db[listeners[n].code] = "stored"
    /\ listeners[n].code \in ToSet(codes[collectors[listeners[n].collector].kind])

\* As long as nothing that was listed is deleted, who stays on the table sees
\* every tournament of the phone's codes, again and again, even while the lists
\* of earlier visits are written over it.
EverythingListed ==
  []NothingDeleted /\ <>[](phase = "shown")
    => []<>(\A kind \in Kind : ToSet(codes[kind]) \subseteq ToSet(rows[kind]))

\* The table lists hosted and joined tournaments, that is, of the codes on the
\* phone (gethostedTournaments, getjoinedTournaments).
OnlyCodesOfThePhone == \A kind \in Kind : ToSet(rows[kind]) \subseteq ToSet(codes[kind])
=============================================================================
