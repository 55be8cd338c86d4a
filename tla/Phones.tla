------------------------------- MODULE Phones -------------------------------
(***************************************************************************)
(* Several phones and the database between them, as far as game codes go:  *)
(* the lists of codes each phone keeps in UserDefaults, the tab its app    *)
(* shows, and its Firestore client's queue of writes.  Both stores take a  *)
(* change at once and save it a moment later, each in its own time, so an  *)
(* app that is killed in between has saved one and not the other.          *)
(*                                                                         *)
(* The lists are sets here: the code filters out every copy of a code it   *)
(* removes, and no row shows how often one is listed.  (GameLists keeps    *)
(* the copies, for the listeners they get.)                                *)
(* Joining and Hosting add what the user does; GameCodes composes them.    *)
(***************************************************************************)
EXTENDS BracketBackend, Sequences, SequencesExt

CONSTANTS
  Phone,
  Code,        \* the game codes
  Empty,       \* the text of an empty field, which names no document
  Name,        \* the names of groups
  Free,        \* the name of the groups generate pads a field with
  MaxDraws,    \* bound: the tournaments that are created
  MaxLookups,  \* bound: lookups of a phone that wait for an answer
  MaxWaiting   \* bound: changes of a phone the database has not taken
ASSUME EmptyAssumption == Empty \notin Code
ASSUME PhoneBoundsAssumption ==
  MaxDraws \in Nat /\ MaxLookups \in Nat /\ MaxWaiting \in Nat

VARIABLES
  db,           \* the document of each code in the database
  lists,        \* each phone's hosted and joined codes, as the app reads them
  settled,      \* the same, as a restart would read them
  handed,       \* writes the app has called for and the client has not saved
  unsent,       \* writes the client has saved and the database has not taken
  tab,          \* what each app shows: "games", "join", "host" or "crashed"
  drawn,        \* history: the codes generate drew, and on which phone
  interrupted   \* history: the codes that lost a change when an app was killed

Text == Code \cup {Empty}
Codes == [hosted : SUBSET Code, joined : SUBSET Text]
NoCodes == [hosted |-> {}, joined |-> {}]
Content == [state : {"none", "stored", "deleted"}, groups : Seq(Name \cup {Free})]
Absent == [state |-> "none", groups |-> << >>]
Deleted == [state |-> "deleted", groups |-> << >>]
Change == [code : Code, content : Content]

client == <<db, handed, unsent>>
defaults == <<lists, settled>>
history == <<drawn, interrupted>>

Running(p) == tab[p] # "crashed"
Hosted(p) == lists[p].hosted
Joined(p) == lists[p].joined

\* What phone p's client shows of a code: the last local write, sent or not.
Waiting(p) == unsent[p] \o handed[p]
Of(c, writes) == {i \in DOMAIN writes : writes[i].code = c}
Latest(content, c, writes) ==
  IF Of(c, writes) = {} THEN content ELSE writes[Max(Of(c, writes))].content
Local(p, c) == Latest(db[c], c, Waiting(p))

PhonesInit ==
  /\ db = [c \in Code |-> Absent]
  /\ lists = [p \in Phone |-> NoCodes]
  /\ settled = lists
  /\ handed = [p \in Phone |-> << >>]
  /\ unsent = handed
  /\ tab = [p \in Phone |-> "games"]
  /\ drawn = << >>
  /\ interrupted = {}

\* The tab a phone shows next.  The table of games asks for a listener on every
\* code as it appears, and the client throws on a code that names no document.
Showing(t, codes) == IF t = "games" /\ Empty \in codes.joined THEN "crashed" ELSE t

\* setData and delete hand the change to the client's own queue and return.
Hand(p, c, content) ==
  /\ Len(Waiting(p)) < MaxWaiting
  /\ handed' = [handed EXCEPT ![p] = Append(@, [code |-> c, content |-> content])]
-----------------------------------------------------------------------------
\* UserDefaults saves what was set.
Settle(p) ==
  /\ Running(p)
  /\ settled[p] # lists[p]
  /\ settled' = [settled EXCEPT ![p] = lists[p]]
  /\ UNCHANGED <<client, lists, tab, history>>

\* The client's worker saves the oldest change it was handed.
Persist(p) ==
  /\ Running(p)
  /\ handed[p] # << >>
  /\ unsent' = [unsent EXCEPT ![p] = Append(@, Head(handed[p]))]
  /\ handed' = [handed EXCEPT ![p] = Tail(@)]
  /\ UNCHANGED <<db, defaults, tab, history>>

\* The database takes the oldest change a phone has saved.
Commit(p) ==
  /\ Running(p)
  /\ unsent[p] # << >>
  /\ db' = [db EXCEPT ![Head(unsent[p]).code] = Head(unsent[p]).content]
  /\ unsent' = [unsent EXCEPT ![p] = Tail(@)]
  /\ UNCHANGED <<handed, defaults, tab, history>>

\* Mutant of Restarted: the client keeps its queue in memory only.
RestartedWithoutQueue(p) ==
  /\ lists' = [lists EXCEPT ![p] = settled[p]]
  /\ handed' = [handed EXCEPT ![p] = << >>]
  /\ unsent' = [unsent EXCEPT ![p] = << >>]
  /\ tab' = [tab EXCEPT ![p] = Showing("games", settled[p])]
  /\ interrupted' = interrupted
       \cup {handed[p][i].code : i \in DOMAIN handed[p]}
       \cup {c \in Code : c \in Hosted(p) <=> c \notin settled[p].hosted}
  /\ UNCHANGED <<db, settled, drawn>>

\* The app is killed, or has crashed, and is started again with what was saved.
Restarted(p) ==
  /\ lists' = [lists EXCEPT ![p] = settled[p]]
  /\ handed' = [handed EXCEPT ![p] = << >>]
  /\ tab' = [tab EXCEPT ![p] = Showing("games", settled[p])]
  /\ interrupted' = interrupted
       \cup {handed[p][i].code : i \in DOMAIN handed[p]}
       \cup {c \in Code : c \in Hosted(p) <=> c \notin settled[p].hosted}
  /\ UNCHANGED <<db, settled, unsent, drawn>>
=============================================================================
