------------------------------ MODULE Hosting -------------------------------
(***************************************************************************)
(* Creating a tournament, HostController and AddGroupsController with      *)
(* generate; opening a bracket from the table of games, of which its host  *)
(* stores each round that ends; and deleting a tournament.  A code is      *)
(* drawn at random and never looked up, so any code may come up, a taken   *)
(* one too.                                                                *)
(***************************************************************************)
EXTENDS Phones

CONSTANT Hosts    \* the phones whose users host tournaments
ASSUME HostsAssumption == Hosts \subseteq Phone

VARIABLES
  page,    \* the host tab of each phone: "title" or "groups"
  groups,  \* the names of the groups entered so far
  bracket  \* the bracket each phone shows over its table of games: its code, whether
           \* it was opened for the host, and the tournament it has of the last snapshot

entering == <<page, groups>>
hosting == <<entering, bracket>>

NoBracket == [code |-> Empty, host |-> FALSE, shown |-> Absent]
InBracket(p) == bracket[p].code # Empty

HostingInit ==
  /\ page = [p \in Phone |-> "title"]
  /\ groups = [p \in Phone |-> << >>]
  /\ bracket = [p \in Phone |-> NoBracket]

OnHostPage(p, which) == tab[p] = "host" /\ page[p] = which

\* createButtonPressed with both texts filled in: the next page starts from
\* this page's tournament, which has no groups.
Create(p) ==
  /\ OnHostPage(p, "title")
  /\ page' = [page EXCEPT ![p] = "groups"]
  /\ UNCHANGED <<client, defaults, tab, history, groups, bracket>>

\* Mutant of AddGroup: a name may be entered twice.
AddGroupTwice(p, name) ==
  /\ OnHostPage(p, "groups")
  /\ Len(groups[p]) < Cardinality(Name)
  /\ groups' = [groups EXCEPT ![p] = Append(@, name)]
  /\ UNCHANGED <<client, defaults, tab, history, page, bracket>>

\* addGroup: a name that is there already is refused.
AddGroup(p, name) ==
  /\ OnHostPage(p, "groups")
  /\ name \notin ToSet(groups[p])
  /\ groups' = [groups EXCEPT ![p] = Append(@, name)]
  /\ UNCHANGED <<client, defaults, tab, history, page, bracket>>

\* The page is left, and its tournament with it.
PageLeft(p) ==
  /\ page' = [page EXCEPT ![p] = "title"]
  /\ groups' = [groups EXCEPT ![p] = << >>]

Back(p) ==
  /\ OnHostPage(p, "groups")
  /\ PageLeft(p)
  /\ UNCHANGED <<client, defaults, tab, history, bracket>>

\* The groups with the FREE ones that fill the field up.
Padded(entered) ==
  [i \in 1..PaddedSize(Len(entered)) |-> IF i <= Len(entered) THEN entered[i] ELSE Free]

\* doneButtonPressed with generate: the code goes on the list, the tournament
\* to the client.
Done(p, c) ==
  /\ OnHostPage(p, "groups")
  /\ Len(groups[p]) >= 2
  /\ Len(drawn) < MaxDraws
  /\ drawn' = Append(drawn, [code |-> c, phone |-> p])
  /\ lists' = [lists EXCEPT ![p].hosted = @ \cup {c}]
  /\ Hand(p, c, [state |-> "stored", groups |-> Padded(groups[p])])
  /\ PageLeft(p)
  /\ tab' = [tab EXCEPT ![p] = Showing("games", lists[p])]
  /\ UNCHANGED <<db, unsent, settled, interrupted, bracket>>
-----------------------------------------------------------------------------
(* Rows of the table of games, which there are for documents the phone has   *)
(* seen.  A row may be there still when the document is gone.                *)
OnTable(p) == tab[p] = "games" /\ ~InBracket(p)
HasRow(p, kind, c) == c \in lists[p][kind] /\ Local(p, c).state # "none"

\* Mutant of OpenBracket: every bracket is opened for its host.
OpenBracketAsHost(p, kind, c) ==
  /\ OnTable(p) /\ HasRow(p, kind, c)
  /\ bracket' = [bracket EXCEPT ![p] = [code |-> c, host |-> TRUE, shown |-> Absent]]
  /\ UNCHANGED <<client, defaults, tab, history, entering>>

\* didSelectRowAt and prepare: of a hosted row, for the host.
OpenBracket(p, kind, c) ==
  /\ OnTable(p) /\ HasRow(p, kind, c)
  /\ bracket' = [bracket EXCEPT ![p] = [code |-> c, host |-> kind = "hosted", shown |-> Absent]]
  /\ UNCHANGED <<client, defaults, tab, history, entering>>

\* A snapshot reaches the bracket.  One without data is ignored: a bracket keeps
\* a tournament that was deleted.
ShowBracket(p) ==
  LET latest == Local(p, bracket[p].code)
  IN /\ InBracket(p)
     /\ latest.state = "stored" /\ latest # bracket[p].shown
     /\ bracket' = [bracket EXCEPT ![p].shown = latest]
     /\ UNCHANGED <<client, defaults, tab, history, entering>>

\* nextRound: the host stores the tournament of the bracket again, with its rounds,
\* whatever has become of the document since its last snapshot.
StoreRound(p) ==
  /\ bracket[p].host /\ bracket[p].shown.state = "stored"
  /\ Hand(p, bracket[p].code, bracket[p].shown)
  /\ UNCHANGED <<db, unsent, defaults, tab, history, hosting>>

\* Back to the table of games, which appears again.
LeaveBracket(p) ==
  /\ InBracket(p)
  /\ bracket' = [bracket EXCEPT ![p] = NoBracket]
  /\ tab' = [tab EXCEPT ![p] = Showing("games", lists[p])]
  /\ UNCHANGED <<client, defaults, history, entering>>

\* Mutant of DeleteHosted: the document stays.
DeleteHostedLocally(p, c) ==
  /\ OnTable(p) /\ HasRow(p, "hosted", c)
  /\ lists' = [lists EXCEPT ![p].hosted = @ \ {c}]
  /\ UNCHANGED <<client, settled, tab, history, hosting>>

\* deleteHosted and dbDelete: every copy of the code, and the document.
DeleteHosted(p, c) ==
  /\ OnTable(p) /\ HasRow(p, "hosted", c)
  /\ lists' = [lists EXCEPT ![p].hosted = @ \ {c}]
  /\ Hand(p, c, Deleted)
  /\ UNCHANGED <<db, unsent, settled, tab, history, hosting>>

\* deleteJoined: every copy of the code.
DeleteJoined(p, c) ==
  /\ OnTable(p) /\ HasRow(p, "joined", c)
  /\ lists' = [lists EXCEPT ![p].joined = @ \ {c}]
  /\ UNCHANGED <<client, settled, tab, history, hosting>>

\* Nothing of these screens outlives the app.
HostingRestarted(p) == PageLeft(p) /\ bracket' = [bracket EXCEPT ![p] = NoBracket]
=============================================================================
