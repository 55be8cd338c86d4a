------------------------------ MODULE Joining -------------------------------
(***************************************************************************)
(* JoinController on each phone: the text field for a game code, the       *)
(* lookups that wait for the database, and the alert with the answer.  A   *)
(* lookup is a closure that only remembers the controller: what it does    *)
(* with the answer it reads off the screen of that moment.                 *)
(***************************************************************************)
EXTENDS Phones

CONSTANT Joiners    \* the phones whose users join tournaments
ASSUME JoinersAssumption == Joiners \subseteq Phone

VARIABLES
  field,     \* the text of each phone's field
  lookups,   \* the codes whose lookup has not been answered, oldest first
  dialog     \* the alert of the screen: "none", "found" or "notFound"

joining == <<field, lookups, dialog>>

JoiningInit ==
  /\ field = [p \in Phone |-> Empty]
  /\ lookups = [p \in Phone |-> << >>]
  /\ dialog = [p \in Phone |-> "none"]

\* The tab is shown and no alert covers it.
OnJoinTab(p) == tab[p] = "join" /\ dialog[p] = "none"

\* The user edits the field.
Type(p, text) ==
  /\ OnJoinTab(p)
  /\ text # field[p]
  /\ field' = [field EXCEPT ![p] = text]
  /\ UNCHANGED <<client, defaults, tab, history, lookups, dialog>>

\* joinTournamentButton: look the code up, unless the field is empty.
JoinButton(p) ==
  /\ OnJoinTab(p)
  /\ field[p] # Empty
  /\ Len(lookups[p]) < MaxLookups
  /\ lookups' = [lookups EXCEPT ![p] = Append(@, field[p])]
  /\ UNCHANGED <<client, defaults, tab, history, field, dialog>>

\* What exists may answer: a phone with a local write of the document answers
\* from that; otherwise the database does, or, out of touch, the client's cache,
\* which may still have a document that is on the phone's lists.
Answers(p, c) ==
  IF Of(c, Waiting(p)) # {}
    THEN {Local(p, c).state = "stored"}
    ELSE {FALSE} \cup {db[c].state = "stored"}
           \cup {db[c].state # "none" /\ c \in Hosted(p) \cup Joined(p)}

\* Mutant of Present: the alert covers whatever the app shows.
PresentAnywhere(p, alert) == dialog' = [dialog EXCEPT ![p] = alert]

\* UIKit presents no alert over another, nor on a tab that is not shown.
Present(p, alert) ==
  dialog' = IF OnJoinTab(p) THEN [dialog EXCEPT ![p] = alert] ELSE dialog

\* gameFound: the text of the field joins the list, and only then is the user
\* asked.  gameNotFound only tells.
Answer(p, i) ==
  /\ Running(p)
  /\ i \in DOMAIN lookups[p]
  /\ lookups' = [lookups EXCEPT ![p] = RemoveAt(@, i)]
  /\ \E found \in Answers(p, lookups[p][i]) :
       IF found
         THEN /\ lists' = [lists EXCEPT ![p].joined = @ \cup {field[p]}]
              /\ Present(p, "found")
         ELSE Present(p, "notFound") /\ UNCHANGED lists
  /\ UNCHANGED <<client, settled, tab, history, field>>

\* "Yes": backToActiveGames.
Yes(p) ==
  /\ dialog[p] = "found"
  /\ dialog' = [dialog EXCEPT ![p] = "none"]
  /\ field' = [field EXCEPT ![p] = Empty]
  /\ tab' = [tab EXCEPT ![p] = Showing("games", lists[p])]
  /\ UNCHANGED <<client, defaults, history, lookups>>

\* "Try again": cleanTextfield.
TryAgain(p) ==
  /\ dialog[p] = "notFound"
  /\ dialog' = [dialog EXCEPT ![p] = "none"]
  /\ field' = [field EXCEPT ![p] = Empty]
  /\ UNCHANGED <<client, defaults, tab, history, lookups>>

\* Nothing of the screen outlives the app.
JoiningRestarted(p) ==
  /\ field' = [field EXCEPT ![p] = Empty]
  /\ lookups' = [lookups EXCEPT ![p] = << >>]
  /\ dialog' = [dialog EXCEPT ![p] = "none"]
=============================================================================
