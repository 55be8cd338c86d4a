----------------------------- MODULE GameCodes ------------------------------
(***************************************************************************)
(* Phones that host and join tournaments: Joining and Hosting over the     *)
(* same lists, tabs, clients and database, with apps that are killed and   *)
(* started again at any moment.                                            *)
(***************************************************************************)
EXTENDS Joining, Hosting

vars == <<client, defaults, tab, history, joining, hosting>>

Init == PhonesInit /\ JoiningInit /\ HostingInit

\* The tab bar, which a bracket hides.
SelectTab(p, t) ==
  /\ Running(p) /\ dialog[p] = "none" /\ ~InBracket(p)
  /\ t # tab[p]
  /\ t = "host" => p \in Hosts
  /\ t = "join" => p \in Joiners
  /\ tab' = [tab EXCEPT ![p] = Showing(t, lists[p])]
  /\ UNCHANGED <<client, defaults, history, joining, hosting>>

\* The app is killed, or has crashed, and is started again.
Restart(p) == Restarted(p) /\ JoiningRestarted(p) /\ HostingRestarted(p)

Join(p) ==
  /\ \/ \E text \in Text : Type(p, text)
     \/ JoinButton(p)
     \/ \E i \in 1..MaxLookups : Answer(p, i)
     \/ Yes(p) \/ TryAgain(p)
  /\ UNCHANGED hosting

Host(p) ==
  /\ \/ Create(p) \/ Back(p)
     \/ \E name \in Name : AddGroup(p, name)
     \/ \E c \in Code : Done(p, c)
     \/ \E c \in Code : DeleteHosted(p, c) \/ DeleteJoined(p, c)
     \/ \E kind \in {"hosted", "joined"} : \E c \in Code : OpenBracket(p, kind, c)
     \/ ShowBracket(p) \/ StoreRound(p) \/ LeaveBracket(p)
  /\ UNCHANGED joining

Save(p) == (Settle(p) \/ Persist(p) \/ Commit(p)) /\ UNCHANGED <<joining, hosting>>

Next ==
  \E p \in Phone :
    \/ Join(p) \/ Host(p) \/ Save(p) \/ Restart(p)
    \/ \E t \in {"games", "join", "host"} : SelectTab(p, t)

\* A running app's client saves and sends what it was given; nobody promises
\* what people do.
Fairness ==
  \A p \in Phone : WF_vars(Persist(p) /\ UNCHANGED <<joining, hosting>>)
                /\ WF_vars(Commit(p) /\ UNCHANGED <<joining, hosting>>)

Spec == Init /\ [][Next]_vars /\ Fairness
-----------------------------------------------------------------------------
TypeOK ==
  /\ db \in [Code -> Content]
  /\ lists \in [Phone -> Codes] /\ settled \in [Phone -> Codes]
  /\ \A p \in Phone : handed[p] \in Seq(Change) /\ unsent[p] \in Seq(Change)
  /\ tab \in [Phone -> {"games", "join", "host", "crashed"}]
  /\ drawn \in Seq([code : Code, phone : Phone])
  /\ interrupted \subseteq Code
  /\ field \in [Phone -> Text]
  /\ \A p \in Phone : lookups[p] \in Seq(Code)
  /\ dialog \in [Phone -> {"none", "found", "notFound"}]
  /\ \A p \in Phone : dialog[p] # "none" => tab[p] = "join"
  /\ page \in [Phone -> {"title", "groups"}]
  /\ groups \in [Phone -> Seq(Name)]
  /\ bracket \in [Phone -> [code : Text, host : BOOLEAN, shown : Content]]

\* A field a bracket can be drawn from (HostBracket's EntrantsAssumption): two
\* names or more, each once, and FREE up to the next power of two.
IsField(names) ==
  \E n \in 2..Len(names) :
    /\ \A i, j \in 1..n : names[i] = names[j] => i = j
    /\ \A i \in n+1..Len(names) : names[i] = Free
    /\ Len(names) = PaddedSize(n)

\* Whatever was entered, left, started anew or lost, a tournament that is stored
\* or on its way has a field that a bracket can be drawn from (doneButtonPressed,
\* addGroup and generate).
StoredFieldsAreFields ==
  \A content \in {db[c] : c \in Code}
      \cup UNION {{Waiting(p)[i].content : i \in DOMAIN Waiting(p)} : p \in Phone} :
    content.state = "stored" => IsField(content.groups)

DrawsOf(c) == {i \in DOMAIN drawn : drawn[i].code = c}

\* Only a phone that drew a code ever writes or deletes its document, however
\* often the app was started anew: a bracket that was opened from a joined row
\* never stores a round, and joining a tournament, taking it off the list of
\* joined ones, or a lookup answered late never touches it (prepare's host,
\* nextRound, join, deleteJoined).
OnlyItsHostWrites ==
  \A p \in Phone : \A i \in DOMAIN Waiting(p) :
    \E k \in DrawsOf(Waiting(p)[i].code) : drawn[k].phone = p

\* The list of hosted codes and the documents agree: a code that was drawn once
\* is on its host's list exactly as long as its tournament is stored, or on its
\* way, and neither is deleted without the other; unless the app was killed
\* before both had been saved (generate, deleteHosted, dbDelete).
HostedIffStored ==
  \A c \in Code \ interrupted : \A k \in DOMAIN drawn :
    DrawsOf(c) = {k} =>
      (c \in Hosted(drawn[k].phone) <=> Local(drawn[k].phone, c).state = "stored")

\* A tournament that is on its host's list reaches the database, for others to
\* find, however often the app is restarted: only a kill before the client saved
\* it, or a crashed app, keeps it from there (store's setData).
HostedIsPublished ==
  \A p \in Phone : \A c \in Code :
    c \in Hosted(p) ~> (db[c].state # "none" \/ c \in interrupted \/ ~Running(p))

\* The document of a game code is one tournament's until it is deleted (the comment
\* "Unique game code for tournament" of Tournament's game_code, which generate
\* draws).
UniqueGameCode ==
  [][\A c \in Code :
       db[c].state = "stored" /\ db'[c].state = "stored" => db'[c] = db[c]]_vars

\* A code that joins the list is the code that was found (the comments "Game
\* code found" and "Called when game code found" in JoinController).
JoinedWasFound ==
  [][\A p \in Phone : \A text \in lists'[p].joined \ lists[p].joined :
       \E i \in DOMAIN lookups[p] :
         lookups[p][i] = text /\ lookups'[p] = RemoveAt(lookups[p], i)]_vars
=============================================================================
