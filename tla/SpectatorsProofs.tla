-------------------------- MODULE SpectatorsProofs --------------------------
(***************************************************************************)
(* Proofs about Spectators for any number of viewers: the phones of the    *)
(* viewers are type correct, and a deleted tournament is not stored again, *)
(* for every field and every bound; and, when the host never answers "No"  *)
(* and its screen shows the first round at once, what the brackets of the  *)
(* viewers show, and in which order.                                       *)
(***************************************************************************)
EXTENDS Spectators, KnockoutProofs

ScreenType == [initialized : BOOLEAN, tournament : Document, currRound : Nat, tables : Seq(Tables)]
Call == [view : Nat, document : Document]

CacheInv ==
  /\ cache \in [Viewer -> Document \cup {Nothing}]
  /\ \A v \in Viewer : cache[v] # Nothing => DocumentInv(cache[v])

\* A viewer's brackets are screens of documents the host stored, and every
\* callback is of one of them.
Phone(screens, calls) ==
  /\ screens \in Seq(ScreenType) /\ calls \in Seq(Call)
  /\ \A i \in 1..Len(screens) : ScreenInv(screens[i])
  /\ \A n \in 1..Len(calls) :
       calls[n].view \in 1..Len(screens) /\ DocumentInv(calls[n].document)

ViewsInv ==
  /\ watching \in [Viewer -> {"closed", "open", "crashed"}]
  /\ views \in [Viewer -> Seq(ScreenType)]
  /\ posted \in [Viewer -> Seq(Call)]
  /\ \A v \in Viewer : Phone(views[v], posted[v])

\* Nothing is on the host's screen when the bracket is closed, which is when it
\* may be deleted, and nothing comes to it after that.
EmptyInv ==
  phase = "closed" \/ deletion # "none" => snapshots = << >> /\ ~screen.initialized

SInv == IInv /\ deletion \in {"none", "unsent", "done"} /\ CacheInv /\ ViewsInv /\ EmptyInv
-----------------------------------------------------------------------------
LEMMA NewScreenFacts == NewScreen \in ScreenType /\ ScreenInv(NewScreen)
BY DEF ScreenInv, ScreenType, NewScreen, NoTournament, Document

LEMMA AfterSnapshotFacts ==
  ASSUME NEW s, ScreenInv(s), NEW t, DocumentInv(t), ~Traps(s, t)
  PROVE  AfterSnapshot(s, t) \in ScreenType /\ ScreenInv(AfterSnapshot(s, t))
<1>1. ScreenInv(AfterSnapshot(s, t))
  BY SnapshotKeepsScreen
<1> QED
  BY <1>1 DEF ScreenInv, ScreenType

LEMMA TailCalls ==
  ASSUME NEW T, NEW calls \in Seq(T), calls # << >>
  PROVE  /\ Len(calls) \in Nat /\ Len(calls) >= 1 /\ Head(calls) = calls[1]
         /\ Tail(calls) \in Seq(T) /\ Len(Tail(calls)) = Len(calls) - 1
         /\ \A n \in 1..(Len(calls) - 1) : Tail(calls)[n] = calls[n + 1]
OBVIOUS

\* The callbacks after a document has come: those of before, and one for each
\* bracket in the order they were opened.
LEMMA ToldCalls ==
  ASSUME NEW screens, NEW calls, Phone(screens, calls), NEW t \in Document
  PROVE  LET all == calls \o Told(screens, t)
         IN  /\ all \in Seq(Call) /\ Len(all) = Len(calls) + Len(screens)
             /\ \A n \in 1..Len(calls) : all[n] = calls[n]
             /\ \A n \in 1..(Len(calls) + Len(screens)) : n > Len(calls) =>
                  all[n].view = n - Len(calls) /\ all[n].document = t
<1> DEFINE l == Len(screens)
           told == [i \in 1..l |-> [view |-> i, document |-> t]]
<1>1. screens \in Seq(ScreenType) /\ calls \in Seq(Call)
  BY DEF Phone
<1>2. l \in Nat /\ DOMAIN screens = 1..l /\ Told(screens, t) = told
  BY <1>1 DEF Told
<1> HIDE DEF l
<1>3. told \in Seq(Call) /\ Len(told) = l
      /\ \A i \in 1..l : told[i].view = i /\ told[i].document = t
  BY <1>2 DEF Call
<1> HIDE DEF told
<1> DEFINE T == Call
<1>4. told \in Seq(T) /\ calls \in Seq(T)
  BY <1>1, <1>3
<1> HIDE DEF T
<1>5. /\ Len(calls \o told) = Len(calls) + Len(told) /\ calls \o told \in Seq(T)
      /\ \A i \in 1..Len(calls) : (calls \o told)[i] = calls[i]
      /\ \A i \in 1..Len(calls) + Len(told) : i > Len(calls) => (calls \o told)[i] = told[i - Len(calls)]
  BY <1>4, Joined
<1>6. ASSUME NEW n \in 1..(Len(calls) + l), n > Len(calls)
      PROVE  (calls \o told)[n].view = n - Len(calls) /\ (calls \o told)[n].document = t
  <2>1. Len(calls) \in Nat
    BY <1>4
  <2>2. n - Len(calls) \in 1..l
    BY <1>2, <1>6, <2>1
  <2> QED
    BY <1>3, <1>5, <1>6, <2>2
<1> QED
  BY <1>2, <1>3, <1>5, <1>6 DEF T, l

LEMMA ToldPhone ==
  ASSUME NEW screens, NEW calls, Phone(screens, calls), NEW t, DocumentInv(t)
  PROVE  Phone(screens, calls \o Told(screens, t))
<1> DEFINE all == calls \o Told(screens, t)
<1>1. t \in Document
  BY DEF DocumentInv
<1>2. /\ all \in Seq(Call) /\ Len(all) = Len(calls) + Len(screens)
      /\ \A n \in 1..Len(calls) : all[n] = calls[n]
      /\ \A n \in 1..(Len(calls) + Len(screens)) : n > Len(calls) =>
           all[n].view = n - Len(calls) /\ all[n].document = t
  BY <1>1, ToldCalls
<1> HIDE DEF all
<1>3. Len(calls) \in Nat /\ Len(screens) \in Nat
  BY DEF Phone
<1>4. ASSUME NEW n \in 1..Len(all)
      PROVE  all[n].view \in 1..Len(screens) /\ DocumentInv(all[n].document)
  <2>1. CASE n <= Len(calls)
    BY <1>2, <1>3, <2>1 DEF Phone
  <2>2. CASE n > Len(calls)
    BY <1>2, <1>3, <2>2
  <2> QED
    BY <1>2, <1>3, <2>1, <2>2
<1>5. Phone(screens, all)
  BY <1>2, <1>4 DEF Phone
<1> QED
  BY <1>5 DEF all

\* One more bracket, and what it is told.
LEMMA OpenedPhone ==
  ASSUME NEW screens, NEW calls, Phone(screens, calls)
  PROVE  /\ Phone(Append(screens, NewScreen), calls)
         /\ \A t : DocumentInv(t) =>
              Phone(Append(screens, NewScreen),
                    Append(calls, [view |-> Len(screens) + 1, document |-> t]))
<1> DEFINE new == NewScreen
           longer == Append(screens, new)
<1>1. /\ screens \in Seq(ScreenType) /\ calls \in Seq(Call)
      /\ new \in ScreenType /\ ScreenInv(new)
      /\ Len(screens) \in Nat /\ Len(calls) \in Nat
  BY NewScreenFacts DEF Phone
<1> HIDE DEF new
<1>2. /\ longer \in Seq(ScreenType) /\ Len(longer) = Len(screens) + 1
      /\ longer[Len(screens) + 1] = new
      /\ \A i \in 1..Len(screens) : longer[i] = screens[i]
  <2> DEFINE T == ScreenType
  <2>1. screens \in Seq(T) /\ new \in T
    BY <1>1
  <2> HIDE DEF T
  <2>2. /\ longer \in Seq(T) /\ Len(longer) = Len(screens) + 1
        /\ longer[Len(screens) + 1] = new
        /\ \A i \in 1..Len(screens) : longer[i] = screens[i]
    BY <2>1, Appended
  <2> QED
    BY <2>2 DEF T
<1> HIDE DEF longer
<1>3. \A i \in 1..Len(longer) : ScreenInv(longer[i])
  <2> SUFFICES ASSUME NEW i \in 1..Len(longer)
               PROVE  ScreenInv(longer[i])
    OBVIOUS
  <2>1. i = Len(screens) + 1 \/ i \in 1..Len(screens)
    BY <1>1, <1>2
  <2> QED
    BY <1>1, <1>2, <2>1 DEF Phone
<1>4. Phone(longer, calls)
  BY <1>1, <1>2, <1>3 DEF Phone
<1>5. ASSUME NEW t, DocumentInv(t)
      PROVE  Phone(longer, Append(calls, [view |-> Len(screens) + 1, document |-> t]))
  <2> DEFINE call == [view |-> Len(screens) + 1, document |-> t]
             all == Append(calls, call)
             T == Call
  <2>1. call \in T /\ calls \in Seq(T) /\ call.view = Len(screens) + 1 /\ call.document = t
    BY <1>1, <1>5 DEF Call, DocumentInv
  <2> HIDE DEF call, T
  <2>2. /\ all \in Seq(T) /\ Len(all) = Len(calls) + 1 /\ all[Len(calls) + 1] = call
        /\ \A n \in 1..Len(calls) : all[n] = calls[n]
    BY <2>1, Appended
  <2> HIDE DEF all
  <2>3. ASSUME NEW n \in 1..Len(all)
        PROVE  all[n].view \in 1..Len(longer) /\ DocumentInv(all[n].document)
    <3>1. n = Len(calls) + 1 \/ n \in 1..Len(calls)
      BY <1>1, <2>2
    <3> QED
      BY <1>1, <1>2, <1>4, <1>5, <2>1, <2>2, <3>1 DEF Phone
  <2>4. Phone(longer, all)
    BY <1>2, <1>3, <2>2, <2>3 DEF Phone, T
  <2> QED
    BY <2>4 DEF all, call
<1> QED
  BY <1>4, <1>5 DEF longer, new

\* The oldest callback, when it does not trap.
LEMMA CalledPhone ==
  ASSUME NEW screens, NEW calls, Phone(screens, calls), calls # << >>,
         ~Traps(screens[Head(calls).view], Head(calls).document)
  PROVE  /\ Head(calls).view \in 1..Len(screens) /\ DocumentInv(Head(calls).document)
         /\ Phone([screens EXCEPT ![Head(calls).view] = AfterSnapshot(@, Head(calls).document)],
                  Tail(calls))
<1> DEFINE T == Call
           i == Head(calls).view
           t == Head(calls).document
           new == AfterSnapshot(screens[i], t)
           after == [screens EXCEPT ![i] = new]
<1>1. calls \in Seq(T) /\ screens \in Seq(ScreenType)
  BY DEF Phone
<1> HIDE DEF T
<1>2. /\ Len(calls) \in Nat /\ Len(calls) >= 1 /\ Head(calls) = calls[1]
      /\ Tail(calls) \in Seq(T) /\ Len(Tail(calls)) = Len(calls) - 1
      /\ \A n \in 1..(Len(calls) - 1) : Tail(calls)[n] = calls[n + 1]
  BY <1>1, TailCalls
<1>3. i \in 1..Len(screens) /\ DocumentInv(t) /\ ScreenInv(screens[i])
  BY <1>2 DEF Phone
<1>4. new \in ScreenType /\ ScreenInv(new)
  BY <1>3, AfterSnapshotFacts
<1> HIDE DEF i, t, new
<1>5. after \in Seq(ScreenType) /\ Len(after) = Len(screens)
      /\ \A j \in 1..Len(screens) : after[j] = IF j = i THEN new ELSE screens[j]
  <2> DEFINE U == ScreenType
  <2>1. screens \in Seq(U) /\ new \in U
    BY <1>1, <1>4
  <2> HIDE DEF U
  <2>2. after \in Seq(U) /\ Len(after) = Len(screens)
        /\ \A j \in 1..Len(screens) : after[j] = IF j = i THEN new ELSE screens[j]
    BY <1>3, <2>1
  <2> QED
    BY <2>2 DEF U
<1> HIDE DEF after
<1>6. \A j \in 1..Len(after) : ScreenInv(after[j])
  BY <1>4, <1>5 DEF Phone
<1>7. ASSUME NEW n \in 1..Len(Tail(calls))
      PROVE  Tail(calls)[n].view \in 1..Len(after) /\ DocumentInv(Tail(calls)[n].document)
  <2>1. n + 1 \in 1..Len(calls) /\ Tail(calls)[n] = calls[n + 1]
    BY <1>2
  <2> QED
    BY <1>5, <2>1 DEF Phone
<1>8. Phone(after, Tail(calls))
  BY <1>2, <1>5, <1>6, <1>7 DEF Phone, T
<1> QED
  BY <1>3, <1>8 DEF after, new, i, t
-----------------------------------------------------------------------------
\* A step of one viewer's phone.
LEMMA PhoneChanges ==
  ASSUME ViewsInv, NEW v \in Viewer, NEW screens, NEW calls, Phone(screens, calls),
         views' = [views EXCEPT ![v] = screens], posted' = [posted EXCEPT ![v] = calls],
         watching' \in [Viewer -> {"closed", "open", "crashed"}]
  PROVE  ViewsInv'
<1>1. /\ views' \in [Viewer -> Seq(ScreenType)] /\ posted' \in [Viewer -> Seq(Call)]
      /\ \A w \in Viewer :
           /\ w # v => views'[w] = views[w] /\ posted'[w] = posted[w]
           /\ w = v => views'[w] = screens /\ posted'[w] = calls
  BY DEF ViewsInv, Phone
<1>2. \A w \in Viewer : Phone(views'[w], posted'[w])
  BY <1>1 DEF ViewsInv
<1> QED
  BY <1>1, <1>2 DEF ViewsInv, Phone

LEMMA EmptyPhone == Phone(<< >>, << >>)
BY DEF Phone

LEMMA GoneInv ==
  ASSUME ViewsInv, NEW v \in Viewer, NEW then \in {"closed", "crashed"}, Gone(v, then)
  PROVE  ViewsInv'
<1>1. watching' \in [Viewer -> {"closed", "open", "crashed"}]
  BY DEF Gone, ViewsInv
<1> QED
  BY <1>1, EmptyPhone, PhoneChanges DEF Gone

LEMMA CallbackInv ==
  ASSUME ViewsInv, NEW v \in Viewer, Callback(v)
  PROVE  ViewsInv'
<1> DEFINE screens == views[v]
           calls == posted[v]
           i == Head(calls).view
           t == Head(calls).document
<1>1. Phone(screens, calls) /\ calls # << >> /\ views \in [Viewer -> Seq(ScreenType)]
  BY DEF ViewsInv, Callback
<1>2. CASE Traps(screens[i], t)
  BY <1>2, GoneInv DEF Callback
<1>3. CASE ~Traps(screens[i], t)
  <2> DEFINE after == [screens EXCEPT ![i] = AfterSnapshot(@, t)]
             rest == Tail(calls)
  <2>1. Phone(after, rest)
    BY <1>1, <1>3, CalledPhone
  <2>2. /\ views' = [views EXCEPT ![v] = after]
        /\ posted' = [posted EXCEPT ![v] = rest]
        /\ watching' = watching
    BY <1>3 DEF Callback, Run
  <2> HIDE DEF after, rest
  <2> QED
    BY <2>1, <2>2, PhoneChanges DEF ViewsInv
<1> QED
  BY <1>2, <1>3

\* What a viewer's phone does.
LEMMA ViewerStepInv ==
  ASSUME SInv, NEW v \in Viewer,
         \/ OpenView(v) \/ CloseView(v) \/ RestartView(v)
         \/ Hear(v) \/ HearDeletion(v) \/ Callback(v)
  PROVE  SInv'
<1>1. /\ UNCHANGED <<hostVars, deletion>>
      /\ IInv /\ CacheInv /\ ViewsInv
  BY DEF SInv, OpenView, CloseView, RestartView, Hear, HearDeletion, Callback, Gone
<1>2. IInv' /\ deletion' \in {"none", "unsent", "done"} /\ EmptyInv'
  <2>1. UNCHANGED vars
    BY <1>1 DEF hostVars
  <2>2. IInv'
    BY <1>1, <2>1, StepInv
  <2> QED
    BY <1>1, <2>1, <2>2 DEF SInv, EmptyInv, vars
<1>3. DocumentInv(server) /\ server \in Document
  BY DEF SInv, IInv, NetworkInv, DocumentInv
<1>4. CASE OpenView(v)
  <2> DEFINE longer == Append(views[v], NewScreen)
             told == Append(posted[v], [view |-> Len(views[v]) + 1, document |-> cache[v]])
  <2>1. CacheInv'
    BY <1>1, <1>4 DEF OpenView, CacheInv, DocumentInv, AccountedFor, Once
  <2>2. /\ Phone(longer, posted[v])
        /\ cache[v] # Nothing => Phone(longer, told)
    BY <1>1, OpenedPhone DEF ViewsInv, CacheInv
  <2>3. /\ views' = [views EXCEPT ![v] = longer]
        /\ watching' \in [Viewer -> {"closed", "open", "crashed"}]
        /\ \/ cache[v] = Nothing /\ posted' = posted
           \/ cache[v] # Nothing /\ posted' = [posted EXCEPT ![v] = told]
    BY <1>1, <1>4 DEF OpenView, ViewsInv
  <2> HIDE DEF longer, told
  <2>4. posted = [posted EXCEPT ![v] = posted[v]]
    BY <1>1 DEF ViewsInv
  <2>5. ViewsInv'
    <3>1. CASE cache[v] = Nothing
      BY <1>1, <2>2, <2>3, <2>4, <3>1, PhoneChanges
    <3>2. CASE cache[v] # Nothing
      BY <1>1, <2>2, <2>3, <3>2, PhoneChanges
    <3> QED
      BY <3>1, <3>2
  <2> QED
    BY <1>2, <2>1, <2>5 DEF SInv
<1>5. CASE CloseView(v) \/ RestartView(v) \/ Callback(v)
  <2>1. CacheInv'
    BY <1>1, <1>5 DEF CloseView, RestartView, Callback, Gone, CacheInv
  <2>2. ASSUME CloseView(v)
        PROVE  ViewsInv'
    BY <1>1, <2>2 DEF CloseView, ViewsInv, Phone
  <2>3. ASSUME RestartView(v)
        PROVE  ViewsInv'
    BY <1>1, <2>3, GoneInv DEF RestartView
  <2>4. ViewsInv'
    BY <1>1, <1>5, <2>2, <2>3, CallbackInv
  <2> QED
    BY <1>2, <2>1, <2>4 DEF SInv
<1>6. CASE Hear(v)
  <2> DEFINE all == posted[v] \o Told(views[v], server)
  <2>1. /\ cache' = [cache EXCEPT ![v] = server]
        /\ posted' = [posted EXCEPT ![v] = all]
        /\ UNCHANGED <<watching, views>>
    BY <1>6 DEF Hear, Receive
  <2>2. CacheInv'
    BY <1>1, <1>3, <2>1 DEF CacheInv
  <2>3. Phone(views[v], all)
    BY <1>1, <1>3, ToldPhone DEF ViewsInv
  <2> HIDE DEF all
  <2>4. views = [views EXCEPT ![v] = views[v]] /\ watching \in [Viewer -> {"closed", "open", "crashed"}]
    BY <1>1 DEF ViewsInv
  <2>5. ViewsInv'
    BY <1>1, <2>1, <2>3, <2>4, PhoneChanges
  <2> QED
    BY <1>2, <2>2, <2>5 DEF SInv
<1>7. CASE HearDeletion(v)
  <2>1. CacheInv'
    BY <1>1, <1>7 DEF HearDeletion, CacheInv
  <2>2. ViewsInv'
    BY <1>1, <1>7 DEF HearDeletion, ViewsInv, Phone
  <2> QED
    BY <1>2, <2>1, <2>2 DEF SInv
<1> QED
  BY <1>4, <1>5, <1>6, <1>7
-----------------------------------------------------------------------------
\* What the host's phone does.  A bracket opened on a deleted tournament gets
\* no document, so it never shows a table, a cell or the alert.
LEMMA HostStepInv ==
  ASSUME SInv, HostStep, UNCHANGED <<deletion, viewerVars>>
  PROVE  SInv' /\ (deletion # "none" => ~NextRound)
<1>1. IInv /\ EmptyInv
  BY DEF SInv
<1>2. CASE HostOpen /\ deletion # "none"
  <2>1. /\ phase = "closed" /\ phase' = "open"
        /\ UNCHANGED <<network, snapshots, screen, cells, winnerSelectedCount, alert>>
    BY <1>2 DEF HostOpen
  <2>2. ScreenInv(screen') /\ CellsInv' /\ NetworkInv'
    BY <1>1, <2>1, ScreenStays, NetworkStays DEF IInv, cells, network
  <2>3. IInv' /\ EmptyInv'
    BY <1>1, <1>2, <2>1, <2>2 DEF IInv, AlertInv, EmptyInv
  <2> QED
    BY <2>1, <2>3 DEF SInv, CacheInv, ViewsInv, viewerVars, NextRound
<1>3. CASE \/ Open /\ deletion = "none"
           \/ Close \/ Snapshot \/ Scroll \/ Press \/ NextRound \/ ReturnToCurrentRound \/ Commit
  <2>1. IInv'
    BY <1>1, <1>3, StepInv DEF Next
  <2>2. HasTable(screen) => screen.initialized
    BY <1>1 DEF IInv, ScreenInv, HasTable
  <2>3. alert => screen.initialized
    BY <1>1 DEF IInv, AlertInv
  <2>4. EmptyInv'
    <3>1. CASE Open /\ deletion = "none"
      BY <3>1 DEF Open, EmptyInv
    <3>2. CASE Close
      BY <3>2 DEF Close, EmptyInv, NewScreen
    <3>3. CASE Snapshot
      BY <1>1, <3>3 DEF Snapshot, EmptyInv
    <3>4. CASE Scroll \/ ReturnToCurrentRound \/ Commit
      BY <1>1, <3>4 DEF Scroll, ReturnToCurrentRound, Commit, EmptyInv
    <3>5. CASE Press
      <4>1. screen.initialized
        BY <1>1, <2>2, <3>5 DEF Press, IInv, CellsInv
      <4>2. phase' = "open"
        BY <3>5 DEF Press, Group1Button, Group2Button, Select
      <4> QED
        BY <1>1, <4>1, <4>2 DEF EmptyInv
    <3>6. CASE NextRound
      BY <1>1, <2>3, <3>6 DEF NextRound, EmptyInv
    <3> QED
      BY <1>3, <3>1, <3>2, <3>3, <3>4, <3>5, <3>6
  <2>5. deletion # "none" => ~NextRound
    BY <1>1, <2>3 DEF EmptyInv, NextRound
  <2> QED
    BY <2>1, <2>4, <2>5 DEF SInv, CacheInv, ViewsInv, viewerVars
<1> QED
  BY <1>2, <1>3 DEF HostStep, HostOpen

LEMMA SStep == SInv /\ [SNext]_allVars => SInv'
<1> SUFFICES ASSUME SInv, [SNext]_allVars
             PROVE  SInv'
  OBVIOUS
<1>1. CASE DeleteTournament \/ CommitDeletion \/ UNCHANGED allVars
  <2>1. UNCHANGED <<vars, cache, watching, views, posted>> /\ deletion' \in {"none", "unsent", "done"}
        /\ (deletion' = "none" \/ deletion # "none" \/ phase = "closed")
    BY <1>1 DEF DeleteTournament, CommitDeletion, allVars, hostVars, viewerVars, SInv
  <2>2. IInv'
    BY <2>1, StepInv DEF SInv
  <2>3. EmptyInv'
    BY <2>1 DEF SInv, EmptyInv, vars
  <2> QED
    BY <2>1, <2>2, <2>3 DEF SInv, CacheInv, ViewsInv
<1> QED
  BY <1>1, HostStepInv, ViewerStepInv DEF SNext

LEMMA SInitInv ==
  ASSUME SInit
  PROVE  SInv
<1>1. IInv
  BY InitInv DEF SInit
<1>2. CacheInv /\ ViewsInv
  BY DEF SInit, CacheInv, ViewsInv, Phone
<1>3. EmptyInv
  BY DEF SInit, Init, EmptyInv, NewScreen
<1> QED
  BY <1>1, <1>2, <1>3 DEF SInit, SInv

LEMMA SInvAlways == SSpec => []SInv
<1>1. SInit => SInv
  BY SInitInv
<1> QED
  BY <1>1, SStep, PTL DEF SSpec

LEMMA Retyped ==
  ASSUME NEW T, NEW U, NEW list \in Seq(T), \A n \in 1..Len(list) : list[n] \in U
  PROVE  list \in Seq(U)
OBVIOUS

LEMMA PhoneTypes ==
  ASSUME NEW screens, NEW calls, Phone(screens, calls)
  PROVE  /\ \A i \in 1..Len(screens) :
              /\ screens[i].initialized \in BOOLEAN /\ screens[i].currRound \in Nat
              /\ screens[i].tournament \in Document
              /\ screens[i].tables \in Seq(Tables)
         /\ calls \in Seq([view : 1..Len(screens), document : Document])
<1>1. \A i \in 1..Len(screens) : ScreenInv(screens[i])
  BY DEF Phone
<1> DEFINE T == Call
           U == [view : 1..Len(screens), document : Document]
<1>2. calls \in Seq(T)
  BY DEF Phone
<1>3. ASSUME NEW n \in 1..Len(calls)
      PROVE  calls[n] \in U
  <2>1. calls[n] \in T
    <3> HIDE DEF T
    <3> QED
      BY <1>2
  <2>2. calls[n].view \in 1..Len(screens) /\ calls[n].document \in Document
    BY DEF Phone, DocumentInv
  <2>3. calls[n] = [view |-> calls[n].view, document |-> calls[n].document]
    BY <2>1 DEF Call
  <2> QED
    BY <2>2, <2>3
<1>4. calls \in Seq(U)
  <2> HIDE DEF T, U
  <2> QED
    BY <1>2, <1>3, Retyped
<1> QED
  BY <1>1, <1>4 DEF ScreenInv

\* STypeOK: the caches of the viewers hold documents or nothing, and every
\* bracket they opened, on screen or left, is a screen whose rows have groups.
THEOREM ViewersTypeCorrect == SSpec => []STypeOK
<1>1. ASSUME SInv
      PROVE  STypeOK
  <2>1. TypeOK
    BY <1>1 DEF SInv, IInv, ScreenInv, CellsInv, CellInv, AlertInv, NetworkInv, DocumentInv, TypeOK
  <2>2. ASSUME NEW v \in Viewer
        PROVE  /\ \A i \in DOMAIN views[v] :
                    /\ views[v][i].initialized \in BOOLEAN /\ views[v][i].currRound \in Nat
                    /\ views[v][i].tournament \in Document
                    /\ views[v][i].tables \in Seq(Tables)
               /\ posted[v] \in Seq([view : DOMAIN views[v], document : Document])
    <3>1. Phone(views[v], posted[v])
      BY <1>1 DEF SInv, ViewsInv
    <3>2. DOMAIN views[v] = 1..Len(views[v])
      BY <3>1 DEF Phone
    <3> QED
      BY <3>1, <3>2, PhoneTypes
  <2> QED
    BY <1>1, <2>1, <2>2 DEF SInv, CacheInv, ViewsInv, STypeOK
<1> QED
  BY <1>1, SInvAlways, PTL

\* The steps of the host's phone that write are a "Yes" and the network's.
LEMMA WritesShrink ==
  ASSUME SInv, SNext, deletion # "none"
  PROVE  Len(unsent') <= Len(unsent)
<1>1. unsent \in Seq(Document) /\ Len(unsent) \in Nat
  BY DEF SInv, IInv, NetworkInv
<1>2. CASE UNCHANGED unsent
  BY <1>1, <1>2
<1>3. CASE HostStep /\ UNCHANGED <<deletion, viewerVars>>
  <2>1. ~NextRound
    BY <1>3, HostStepInv
  <2>2. CASE Commit
    BY <1>1, <2>2 DEF Commit
  <2>3. CASE ~Commit
    <3>1. UNCHANGED unsent
      BY <1>3, <2>1, <2>3 DEF HostStep, HostOpen, Open, Close, Snapshot, Scroll, Press,
         Group1Button, Group2Button, Select, ReturnToCurrentRound, network
    <3> QED
      BY <1>2, <3>1
  <2> QED
    BY <2>2, <2>3
<1>4. CASE DeleteTournament \/ CommitDeletion
  BY <1>2, <1>4 DEF DeleteTournament, CommitDeletion, hostVars, vars
<1>5. ASSUME NEW v \in Viewer,
             \/ OpenView(v) \/ CloseView(v) \/ RestartView(v)
             \/ Hear(v) \/ HearDeletion(v) \/ Callback(v)
      PROVE  UNCHANGED unsent
  BY <1>5 DEF OpenView, CloseView, RestartView, Hear, HearDeletion, Callback, Gone, hostVars, vars
<1> QED
  BY <1>2, <1>3, <1>4, <1>5 DEF SNext

\* DeletedForGood: once the host has deleted the tournament, nothing on the
\* host's phone stores it again, whatever row of the table is still touched and
\* however its bracket is opened, left and opened again.
THEOREM DeletedStaysDeleted == SSpec => DeletedForGood
<1>1. SInv /\ [SNext]_allVars => [deletion # "none" => Len(unsent') <= Len(unsent)]_allVars
  BY WritesShrink
<1> QED
  BY <1>1, SInvAlways, PTL DEF SSpec, DeletedForGood
-----------------------------------------------------------------------------
(* The order of what the viewers see, with a host who never answers "No".    *)

Lists(t) == Len(t.roundList)

\* What a client has is the database's document or has fewer lists.
KnownInv ==
  \A v \in Viewer : cache[v] # Nothing =>
    /\ StoredInv(cache[v])
    /\ Len(cache[v].roundList) <= Len(server.roundList)
    /\ Len(cache[v].roundList) = Len(server.roundList) => cache[v] = server

\* A bracket shows nothing yet, or what a new one would on its document; each
\* callback on it brings more lists than the one before.
InOrder(screens, calls, most) ==
  /\ \A i \in 1..Len(screens) :
       IF screens[i].initialized
         THEN /\ StoredInv(screens[i].tournament) /\ Lists(screens[i].tournament) <= most
              /\ screens[i] = AfterSnapshot(NewScreen, screens[i].tournament)
         ELSE screens[i] = NewScreen
  /\ \A n \in 1..Len(calls) :
       /\ StoredInv(calls[n].document) /\ Lists(calls[n].document) <= most
       /\ screens[calls[n].view].initialized =>
            Lists(screens[calls[n].view].tournament) < Lists(calls[n].document)
  /\ \A m, n \in 1..Len(calls) :
       m < n /\ calls[m].view = calls[n].view => Lists(calls[m].document) < Lists(calls[n].document)

\* Nothing is newer than the document a client knows, and every bracket shows it
\* or has yet to be called with it.
Towards(screens, calls, known) ==
  /\ \A i \in 1..Len(screens) :
       screens[i].initialized => Lists(screens[i].tournament) <= Lists(known)
  /\ \A n \in 1..Len(calls) : Lists(calls[n].document) <= Lists(known)
  /\ \A i \in 1..Len(screens) :
       \/ screens[i].initialized /\ screens[i].tournament = known
       \/ \E n \in 1..Len(calls) : calls[n].view = i /\ calls[n].document = known

Blank(screens, calls) ==
  calls = << >> /\ \A i \in 1..Len(screens) : ~screens[i].initialized

BracketsInv == \A v \in Viewer : InOrder(views[v], posted[v], Lists(server))

\* A client that knows no document never did, or the tournament is deleted.
FollowInv ==
  \A v \in Viewer :
    IF cache[v] # Nothing THEN Towards(views[v], posted[v], cache[v])
    ELSE deletion = "done" \/ Blank(views[v], posted[v])

SOInv == SInv /\ OInv /\ KnownInv /\ BracketsInv /\ FollowInv
-----------------------------------------------------------------------------
\* A version whose snapshot does not trap a bracket that is behind makes of it
\* what it makes of a new one: the bracket is one list behind, or shows all the
\* rounds already.
LEMMA NothingSkipped ==
  ASSUME NEW t, StoredInv(t), DocumentInv(t), NEW d, StoredInv(d), DocumentInv(d),
         Len(t.roundList) < Len(d.roundList),
         NEW s, ScreenInv(s), s = AfterSnapshot(NewScreen, t), ~Traps(s, d)
  PROVE  AfterSnapshot(s, d) = AfterSnapshot(NewScreen, d)
<1> DEFINE n == Len(t.roundList)
           m == Len(d.roundList)
           r == RoundOf(n)
           old == s.tables
<1>1. /\ n \in Nat /\ n >= 1 /\ m \in Nat /\ n < m
      /\ CurrentRound(s, d) = RoundOf(m)
      /\ m <= LastRound => RoundsLeft(d) = {m}
      /\ m > LastRound => RoundsLeft(d) = {}
  BY CurrentRoundIs
<1>2. /\ s.initialized /\ DOMAIN old = 1..r
      /\ \A i \in 1..r : old[i].rows = Rows(i)
  <2> DEFINE new == NewScreen
  <2>1. ScreenInv(new) /\ (new.initialized => FALSE) /\ n = Len(t.roundList)
    BY NewScreenFacts DEF NewScreen
  <2> HIDE DEF new, n
  <2>2. /\ AfterSnapshot(new, t).initialized
        /\ DOMAIN AfterSnapshot(new, t).tables = 1..RoundOf(n)
        /\ \A i \in 1..RoundOf(n) : AfterSnapshot(new, t).tables[i].rows = Rows(i)
    BY <2>1, TablesAfter
  <2> QED
    BY <2>2 DEF new
<1> HIDE DEF n, m, old
<1>3. r \in 1..LastRound /\ LastRound \in Nat /\ (n <= LastRound => r = n)
      /\ (n > LastRound => r = LastRound)
  BY <1>1, RoundOfFacts, RoundNumbers
<1> HIDE DEF r
<1>4. Len(old) = r
  <2>1. old \in Seq(Tables)
    BY DEF ScreenInv, old
  <2>2. 1..Len(old) = 1..r /\ Len(old) \in Nat
    BY <1>2, <2>1
  <2> DEFINE l == Len(old)
  <2>3. 1..l = 1..r /\ l \in Nat
    BY <2>2
  <2>4. r \in Nat
    BY <1>3
  <2> HIDE DEF l
  <2>5. l = r
    BY <2>3, <2>4
  <2> QED
    BY <2>5 DEF l
<1> DEFINE size == Cardinality(NewRounds(s, d))
           new == [k \in 1..size |-> Table(d, (CurrentRound(s, d) - size) + k)]
<1>5. size \in Nat => Len(TablesMade(s, d)) = r + size
  <2> SUFFICES ASSUME size \in Nat
               PROVE  Len(TablesMade(s, d)) = r + size
    OBVIOUS
  <2>1. TablesMade(s, d) = old \o new
    BY DEF TablesMade, old
  <2> DEFINE entry(k) == Table(d, (CurrentRound(s, d) - size) + k)
             k0 == size
             any == {entry(k) : k \in 1..k0} \cup {old[i] : i \in 1..r}
  <2>2. k0 \in Nat /\ \A k \in 1..k0 : entry(k) \in any
    OBVIOUS
  <2>3. new \in Seq(any) /\ Len(new) = k0
    <3> HIDE DEF any, entry, k0
    <3>1. [k \in 1..k0 |-> entry(k)] \in Seq(any) /\ Len([k \in 1..k0 |-> entry(k)]) = k0
      BY <2>2
    <3> QED
      BY <3>1 DEF entry, k0
  <2>4. old \in Seq(any)
    <3>1. old \in Seq(Tables) /\ \A i \in 1..r : old[i] \in any
      BY DEF ScreenInv, old
    <3> HIDE DEF any
    <3> QED
      BY <1>2, <1>4, <3>1
  <2> HIDE DEF any, new, k0
  <2>5. Len(old \o new) = Len(old) + Len(new)
    BY <2>3, <2>4, Joined
  <2> QED
    BY <1>4, <2>1, <2>3, <2>5 DEF k0
<1> HIDE DEF size, new
<1>6. r = RoundOf(m - 1)
  <2>1. ~(RoundOf(m) > Len(TablesMade(s, d)))
    BY <1>1 DEF Traps
  <2>2. CASE m <= LastRound
    <3>1. NewRounds(s, d) = {RoundOf(m)} /\ RoundOf(m) = m
      BY <1>1, <1>2, <2>2 DEF NewRounds, RoundOf
    <3>2. size = 1
      BY <3>1, FS_Singleton DEF size
    <3>3. Len(TablesMade(s, d)) = r + 1
      BY <1>5, <3>2
    <3>4. r = n /\ m - 1 = n /\ n <= LastRound
      BY <1>1, <1>3, <2>1, <2>2, <3>1, <3>3
    <3> QED
      BY <3>4 DEF RoundOf
  <2>3. CASE m > LastRound
    <3>1. NewRounds(s, d) = {} /\ RoundOf(m) = LastRound
      BY <1>1, <1>2, <2>3 DEF NewRounds, RoundOf
    <3>2. size = 0
      BY <3>1, FS_EmptySet DEF size
    <3>3. Len(TablesMade(s, d)) = r + 0
      BY <1>5, <3>2
    <3>4. r = LastRound
      BY <1>1, <1>3, <2>1, <2>3, <3>1, <3>3
    <3> DEFINE before == m - 1
    <3>5. before >= LastRound /\ before \in Nat
      BY <1>1, <1>3, <2>3
    <3> HIDE DEF before
    <3>6. RoundOf(before) = LastRound
      BY <1>3, <3>5 DEF RoundOf
    <3> QED
      BY <3>4, <3>6 DEF before
  <2> QED
    BY <1>1, <1>3, <2>2, <2>3
<1> DEFINE one == AfterSnapshot(s, d)
           two == AfterSnapshot(NewScreen, d)
<1>7. /\ one.tournament = d /\ one.currRound = RoundOf(m) /\ one.initialized
      /\ DOMAIN one.tables = 1..RoundOf(m)
      /\ \A i \in 1..RoundOf(m) : one.tables[i].rows = Rows(i) /\ one.tables[i].groups = d.roundList[i]
  <2>1. /\ s.initialized /\ m > 1 /\ DOMAIN s.tables = 1..RoundOf(m - 1)
        /\ \A i \in DOMAIN s.tables : s.tables[i].rows = Rows(i)
    BY <1>1, <1>2, <1>6 DEF old
  <2>2. m = Len(d.roundList)
    BY DEF m
  <2> DEFINE shows == s
  <2>3. /\ ScreenInv(shows)
        /\ shows.initialized =>
             m > 1 /\ DOMAIN shows.tables = 1..RoundOf(m - 1)
             /\ \A i \in DOMAIN shows.tables : shows.tables[i].rows = Rows(i)
    BY <2>1
  <2> HIDE DEF shows
  <2> HIDE DEF m
  <2>4. /\ AfterSnapshot(shows, d).tournament = d
        /\ AfterSnapshot(shows, d).currRound = RoundOf(m)
        /\ AfterSnapshot(shows, d).initialized
        /\ DOMAIN AfterSnapshot(shows, d).tables = 1..RoundOf(m)
        /\ \A i \in 1..RoundOf(m) :
             /\ AfterSnapshot(shows, d).tables[i].rows = Rows(i)
             /\ AfterSnapshot(shows, d).tables[i].groups = d.roundList[i]
    BY <2>2, <2>3, TablesAfter
  <2> QED
    BY <2>4 DEF shows
<1>8. /\ two.tournament = d /\ two.currRound = RoundOf(m) /\ two.initialized
      /\ DOMAIN two.tables = 1..RoundOf(m)
      /\ \A i \in 1..RoundOf(m) : two.tables[i].rows = Rows(i) /\ two.tables[i].groups = d.roundList[i]
      /\ ~Traps(NewScreen, d)
  <2> DEFINE fresh == NewScreen
  <2>1. ScreenInv(fresh) /\ (fresh.initialized => FALSE) /\ m = Len(d.roundList)
    BY NewScreenFacts DEF NewScreen, m
  <2> HIDE DEF fresh
  <2>2. /\ AfterSnapshot(fresh, d).tournament = d
        /\ AfterSnapshot(fresh, d).currRound = RoundOf(m)
        /\ AfterSnapshot(fresh, d).initialized
        /\ DOMAIN AfterSnapshot(fresh, d).tables = 1..RoundOf(m)
        /\ \A i \in 1..RoundOf(m) :
             /\ AfterSnapshot(fresh, d).tables[i].rows = Rows(i)
             /\ AfterSnapshot(fresh, d).tables[i].groups = d.roundList[i]
        /\ ~Traps(fresh, d)
    BY <2>1, TablesAfter
  <2> QED
    BY <2>2 DEF fresh
<1>9. ScreenInv(one) /\ ScreenInv(two)
  BY <1>8, NewScreenFacts, SnapshotKeepsScreen
<1> HIDE DEF one, two
<1>10. one.tables = two.tables
  <2> DEFINE n1 == RoundOf(m)
             f == one.tables
             g == two.tables
  <2>1. f \in Seq(Tables) /\ g \in Seq(Tables)
    BY <1>9 DEF ScreenInv
  <2>2. DOMAIN f = 1..n1 /\ DOMAIN g = 1..n1
    BY <1>7, <1>8
  <2>3. \A i \in 1..n1 : f[i].rows = g[i].rows /\ f[i].groups = g[i].groups
    BY <1>7, <1>8
  <2> HIDE DEF n1, f, g
  <2>4. \A a, b \in Tables : a.rows = b.rows /\ a.groups = b.groups => a = b
    BY DEF Tables
  <2>5. \A i \in 1..n1 : f[i] \in Tables /\ g[i] \in Tables
    <3> DEFINE T == Tables
    <3>1. f \in Seq(T) /\ g \in Seq(T)
      BY <2>1
    <3> HIDE DEF T
    <3>2. \A i \in DOMAIN f : f[i] \in T
      BY <3>1
    <3>3. \A i \in DOMAIN g : g[i] \in T
      BY <3>1
    <3> QED
      BY <2>2, <3>2, <3>3 DEF T
  <2>6. \A i \in 1..n1 : f[i] = g[i]
    BY <2>3, <2>4, <2>5
  <2>7. f = [i \in DOMAIN f |-> f[i]] /\ g = [i \in DOMAIN g |-> g[i]]
    BY <2>1
  <2>8. f = g
    BY <2>2, <2>6, <2>7
  <2> QED
    BY <2>8 DEF f, g
<1>11. one = two
  <2>1. one \in ScreenType /\ two \in ScreenType
    BY <1>9 DEF ScreenInv, ScreenType
  <2>2. one.initialized = two.initialized
    BY <1>7, <1>8, <2>1 DEF ScreenType
  <2> QED
    BY <1>7, <1>8, <1>10, <2>1, <2>2 DEF ScreenType
<1> QED
  BY <1>11 DEF one, two
\* The versions in the client's queue are one list apart, so the last has one
\* more for each of them.
LEMMA QueueGrows ==
  ASSUME NetworkInv, ClientInv
  PROVE  Len(server.roundList) <= Len(LocalDocument.roundList)
<1> DEFINE n == Len(unsent)
           lists(i) == Len(unsent[i].roundList)
           wrong == {i \in 1..n : lists(i) < Len(server.roundList)}
<1>1. /\ unsent \in Seq(Document) /\ n \in Nat /\ DOMAIN unsent = 1..n
      /\ Len(server.roundList) \in Nat
      /\ \A i \in 1..n : lists(i) \in Nat
  <2>1. unsent \in Seq(Document) /\ n \in Nat /\ DOMAIN unsent = 1..n
    BY DEF NetworkInv
  <2>2. \A t \in Document : Len(t.roundList) \in Nat
    BY DEF Document
  <2>3. server \in Document /\ \A i \in 1..n : unsent[i] \in Document
    BY <2>1 DEF NetworkInv, DocumentInv
  <2> QED
    BY <2>1, <2>2, <2>3
<1>2. ASSUME NEW i \in 1..n
      PROVE  /\ i = 1 => lists(i) = Len(server.roundList) + 1
             /\ i # 1 => i - 1 \in 1..n /\ lists(i) = lists(i - 1) + 1
  <2>1. OneListMore((IF i = 1 THEN server ELSE unsent[i - 1]).roundList, unsent[i].roundList)
    BY <1>1 DEF ClientInv
  <2> QED
    BY <1>1, <2>1 DEF OneListMore
<1> HIDE DEF lists
<1>3. wrong = {}
  <2> SUFFICES ASSUME wrong # {}
               PROVE  FALSE
    OBVIOUS
  <2>1. wrong \in SUBSET Nat
    OBVIOUS
  <2>2. PICK least \in wrong : \A i \in wrong : least <= i
    <3> HIDE DEF wrong
    <3> QED
      BY <2>1, LeastOf
  <2>3. least \in 1..n /\ lists(least) < Len(server.roundList)
    OBVIOUS
  <2>4. least # 1
    BY <1>1, <1>2, <2>3
  <2>5. least - 1 \in 1..n /\ lists(least) = lists(least - 1) + 1
    BY <1>2, <2>3, <2>4
  <2>6. least - 1 \in wrong
    BY <1>1, <2>3, <2>5
  <2>7. least <= least - 1
    BY <2>2, <2>6
  <2> QED
    BY <2>3, <2>7
<1>4. CASE n = 0
  <2>1. unsent = << >>
    BY <1>1, <1>4
  <2> QED
    BY <1>1, <2>1 DEF LocalDocument
<1>5. CASE n # 0
  <2>1. n \in 1..n /\ unsent # << >>
    BY <1>1, <1>5
  <2>2. ~(lists(n) < Len(server.roundList))
    BY <1>3, <2>1
  <2>3. Len(LocalDocument.roundList) = lists(n)
    BY <2>1 DEF LocalDocument, lists
  <2> QED
    BY <1>1, <2>1, <2>2, <2>3
<1> QED
  BY <1>4, <1>5

\* The host's phone keeps its order when the bracket of a deleted tournament is
\* opened, too.
LEMMA HostStepOrderly ==
  ASSUME FieldFits, SInv, OInv, HostStep, ~ReturnToCurrentRound
  PROVE  OInv'
<1>1. IInv /\ EmptyInv
  BY DEF SInv
<1>2. CASE HostOpen /\ deletion # "none"
  <2>1. /\ phase = "closed" /\ phase' = "open"
        /\ UNCHANGED <<server, unsent, snapshots, screen, winnerSelectedCount, alert>>
    BY <1>2 DEF HostOpen, network
  <2>2. ~screen.initialized /\ snapshots = << >>
    BY <1>1, <2>1 DEF EmptyInv
  <2>3. ClientInv'
    BY <2>1 DEF OInv, ClientInv
  <2>4. BlankInv'
    BY <2>1, <2>2 DEF OInv, BlankInv
  <2> QED
    BY <2>1, <2>2, <2>3, <2>4 DEF OInv
<1>3. CASE ~(HostOpen /\ deletion # "none")
  <2>1. Next
    BY <1>3 DEF HostStep, HostOpen, Next
  <2> QED
    BY <1>1, <2>1, StepOrderly
<1> QED
  BY <1>2, <1>3

\* The host's phone changes the database by one list at a time.
LEMMA ServerGrows ==
  ASSUME SInv, OInv, HostStep, UNCHANGED <<deletion, viewerVars>>
  PROVE  \/ server' = server
         \/ Len(server'.roundList) = Len(server.roundList) + 1
            /\ Len(server.roundList) \in Nat
<1>1. CASE Commit
  <2>1. /\ unsent \in Seq(Document) /\ unsent # << >> /\ server' = Head(unsent)
    BY <1>1 DEF Commit, SInv, IInv, NetworkInv
  <2>2. 1 \in DOMAIN unsent /\ server' = unsent[1]
    BY <2>1
  <2>3. OneListMore(server.roundList, server'.roundList)
    BY <2>2 DEF OInv, ClientInv
  <2>4. server.roundList \in Seq(Seq(Group))
    BY DEF SInv, IInv, NetworkInv, DocumentInv, Document
  <2> QED
    BY <2>3, <2>4 DEF OneListMore
<1>2. CASE ~Commit
  BY <1>2 DEF HostStep, HostOpen, Open, Close, Snapshot, Scroll, Press, Group1Button, Group2Button,
     Select, NextRound, ReturnToCurrentRound, network
<1> QED
  BY <1>1, <1>2

-----------------------------------------------------------------------------
LEMMA ListsNumber ==
  /\ \A t : DocumentInv(t) => Lists(t) \in Nat
  /\ \A screens, calls : Phone(screens, calls) =>
       /\ Len(screens) \in Nat /\ Len(calls) \in Nat
       /\ \A i \in 1..Len(screens) : Lists(screens[i].tournament) \in Nat
       /\ \A n \in 1..Len(calls) : Lists(calls[n].document) \in Nat
<1>1. \A t \in Document : Lists(t) \in Nat
  BY DEF Document, Lists
<1>2. \A t : DocumentInv(t) => Lists(t) \in Nat
  BY <1>1 DEF DocumentInv
<1>3. ASSUME NEW screens, NEW calls, Phone(screens, calls)
      PROVE  /\ Len(screens) \in Nat /\ Len(calls) \in Nat
             /\ \A i \in 1..Len(screens) : Lists(screens[i].tournament) \in Nat
             /\ \A n \in 1..Len(calls) : Lists(calls[n].document) \in Nat
  <2>1. \A i \in 1..Len(screens) : screens[i].tournament \in Document
    BY <1>3, PhoneTypes
  <2>2. \A n \in 1..Len(calls) : DocumentInv(calls[n].document)
    BY <1>3 DEF Phone
  <2>3. Len(screens) \in Nat /\ Len(calls) \in Nat
    BY <1>3 DEF Phone
  <2> QED
    BY <1>1, <1>2, <2>1, <2>2, <2>3
<1> QED
  BY <1>2, <1>3

\* A document newer than all a phone has.
LEMMA ToldOrder ==
  ASSUME NEW screens, NEW calls, Phone(screens, calls),
         NEW t, DocumentInv(t), StoredInv(t), InOrder(screens, calls, Lists(t)),
         \A i \in 1..Len(screens) :
           screens[i].initialized => Lists(screens[i].tournament) < Lists(t),
         \A n \in 1..Len(calls) : Lists(calls[n].document) < Lists(t)
  PROVE  /\ InOrder(screens, calls \o Told(screens, t), Lists(t))
         /\ Towards(screens, calls \o Told(screens, t), t)
<1> DEFINE all == calls \o Told(screens, t)
           l == Len(calls)
           k == Len(screens)
<1>1. t \in Document
  BY DEF DocumentInv
<1>2. /\ Len(all) = l + k
      /\ \A n \in 1..l : all[n] = calls[n]
      /\ \A n \in 1..(l + k) : n > l => all[n].view = n - l /\ all[n].document = t
  BY <1>1, ToldCalls
<1>3. /\ l \in Nat /\ k \in Nat /\ Lists(t) \in Nat
      /\ \A i \in 1..k : Lists(screens[i].tournament) \in Nat
      /\ \A n \in 1..l : Lists(calls[n].document) \in Nat
  BY ListsNumber
<1> HIDE DEF all, l, k
<1>4. ASSUME NEW n \in 1..(l + k)
      PROVE  \/ n \in 1..l /\ all[n] = calls[n]
             \/ n > l /\ n - l \in 1..k /\ all[n].view = n - l /\ all[n].document = t
  BY <1>2, <1>3
<1>5. ASSUME NEW n \in 1..Len(all)
      PROVE  /\ StoredInv(all[n].document) /\ Lists(all[n].document) <= Lists(t)
             /\ screens[all[n].view].initialized =>
                  Lists(screens[all[n].view].tournament) < Lists(all[n].document)
  <2>1. CASE n \in 1..l /\ all[n] = calls[n]
    BY <2>1 DEF InOrder, l
  <2>2. CASE n > l /\ n - l \in 1..k /\ all[n].view = n - l /\ all[n].document = t
    BY <1>3, <2>2 DEF k
  <2> QED
    BY <1>2, <1>4, <2>1, <2>2
<1>6. ASSUME NEW m \in 1..Len(all), NEW n \in 1..Len(all), m < n, all[m].view = all[n].view
      PROVE  Lists(all[m].document) < Lists(all[n].document)
  <2>1. CASE n \in 1..l
    <3>1. m \in 1..l
      BY <1>3, <1>6, <2>1
    <3>2. all[m] = calls[m] /\ all[n] = calls[n]
      BY <1>2, <2>1, <3>1
    <3> QED
      BY <1>6, <2>1, <3>1, <3>2 DEF InOrder, l
  <2>2. CASE n \notin 1..l
    <3>1. n > l /\ all[n].view = n - l /\ all[n].document = t
      BY <1>2, <1>4, <2>2
    <3>2. m \in 1..l /\ all[m] = calls[m]
      <4>1. ~(m > l /\ all[m].view = m - l)
        BY <1>2, <1>3, <1>6, <3>1
      <4> QED
        BY <1>2, <1>4, <4>1
    <3> QED
      BY <3>1, <3>2 DEF l
  <2> QED
    BY <2>1, <2>2
<1>7. InOrder(screens, all, Lists(t))
  <2>1. \A i \in 1..Len(screens) :
          IF screens[i].initialized
            THEN /\ StoredInv(screens[i].tournament) /\ Lists(screens[i].tournament) <= Lists(t)
                 /\ screens[i] = AfterSnapshot(NewScreen, screens[i].tournament)
            ELSE screens[i] = NewScreen
    BY DEF InOrder
  <2> QED
    BY <1>5, <1>6, <2>1 DEF InOrder
<1>8. Towards(screens, all, t)
  <2>1. ASSUME NEW i \in 1..Len(screens)
        PROVE  \E n \in 1..Len(all) : all[n].view = i /\ all[n].document = t
    <3>1. l + i \in 1..(l + k) /\ l + i > l /\ (l + i) - l = i
      BY <1>3 DEF k
    <3> QED
      BY <1>2, <3>1
  <2>2. \A i \in 1..Len(screens) :
          screens[i].initialized => Lists(screens[i].tournament) <= Lists(t)
    BY <1>3 DEF k
  <2> QED
    BY <1>5, <2>1, <2>2 DEF Towards
<1> QED
  BY <1>7, <1>8 DEF all

\* A new bracket, and its first callback.
LEMMA OpenedOrder ==
  ASSUME NEW screens, NEW calls, Phone(screens, calls), NEW most, InOrder(screens, calls, most)
  PROVE  /\ InOrder(Append(screens, NewScreen), calls, most)
         /\ Blank(screens, calls) => Blank(Append(screens, NewScreen), calls)
         /\ \A t : DocumentInv(t) /\ StoredInv(t) /\ Lists(t) <= most /\ Towards(screens, calls, t) =>
              LET all == Append(calls, [view |-> Len(screens) + 1, document |-> t])
              IN  InOrder(Append(screens, NewScreen), all, most)
                  /\ Towards(Append(screens, NewScreen), all, t)
<1> DEFINE new == NewScreen
           longer == Append(screens, new)
           k == Len(screens)
           l == Len(calls)
<1>1. /\ screens \in Seq(ScreenType) /\ calls \in Seq(Call) /\ new \in ScreenType
      /\ ~new.initialized /\ k \in Nat /\ l \in Nat
      /\ \A n \in 1..l : calls[n].view \in 1..k
  BY NewScreenFacts DEF Phone, NewScreen
<1>2. /\ Len(longer) = k + 1 /\ longer[k + 1] = new
      /\ \A i \in 1..k : longer[i] = screens[i]
  <2> DEFINE T == ScreenType
  <2>1. screens \in Seq(T) /\ new \in T
    BY <1>1
  <2> HIDE DEF T, new
  <2> QED
    BY <2>1, Appended
<1>3. new = NewScreen
  OBVIOUS
<1> HIDE DEF longer, new
<1>4. \A i \in 1..(k + 1) : i = k + 1 \/ i \in 1..k
  BY <1>1
<1>5. InOrder(longer, calls, most)
  <2>1. ASSUME NEW i \in 1..Len(longer)
        PROVE  IF longer[i].initialized
                 THEN /\ StoredInv(longer[i].tournament) /\ Lists(longer[i].tournament) <= most
                      /\ longer[i] = AfterSnapshot(NewScreen, longer[i].tournament)
                 ELSE longer[i] = NewScreen
    <3>1. CASE i = k + 1
      BY <1>1, <1>2, <1>3, <3>1
    <3>2. CASE i \in 1..k
      BY <1>2, <3>2 DEF InOrder
    <3> QED
      BY <1>2, <1>4, <3>1, <3>2
  <2>2. \A n \in 1..l : longer[calls[n].view] = screens[calls[n].view]
    BY <1>1, <1>2
  <2> QED
    BY <2>1, <2>2 DEF InOrder
<1>6. Blank(screens, calls) => Blank(longer, calls)
  BY <1>1, <1>2, <1>4 DEF Blank
<1>7. ASSUME NEW t, DocumentInv(t), StoredInv(t), Lists(t) <= most, Towards(screens, calls, t)
      PROVE  LET all == Append(calls, [view |-> k + 1, document |-> t])
             IN  InOrder(longer, all, most) /\ Towards(longer, all, t)
  <2> DEFINE call == [view |-> k + 1, document |-> t]
             all == Append(calls, call)
  <2>1. call.view = k + 1 /\ call.document = t /\ call \in Call
    BY <1>1, <1>7 DEF Call, DocumentInv
  <2> HIDE DEF call
  <2>2. /\ Len(all) = l + 1 /\ all[l + 1] = call
        /\ \A n \in 1..l : all[n] = calls[n]
    <3> DEFINE T == Call
    <3>1. calls \in Seq(T) /\ call \in T
      BY <1>1, <2>1
    <3> HIDE DEF T
    <3> QED
      BY <3>1, Appended
  <2> HIDE DEF all
  <2>3. Lists(t) \in Nat /\ \A n \in 1..l : Lists(calls[n].document) \in Nat
    BY <1>7, ListsNumber
  <2>4. ASSUME NEW n \in 1..Len(all)
        PROVE  \/ n = l + 1 /\ all[n] = call
               \/ n \in 1..l /\ all[n] = calls[n]
    BY <1>1, <2>2
  <2>5. ASSUME NEW n \in 1..Len(all)
        PROVE  /\ StoredInv(all[n].document) /\ Lists(all[n].document) <= most
               /\ Lists(all[n].document) <= Lists(t)
               /\ longer[all[n].view].initialized =>
                    Lists(longer[all[n].view].tournament) < Lists(all[n].document)
    <3>1. CASE all[n] = call
      BY <1>1, <1>2, <1>7, <2>1, <2>3, <3>1
    <3>2. CASE n \in 1..l /\ all[n] = calls[n]
      <4>1. longer[calls[n].view] = screens[calls[n].view]
        BY <1>1, <1>2, <3>2
      <4> QED
        BY <1>7, <3>2, <4>1 DEF InOrder, Towards, l
    <3> QED
      BY <2>4, <3>1, <3>2
  <2>6. ASSUME NEW m \in 1..Len(all), NEW n \in 1..Len(all), m < n, all[m].view = all[n].view
        PROVE  Lists(all[m].document) < Lists(all[n].document)
    <3>1. m \in 1..l /\ all[m] = calls[m]
      BY <1>1, <2>2, <2>4, <2>6
    <3>2. n \in 1..l /\ all[n] = calls[n]
      <4>1. all[n].view # k + 1
        BY <1>1, <2>6, <3>1
      <4> QED
        BY <2>1, <2>4, <4>1
    <3> QED
      BY <2>6, <3>1, <3>2 DEF InOrder, l
  <2>7. InOrder(longer, all, most)
    BY <1>5, <2>5, <2>6 DEF InOrder
  <2>8. ASSUME NEW i \in 1..Len(longer)
        PROVE  /\ longer[i].initialized => Lists(longer[i].tournament) <= Lists(t)
               /\ \/ longer[i].initialized /\ longer[i].tournament = t
                  \/ \E n \in 1..Len(all) : all[n].view = i /\ all[n].document = t
    <3>1. CASE i = k + 1
      <4>1. l + 1 \in 1..Len(all)
        BY <1>1, <2>2
      <4> QED
        BY <1>1, <1>2, <2>1, <2>2, <3>1, <4>1
    <3>2. CASE i \in 1..k
      <4>1. longer[i] = screens[i]
        BY <1>2, <3>2
      <4>2. \A n \in 1..l : n \in 1..Len(all) /\ all[n] = calls[n]
        BY <1>1, <2>2
      <4> QED
        BY <1>7, <3>2, <4>1, <4>2 DEF Towards, k, l
    <3> QED
      BY <1>2, <1>4, <3>1, <3>2
  <2>9. Towards(longer, all, t)
    BY <2>5, <2>8 DEF Towards
  <2> QED
    BY <2>7, <2>9 DEF all, call
<1> QED
  BY <1>5, <1>6, <1>7 DEF longer, new

\* The oldest callback: the bracket goes on to a later round, or stays in the
\* last, and is what a new one would be.
LEMMA CalledOrder ==
  ASSUME NEW screens, NEW calls, Phone(screens, calls), calls # << >>,
         NEW most, InOrder(screens, calls, most),
         ~Traps(screens[Head(calls).view], Head(calls).document)
  PROVE  LET i == Head(calls).view
             after == [screens EXCEPT ![i] = AfterSnapshot(@, Head(calls).document)]
         IN  /\ InOrder(after, Tail(calls), most)
             /\ \A known : Towards(screens, calls, known) => Towards(after, Tail(calls), known)
             /\ i \in 1..Len(screens) /\ Len(after) = Len(screens)
             /\ \A j \in 1..Len(screens) : after[j].currRound >= screens[j].currRound
<1> DEFINE i == Head(calls).view
           t == Head(calls).document
           old == screens[i]
           new == AfterSnapshot(old, t)
           after == [screens EXCEPT ![i] = new]
           l == Len(calls)
           rest == Tail(calls)
           k == Len(screens)
<1>1. /\ l \in Nat /\ l >= 1 /\ i = calls[1].view /\ t = calls[1].document
      /\ Len(rest) = l - 1 /\ \A n \in 1..(l - 1) : rest[n] = calls[n + 1]
  <2> DEFINE T == Call
  <2>1. calls \in Seq(T)
    BY DEF Phone
  <2> HIDE DEF T
  <2> QED
    BY <2>1, TailCalls
<1>2. i \in 1..k /\ DocumentInv(t) /\ ScreenInv(old) /\ k \in Nat /\ DOMAIN screens = 1..k
      /\ screens \in Seq(ScreenType)
  BY <1>1 DEF Phone
<1>3. /\ StoredInv(t) /\ Lists(t) <= most
      /\ old.initialized =>
           /\ StoredInv(old.tournament) /\ DocumentInv(old.tournament)
           /\ old = AfterSnapshot(NewScreen, old.tournament)
           /\ Lists(old.tournament) < Lists(t)
      /\ ~old.initialized => old = NewScreen
  BY <1>1, <1>2 DEF InOrder, ScreenInv
<1>4. ~Traps(old, t)
  OBVIOUS
<1> HIDE DEF i, t, old
<1>5. new = AfterSnapshot(NewScreen, t)
  <2>1. CASE old.initialized
    <3> DEFINE d == old.tournament
    <3>1. StoredInv(d) /\ DocumentInv(d) /\ old = AfterSnapshot(NewScreen, d)
          /\ Len(d.roundList) < Len(t.roundList)
      BY <1>3, <2>1 DEF Lists
    <3> HIDE DEF d
    <3> QED
      BY <1>2, <1>3, <1>4, <3>1, NothingSkipped
  <2>2. CASE ~old.initialized
    BY <1>3, <2>2
  <2> QED
    BY <2>1, <2>2
<1>6. /\ new.initialized /\ new.tournament = t /\ new.currRound >= old.currRound
      /\ old.currRound \in Nat
  <2>1. new.initialized /\ new.tournament = t /\ new.currRound = CurrentRound(old, t)
    BY DEF AfterSnapshot
  <2>2. Lists(t) \in Nat /\ CurrentRound(old, t) = RoundOf(Lists(t)) /\ Lists(t) >= 1
    <3>1. /\ Len(t.roundList) \in Nat /\ Len(t.roundList) >= 1
          /\ CurrentRound(old, t) = RoundOf(Len(t.roundList))
      BY <1>2, <1>3, CurrentRoundIs
    <3> QED
      BY <3>1 DEF Lists
  <2>3. LastRound \in Nat /\ LastRound >= 1
    BY RoundNumbers
  <2>4. old.currRound \in Nat
    BY <1>2 DEF ScreenInv
  <2>5. CASE old.initialized
    <3> DEFINE d == old.tournament
               blank == NewScreen
    <3>1. StoredInv(d) /\ DocumentInv(d) /\ old = AfterSnapshot(blank, d) /\ Lists(d) < Lists(t)
      BY <1>3, <2>5
    <3> HIDE DEF d, blank
    <3>2. old.currRound = CurrentRound(blank, d)
      BY <3>1 DEF AfterSnapshot
    <3>3. Lists(d) \in Nat /\ CurrentRound(blank, d) = RoundOf(Lists(d))
      <4>1. Len(d.roundList) \in Nat /\ CurrentRound(blank, d) = RoundOf(Len(d.roundList))
        BY <3>1, CurrentRoundIs
      <4> QED
        BY <4>1 DEF Lists
    <3>4. RoundOf(Lists(t)) >= RoundOf(Lists(d))
      BY <2>2, <2>3, <3>1, <3>3 DEF RoundOf
    <3> QED
      BY <2>1, <2>2, <2>4, <3>2, <3>3, <3>4
  <2>6. CASE ~old.initialized
    <3>1. old.currRound = 0
      BY <1>2, <2>6 DEF ScreenInv
    <3>2. RoundOf(Lists(t)) >= 0
      BY <2>2, <2>3 DEF RoundOf
    <3> QED
      BY <2>1, <2>2, <2>4, <3>1, <3>2
  <2> QED
    BY <2>5, <2>6
<1>7. Lists(t) \in Nat /\ \A n \in 1..l : Lists(calls[n].document) \in Nat
  BY <1>2, ListsNumber
<1>8. \A j \in 1..k : ScreenInv(screens[j])
  BY DEF Phone
<1> HIDE DEF new
<1>9. Len(after) = k /\ \A j \in 1..k : after[j] = IF j = i THEN new ELSE screens[j]
  BY <1>2
<1> HIDE DEF after, rest
<1>10. ASSUME NEW n \in 1..(l - 1)
       PROVE  n + 1 \in 1..l /\ rest[n] = calls[n + 1] /\ 1 \in 1..l /\ 1 < n + 1
  BY <1>1
<1>11. InOrder(after, rest, most)
  <2>1. ASSUME NEW j \in 1..k
        PROVE  IF after[j].initialized
                 THEN /\ StoredInv(after[j].tournament) /\ Lists(after[j].tournament) <= most
                      /\ after[j] = AfterSnapshot(NewScreen, after[j].tournament)
                 ELSE after[j] = NewScreen
    <3>1. CASE j = i
      BY <1>3, <1>5, <1>6, <1>9, <3>1
    <3>2. CASE j # i
      BY <1>9, <3>2 DEF InOrder, k
    <3> QED
      BY <3>1, <3>2
  <2>2. ASSUME NEW n \in 1..(l - 1)
        PROVE  /\ StoredInv(rest[n].document) /\ Lists(rest[n].document) <= most
               /\ after[rest[n].view].initialized =>
                    Lists(after[rest[n].view].tournament) < Lists(rest[n].document)
    <3> DEFINE m == n + 1
    <3>1. m \in 1..l /\ rest[n] = calls[m] /\ 1 \in 1..l /\ 1 < m
      BY <1>10
    <3> HIDE DEF m
    <3>2. calls[m].view \in 1..k
      BY <3>1 DEF Phone, k, l
    <3>3. /\ StoredInv(calls[m].document) /\ Lists(calls[m].document) <= most
          /\ screens[calls[m].view].initialized =>
               Lists(screens[calls[m].view].tournament) < Lists(calls[m].document)
          /\ calls[1].view = calls[m].view => Lists(calls[1].document) < Lists(calls[m].document)
      BY <3>1 DEF InOrder, l
    <3>4. CASE calls[m].view = i
      BY <1>1, <1>6, <1>9, <3>1, <3>2, <3>3, <3>4
    <3>5. CASE calls[m].view # i
      BY <1>9, <3>1, <3>2, <3>3, <3>5
    <3> QED
      BY <3>4, <3>5
  <2>3. ASSUME NEW m \in 1..(l - 1), NEW n \in 1..(l - 1), m < n, rest[m].view = rest[n].view
        PROVE  Lists(rest[m].document) < Lists(rest[n].document)
    <3>1. m + 1 < n + 1
      BY <2>3
    <3> QED
      BY <1>10, <2>3, <3>1 DEF InOrder, l
  <2> QED
    BY <1>1, <1>9, <2>1, <2>2, <2>3 DEF InOrder
<1>12. ASSUME NEW known, Towards(screens, calls, known)
       PROVE  Towards(after, rest, known)
  <2>1. /\ Lists(t) <= Lists(known)
        /\ \A n \in 1..l : Lists(calls[n].document) <= Lists(known)
    BY <1>1, <1>12 DEF Towards, l
  <2>2. ASSUME NEW j \in 1..k
        PROVE  /\ after[j].initialized => Lists(after[j].tournament) <= Lists(known)
               /\ \/ after[j].initialized /\ after[j].tournament = known
                  \/ \E n \in 1..(l - 1) : rest[n].view = j /\ rest[n].document = known
    <3>1. after[j].initialized => Lists(after[j].tournament) <= Lists(known)
      <4>1. CASE j = i
        BY <1>6, <1>9, <2>1, <4>1
      <4>2. CASE j # i
        BY <1>9, <1>12, <4>2 DEF Towards, k
      <4> QED
        BY <4>1, <4>2
    <3>2. CASE screens[j].initialized /\ screens[j].tournament = known
      <4>1. j # i
        <5> SUFFICES ASSUME j = i
                     PROVE  FALSE
          OBVIOUS
        <5>1. old.initialized /\ old.tournament = known
          BY <3>2 DEF old
        <5>2. Lists(known) < Lists(t) /\ Lists(known) \in Nat
          BY <1>3, <5>1, ListsNumber
        <5> QED
          BY <1>7, <2>1, <5>2
      <4> QED
        BY <1>9, <3>1, <3>2, <4>1
    <3>3. CASE \E n \in 1..l : calls[n].view = j /\ calls[n].document = known
      <4>1. PICK n \in 1..l : calls[n].view = j /\ calls[n].document = known
        BY <3>3
      <4>2. CASE n = 1
        BY <1>1, <1>6, <1>9, <3>1, <4>1, <4>2
      <4>3. CASE n # 1
        <5>1. n - 1 \in 1..(l - 1) /\ (n - 1) + 1 = n
          BY <1>1, <4>3
        <5>2. rest[n - 1] = calls[n]
          BY <1>1, <5>1
        <5> QED
          BY <3>1, <4>1, <5>1, <5>2
      <4> QED
        BY <4>2, <4>3
    <3> QED
      BY <1>12, <3>2, <3>3 DEF Towards, k, l
  <2>3. \A n \in 1..(l - 1) : Lists(rest[n].document) <= Lists(known)
    BY <1>10, <2>1
  <2> QED
    BY <1>1, <1>9, <2>2, <2>3 DEF Towards
<1>13. \A j \in 1..k : after[j].currRound >= screens[j].currRound
  <2> SUFFICES ASSUME NEW j \in 1..k
               PROVE  after[j].currRound >= screens[j].currRound
    OBVIOUS
  <2>1. CASE j = i
    BY <1>6, <1>9, <2>1 DEF old
  <2>2. CASE j # i
    <3>1. screens[j].currRound \in Nat
      BY <1>8 DEF ScreenInv
    <3> QED
      BY <1>9, <2>2, <3>1
  <2> QED
    BY <2>1, <2>2
<1> QED
  BY <1>2, <1>9, <1>11, <1>12, <1>13 DEF i, t, old, new, after, rest
-----------------------------------------------------------------------------
\* A step of one viewer's phone, when the clients stay as they are.
LEMMA OrderedPhone ==
  ASSUME SInv, KnownInv, BracketsInv, FollowInv, NEW v \in Viewer, NEW screens, NEW calls,
         views' = [views EXCEPT ![v] = screens], posted' = [posted EXCEPT ![v] = calls],
         UNCHANGED <<server, cache, deletion>>,
         InOrder(screens, calls, Lists(server)),
         IF cache[v] # Nothing THEN Towards(screens, calls, cache[v])
         ELSE deletion = "done" \/ Blank(screens, calls)
  PROVE  /\ KnownInv' /\ BracketsInv' /\ FollowInv'
         /\ \A w \in Viewer : w # v => views'[w] = views[w]
         /\ views'[v] = screens
<1>1. /\ \A w \in Viewer : w # v => views'[w] = views[w] /\ posted'[w] = posted[w]
      /\ views'[v] = screens /\ posted'[v] = calls
  BY DEF SInv, ViewsInv
<1>2. KnownInv'
  BY DEF KnownInv, StoredInv, ListsFit, RoundsPlayed, Seats, RoundOf, LastRound, Rounds, Created
<1>3. ASSUME NEW w \in Viewer
      PROVE  /\ InOrder(views'[w], posted'[w], Lists(server'))
             /\ IF cache'[w] # Nothing THEN Towards(views'[w], posted'[w], cache'[w])
                ELSE deletion' = "done" \/ Blank(views'[w], posted'[w])
  <2>1. CASE w = v
    BY <1>1, <2>1
  <2>2. CASE w # v
    BY <1>1, <2>2 DEF BracketsInv, FollowInv
  <2> QED
    BY <2>1, <2>2
<1>4. BracketsInv'
  BY <1>3 DEF BracketsInv
<1>5. FollowInv'
  BY <1>3 DEF FollowInv
<1> QED
  BY <1>1, <1>2, <1>4, <1>5

NoRoundBack ==
  \A v \in Viewer : \A i \in DOMAIN views'[v] :
    i \in DOMAIN views[v] => views'[v][i].currRound >= views[v][i].currRound

LEMMA ScreensStay ==
  ASSUME SInv, \A v \in Viewer : views'[v] = views[v] \/ views'[v] = << >>
  PROVE  NoRoundBack
<1> SUFFICES ASSUME NEW v \in Viewer, NEW i \in DOMAIN views[v]
             PROVE  views[v][i].currRound >= views[v][i].currRound
  BY DEF NoRoundBack
<1>1. Phone(views[v], posted[v]) /\ i \in 1..Len(views[v])
  BY DEF SInv, ViewsInv, Phone
<1>2. views[v][i].currRound \in Nat
  BY <1>1, PhoneTypes
<1> QED
  BY <1>2

\* A process that dies leaves nothing behind.
LEMMA GoneOrderly ==
  ASSUME SInv, KnownInv, BracketsInv, FollowInv, NEW v \in Viewer, NEW then, Gone(v, then)
  PROVE  KnownInv' /\ BracketsInv' /\ FollowInv' /\ NoRoundBack
<1> DEFINE none == << >>
<1>1. /\ views' = [views EXCEPT ![v] = none] /\ posted' = [posted EXCEPT ![v] = none]
      /\ UNCHANGED <<server, cache, deletion>>
  BY DEF Gone, hostVars, vars
<1>2. InOrder(none, none, Lists(server)) /\ Blank(none, none)
      /\ \A known : Towards(none, none, known)
  BY DEF InOrder, Blank, Towards
<1>3. KnownInv' /\ BracketsInv' /\ FollowInv'
  <2> HIDE DEF none
  <2> QED
    BY <1>1, <1>2, OrderedPhone
<1>4. \A w \in Viewer : views'[w] = views[w] \/ views'[w] = << >>
  BY <1>1 DEF SInv, ViewsInv
<1> QED
  BY <1>3, <1>4, ScreensStay

\* The bracket the oldest callback is for.
LEMMA CallbackOrderly ==
  ASSUME SInv, KnownInv, BracketsInv, FollowInv, NEW v \in Viewer, Callback(v)
  PROVE  KnownInv' /\ BracketsInv' /\ FollowInv' /\ NoRoundBack
<1> DEFINE screens == views[v]
           calls == posted[v]
           i == Head(calls).view
           t == Head(calls).document
<1>1. CASE Traps(screens[i], t)
  <2>1. Gone(v, "crashed")
    BY <1>1 DEF Callback
  <2> QED
    BY <2>1, GoneOrderly
<1>2. CASE ~Traps(screens[i], t)
  <2> DEFINE after == [screens EXCEPT ![i] = AfterSnapshot(@, t)]
             rest == Tail(calls)
  <2>1. Phone(screens, calls) /\ calls # << >> /\ InOrder(screens, calls, Lists(server))
    BY DEF SInv, ViewsInv, Callback, BracketsInv
  <2>2. /\ InOrder(after, rest, Lists(server))
        /\ \A known : Towards(screens, calls, known) => Towards(after, rest, known)
        /\ Len(after) = Len(screens)
        /\ \A j \in 1..Len(screens) : after[j].currRound >= screens[j].currRound
    BY <1>2, <2>1, CalledOrder
  <2>3. /\ views' = [views EXCEPT ![v] = after] /\ posted' = [posted EXCEPT ![v] = rest]
        /\ UNCHANGED <<server, cache, deletion>>
    BY <1>2 DEF Callback, Run, hostVars, vars
  <2>4. DOMAIN screens = 1..Len(screens)
    BY <2>1 DEF Phone
  <2> HIDE DEF after, rest
  <2>5. IF cache[v] # Nothing THEN Towards(after, rest, cache[v])
        ELSE deletion = "done" \/ Blank(after, rest)
    BY <2>1, <2>2 DEF FollowInv, Blank
  <2>6. /\ KnownInv' /\ BracketsInv' /\ FollowInv'
        /\ \A w \in Viewer : w # v => views'[w] = views[w]
        /\ views'[v] = after
    BY <2>2, <2>3, <2>5, OrderedPhone
  <2>7. ASSUME NEW w \in Viewer, NEW j \in DOMAIN views'[w], j \in DOMAIN views[w]
        PROVE  views'[w][j].currRound >= views[w][j].currRound
    <3>1. CASE w = v
      BY <2>2, <2>4, <2>6, <2>7, <3>1
    <3>2. CASE w # v
      <4>1. Phone(views[w], posted[w]) /\ j \in 1..Len(views[w])
        BY <2>7 DEF SInv, ViewsInv, Phone
      <4>2. views[w][j].currRound \in Nat /\ views'[w] = views[w]
        BY <2>6, <3>2, <4>1, PhoneTypes
      <4> QED
        BY <4>2
    <3> QED
      BY <3>1, <3>2
  <2> QED
    BY <2>6, <2>7 DEF NoRoundBack
<1> QED
  BY <1>1, <1>2

\* The new bracket is told what the client has, and so comes to what the others
\* come to.
LEMMA OpenViewOrderly ==
  ASSUME SInv, KnownInv, BracketsInv, FollowInv, NEW v \in Viewer, OpenView(v)
  PROVE  KnownInv' /\ BracketsInv' /\ FollowInv' /\ NoRoundBack
<1> DEFINE screens == views[v]
           calls == posted[v]
           longer == Append(screens, NewScreen)
           told == Append(calls, [view |-> Len(screens) + 1, document |-> cache[v]])
           all == IF cache[v] = Nothing THEN calls ELSE told
<1>1. Phone(screens, calls) /\ InOrder(screens, calls, Lists(server))
  BY DEF SInv, ViewsInv, BracketsInv
<1>2. /\ InOrder(longer, calls, Lists(server))
      /\ Blank(screens, calls) => Blank(longer, calls)
      /\ cache[v] # Nothing => InOrder(longer, told, Lists(server)) /\ Towards(longer, told, cache[v])
  <2>1. ASSUME cache[v] # Nothing
        PROVE  /\ DocumentInv(cache[v]) /\ StoredInv(cache[v])
               /\ Lists(cache[v]) <= Lists(server) /\ Towards(screens, calls, cache[v])
    BY <2>1 DEF SInv, CacheInv, KnownInv, FollowInv, Lists
  <2> QED
    BY <1>1, <2>1, OpenedOrder
<1>3. /\ views' = [views EXCEPT ![v] = longer] /\ posted' = [posted EXCEPT ![v] = all]
      /\ UNCHANGED <<server, cache, deletion>>
  BY DEF OpenView, hostVars, vars, SInv, ViewsInv
<1>4. /\ DOMAIN screens = 1..Len(screens)
      /\ \A j \in 1..Len(screens) : longer[j] = screens[j] /\ screens[j].currRound \in Nat
  <2>1. screens \in Seq(ScreenType) /\ \A j \in 1..Len(screens) : screens[j].currRound \in Nat
    BY <1>1, PhoneTypes DEF Phone
  <2> DEFINE T == ScreenType
             new == NewScreen
  <2>2. screens \in Seq(T) /\ new \in T
    BY <2>1, NewScreenFacts
  <2> HIDE DEF T, new, screens
  <2>3. \A j \in 1..Len(screens) : Append(screens, new)[j] = screens[j]
    BY <2>2, Appended
  <2>4. DOMAIN screens = 1..Len(screens)
    BY <2>2
  <2> QED
    BY <2>1, <2>3, <2>4 DEF new
<1> HIDE DEF longer, told
<1>5. /\ InOrder(longer, all, Lists(server))
      /\ IF cache[v] # Nothing THEN Towards(longer, all, cache[v])
         ELSE deletion = "done" \/ Blank(longer, all)
  BY <1>2 DEF FollowInv
<1> HIDE DEF all
<1>6. /\ KnownInv' /\ BracketsInv' /\ FollowInv'
      /\ \A w \in Viewer : w # v => views'[w] = views[w]
      /\ views'[v] = longer
  BY <1>3, <1>5, OrderedPhone
<1>7. ASSUME NEW w \in Viewer, NEW j \in DOMAIN views'[w], j \in DOMAIN views[w]
      PROVE  views'[w][j].currRound >= views[w][j].currRound
  <2>1. CASE w = v
    BY <1>4, <1>6, <1>7, <2>1
  <2>2. CASE w # v
    <3>1. Phone(views[w], posted[w]) /\ j \in 1..Len(views[w])
      BY <1>7 DEF SInv, ViewsInv, Phone
    <3>2. views[w][j].currRound \in Nat /\ views'[w] = views[w]
      BY <1>6, <2>2, <3>1, PhoneTypes
    <3> QED
      BY <3>2
  <2> QED
    BY <2>1, <2>2
<1> QED
  BY <1>6, <1>7 DEF NoRoundBack

\* What a client receives is newer than all its phone has.
LEMMA HearOrderly ==
  ASSUME SInv, OInv, KnownInv, BracketsInv, FollowInv, NEW v \in Viewer, Hear(v)
  PROVE  KnownInv' /\ BracketsInv' /\ FollowInv' /\ NoRoundBack
<1> DEFINE screens == views[v]
           calls == posted[v]
           all == calls \o Told(screens, server)
<1>1. /\ deletion # "done" /\ cache[v] # server
      /\ cache' = [cache EXCEPT ![v] = server]
      /\ posted' = [posted EXCEPT ![v] = all]
      /\ UNCHANGED <<server, views, deletion>>
  BY DEF Hear, Receive, hostVars, vars
<1>2. /\ Phone(screens, calls) /\ InOrder(screens, calls, Lists(server))
      /\ DocumentInv(server) /\ StoredInv(server) /\ server # Nothing
  BY NothingAssumption
     DEF SInv, ViewsInv, BracketsInv, OInv, ClientInv, IInv, NetworkInv, DocumentInv
<1>3. /\ Lists(server) \in Nat
      /\ cache[v] # Nothing => Lists(cache[v]) \in Nat
      /\ \A i \in 1..Len(screens) : Lists(screens[i].tournament) \in Nat
      /\ \A n \in 1..Len(calls) : Lists(calls[n].document) \in Nat
  BY <1>2, ListsNumber DEF SInv, CacheInv
<1>4. cache[v] # Nothing => Lists(cache[v]) < Lists(server)
  BY <1>1, <1>3 DEF KnownInv, Lists
<1> HIDE DEF all
<1>5. /\ \A i \in 1..Len(screens) :
           screens[i].initialized => Lists(screens[i].tournament) < Lists(server)
      /\ \A n \in 1..Len(calls) : Lists(calls[n].document) < Lists(server)
  <2>1. CASE cache[v] # Nothing
    <3>1. Towards(screens, calls, cache[v])
      BY <2>1 DEF FollowInv
    <3>2. /\ \A i \in 1..Len(screens) :
               screens[i].initialized => Lists(screens[i].tournament) <= Lists(cache[v])
          /\ \A n \in 1..Len(calls) : Lists(calls[n].document) <= Lists(cache[v])
      BY <3>1 DEF Towards
    <3>3. Lists(cache[v]) < Lists(server) /\ Lists(cache[v]) \in Nat
      BY <1>3, <1>4, <2>1
    <3> QED
      BY <1>3, <3>2, <3>3
  <2>2. CASE cache[v] = Nothing
    <3>1. Blank(screens, calls)
      BY <1>1, <2>2 DEF FollowInv
    <3> QED
      BY <3>1 DEF Blank
  <2> QED
    BY <2>1, <2>2
<1>6. InOrder(screens, all, Lists(server)) /\ Towards(screens, all, server)
  BY <1>2, <1>5, ToldOrder DEF all
<1>7. /\ \A w \in Viewer : w # v => posted'[w] = posted[w] /\ cache'[w] = cache[w]
      /\ posted'[v] = all /\ cache'[v] = server
  BY <1>1 DEF SInv, ViewsInv, CacheInv
<1>8. ASSUME NEW w \in Viewer
      PROVE  /\ InOrder(views'[w], posted'[w], Lists(server'))
             /\ IF cache'[w] # Nothing THEN Towards(views'[w], posted'[w], cache'[w])
                ELSE deletion' = "done" \/ Blank(views'[w], posted'[w])
  <2>1. CASE w = v
    BY <1>1, <1>2, <1>6, <1>7, <2>1
  <2>2. CASE w # v
    BY <1>1, <1>7, <2>2 DEF BracketsInv, FollowInv
  <2> QED
    BY <2>1, <2>2
<1>9. BracketsInv'
  BY <1>8 DEF BracketsInv
<1>10. FollowInv'
  BY <1>8 DEF FollowInv
<1>11. KnownInv'
  <2> SUFFICES ASSUME NEW w \in Viewer, cache'[w] # Nothing
               PROVE  /\ StoredInv(cache'[w])
                      /\ Len(cache'[w].roundList) <= Len(server'.roundList)
                      /\ Len(cache'[w].roundList) = Len(server'.roundList) => cache'[w] = server'
    BY Zenon DEF KnownInv, StoredInv, ListsFit, RoundsPlayed, Seats, RoundOf, LastRound, Rounds, Created
  <2>1. server' = server
    BY <1>1
  <2>2. CASE w = v
    BY <1>2, <1>3, <1>7, <2>1, <2>2 DEF Lists
  <2>3. CASE w # v
    BY <1>7, <2>1, <2>3 DEF KnownInv
  <2> QED
    BY <2>2, <2>3
<1>12. NoRoundBack
  BY <1>1, ScreensStay
<1> QED
  BY <1>9, <1>10, <1>11, <1>12

\* Leaving the bracket, and hearing that the tournament is gone, touch no bracket.
LEMMA OtherViewerStepsOrderly ==
  ASSUME SInv, KnownInv, BracketsInv, FollowInv, NEW v \in Viewer,
         CloseView(v) \/ HearDeletion(v)
  PROVE  KnownInv' /\ BracketsInv' /\ FollowInv' /\ NoRoundBack
<1>1. /\ UNCHANGED <<server, deletion, views, posted>>
      /\ \A w \in Viewer : cache'[w] = cache[w] \/ (cache'[w] = Nothing /\ deletion = "done")
  BY DEF CloseView, HearDeletion, hostVars, vars, SInv, CacheInv
<1>2. KnownInv'
  <2> SUFFICES ASSUME NEW w \in Viewer, cache'[w] # Nothing
               PROVE  /\ StoredInv(cache'[w])
                      /\ Len(cache'[w].roundList) <= Len(server.roundList)
                      /\ Len(cache'[w].roundList) = Len(server.roundList) => cache'[w] = server
    BY <1>1 DEF KnownInv, StoredInv, ListsFit, RoundsPlayed, Seats, RoundOf, LastRound, Rounds, Created
  <2> QED
    BY <1>1 DEF KnownInv
<1>3. BracketsInv'
  BY <1>1 DEF BracketsInv
<1>4. ASSUME NEW w \in Viewer
      PROVE  IF cache'[w] # Nothing THEN Towards(views'[w], posted'[w], cache'[w])
             ELSE deletion' = "done" \/ Blank(views'[w], posted'[w])
  <2>1. CASE cache'[w] = cache[w]
    BY <1>1, <2>1 DEF FollowInv
  <2>2. CASE cache'[w] = Nothing /\ deletion = "done"
    BY <1>1, <2>2
  <2> QED
    BY <1>1, <2>1, <2>2
<1>5. FollowInv'
  BY <1>4 DEF FollowInv
<1>6. NoRoundBack
  BY <1>1, ScreensStay
<1> QED
  BY <1>2, <1>3, <1>5, <1>6

\* A step that leaves the viewers alone and the database as it was, or one list
\* longer.
LEMMA ViewersStay ==
  ASSUME SInv, KnownInv, BracketsInv, FollowInv, UNCHANGED <<cache, views, posted>>,
         deletion = "done" => deletion' = "done",
         \/ server' = server
         \/ Len(server'.roundList) = Len(server.roundList) + 1 /\ Len(server.roundList) \in Nat
  PROVE  KnownInv' /\ BracketsInv' /\ FollowInv' /\ NoRoundBack
<1>1. ASSUME NEW v \in Viewer, cache[v] # Nothing
      PROVE  /\ StoredInv(cache[v])
             /\ Len(cache[v].roundList) <= Len(server'.roundList)
             /\ Len(cache[v].roundList) = Len(server'.roundList) => cache[v] = server'
  <2>1. Len(cache[v].roundList) \in Nat
    BY <1>1 DEF SInv, CacheInv, DocumentInv, Document
  <2> QED
    BY <1>1, <2>1 DEF KnownInv
<1>2. KnownInv'
  <2> SUFFICES ASSUME NEW v \in Viewer, cache'[v] # Nothing
               PROVE  /\ StoredInv(cache'[v])
                      /\ Len(cache'[v].roundList) <= Len(server'.roundList)
                      /\ Len(cache'[v].roundList) = Len(server'.roundList) => cache'[v] = server'
    BY Zenon DEF KnownInv, StoredInv, ListsFit, RoundsPlayed, Seats, RoundOf, LastRound, Rounds, Created
  <2> QED
    BY <1>1
<1>3. ASSUME NEW v \in Viewer
      PROVE  InOrder(views[v], posted[v], Lists(server'))
  <2> DEFINE screens == views[v]
             calls == posted[v]
             before == Lists(server)
             now == Lists(server')
  <2>1. Phone(screens, calls) /\ InOrder(screens, calls, before)
    BY DEF SInv, ViewsInv, BracketsInv
  <2>2. before = now \/ (now = before + 1 /\ before \in Nat)
    BY DEF Lists
  <2>3. /\ \A i \in 1..Len(screens) : Lists(screens[i].tournament) \in Nat
        /\ \A n \in 1..Len(calls) : Lists(calls[n].document) \in Nat
    BY <2>1, ListsNumber
  <2> HIDE DEF screens, calls, before, now
  <2>4. /\ \A i \in 1..Len(screens) : screens[i].initialized => Lists(screens[i].tournament) <= now
        /\ \A n \in 1..Len(calls) : Lists(calls[n].document) <= now
    BY <2>1, <2>2, <2>3 DEF InOrder
  <2>5. InOrder(screens, calls, now)
    BY <2>1, <2>4 DEF InOrder
  <2> QED
    BY <2>5 DEF screens, calls, now
<1>4. BracketsInv'
  BY <1>3 DEF BracketsInv
<1>5. FollowInv'
  BY DEF FollowInv
<1>6. NoRoundBack
  BY ScreensStay
<1> QED
  BY <1>2, <1>4, <1>5, <1>6
-----------------------------------------------------------------------------
\* A step leaves the viewers' phones orderly, and takes no bracket back to an
\* earlier round.
LEMMA OrderlyStep ==
  ASSUME FieldFits, SOInv, [SNext /\ ~ReturnToCurrentRound]_allVars
  PROVE  SOInv' /\ NoRoundBack
<1>1. SInv /\ OInv /\ KnownInv /\ BracketsInv /\ FollowInv
  BY DEF SOInv
<1>2. SInv'
  BY <1>1, SStep
<1>3. ASSUME OInv', UNCHANGED <<cache, views, posted>>, deletion = "done" => deletion' = "done",
             \/ server' = server
             \/ Len(server'.roundList) = Len(server.roundList) + 1 /\ Len(server.roundList) \in Nat
      PROVE  SOInv' /\ NoRoundBack
  BY <1>1, <1>2, <1>3, ViewersStay DEF SOInv
<1>4. ASSUME NEW v \in Viewer,
             \/ OpenView(v) \/ CloseView(v) \/ RestartView(v)
             \/ Hear(v) \/ HearDeletion(v) \/ Callback(v)
      PROVE  SOInv' /\ NoRoundBack
  <2>1. UNCHANGED vars
    BY <1>4 DEF OpenView, CloseView, RestartView, Hear, HearDeletion, Callback, Gone, hostVars
  <2>2. OInv'
    BY <1>1, <2>1, StaysOrderly
  <2>3. KnownInv' /\ BracketsInv' /\ FollowInv' /\ NoRoundBack
    BY <1>1, <1>4, OpenViewOrderly, HearOrderly, CallbackOrderly, OtherViewerStepsOrderly,
       GoneOrderly DEF RestartView
  <2> QED
    BY <1>2, <2>2, <2>3 DEF SOInv
<1>5. CASE HostStep /\ ~ReturnToCurrentRound /\ UNCHANGED <<deletion, viewerVars>>
  <2>1. OInv'
    BY <1>1, <1>5, HostStepOrderly
  <2>2. \/ server' = server
        \/ Len(server'.roundList) = Len(server.roundList) + 1 /\ Len(server.roundList) \in Nat
    BY <1>1, <1>5, ServerGrows
  <2> QED
    BY <1>3, <1>5, <2>1, <2>2 DEF viewerVars
<1>6. CASE DeleteTournament \/ CommitDeletion \/ UNCHANGED allVars
  <2>1. /\ UNCHANGED <<cache, views, posted>> /\ UNCHANGED vars
        /\ deletion = "done" => deletion' = "done"
    BY <1>6 DEF DeleteTournament, CommitDeletion, hostVars, viewerVars, allVars
  <2>2. OInv' /\ server' = server
    BY <1>1, <2>1, StaysOrderly DEF vars
  <2> QED
    BY <1>3, <2>1, <2>2
<1> QED
  BY <1>4, <1>5, <1>6 DEF SNext

LEMMA SOInvAlways ==
  ASSUME FieldFits
  PROVE  SSpecWithoutNo => []SOInv
<1>1. SInit => SOInv
  <2> SUFFICES ASSUME SInit
               PROVE  SOInv
    OBVIOUS
  <2>1. SInv /\ OInv
    BY SInitInv, InitOrderly DEF SInit
  <2>2. KnownInv /\ BracketsInv /\ FollowInv
    BY DEF SInit, KnownInv, BracketsInv, FollowInv, InOrder, Blank
  <2> QED
    BY <2>1, <2>2 DEF SOInv
<1>2. SOInv /\ [SNext /\ ~ReturnToCurrentRound]_allVars => SOInv'
  BY OrderlyStep
<1> QED
  BY <1>1, <1>2, PTL DEF SSpecWithoutNo

\* NoTraceOfTheWay: with a host who never answers "No", a viewer's bracket shows
\* what a new one on the same document would, through every order of snapshots
\* skipped, callbacks, caches read, brackets left, restarts and a deletion.
THEOREM ViewersForgetTheWay ==
  ASSUME FieldFits
  PROVE  SSpecWithoutNo => []NoTraceOfTheWay
<1>1. ASSUME SOInv, NEW v \in Viewer, NEW i \in DOMAIN views[v], views[v][i].initialized
      PROVE  views[v][i] = AfterSnapshot(NewScreen, views[v][i].tournament)
  <2>1. i \in 1..Len(views[v]) /\ InOrder(views[v], posted[v], Lists(server))
    BY <1>1 DEF SOInv, SInv, ViewsInv, Phone, BracketsInv
  <2> QED
    BY <1>1, <2>1 DEF InOrder
<1>2. SOInv => NoTraceOfTheWay
  BY <1>1 DEF NoTraceOfTheWay
<1> QED
  BY <1>2, SOInvAlways, PTL

\* BracketsFollowTheCache: whenever a viewer's main queue is empty, the bracket
\* on screen and the ones left behind, whose listeners are never removed, show
\* the client's document, though each was called on its own, as often as it had
\* listened, and the new ones once with what was there.
THEOREM ViewersFollowTheCache ==
  ASSUME FieldFits
  PROVE  SSpecWithoutNo => []BracketsFollowTheCache
<1>1. ASSUME SOInv, NEW v \in Viewer, posted[v] = << >>, cache[v] # Nothing, NEW i \in DOMAIN views[v]
      PROVE  views[v][i].initialized /\ views[v][i].tournament = cache[v]
  <2>1. i \in 1..Len(views[v])
    BY <1>1 DEF SOInv, SInv, ViewsInv, Phone
  <2>2. Towards(views[v], posted[v], cache[v])
    BY <1>1 DEF SOInv, FollowInv
  <2>3. ~\E n \in 1..Len(posted[v]) : TRUE
    BY <1>1
  <2> QED
    BY <2>1, <2>2, <2>3 DEF Towards
<1>2. SOInv => BracketsFollowTheCache
  BY <1>1 DEF BracketsFollowTheCache
<1> QED
  BY <1>2, SOInvAlways, PTL

\* RoundsShownInOrder: no step takes a viewer's bracket back to an earlier round
\* or ahead of the rounds the host has closed, sent or not.
THEOREM ViewersSeeRoundsInOrder ==
  ASSUME FieldFits
  PROVE  SSpecWithoutNo => RoundsShownInOrder
<1> DEFINE inOrder == \A v \in Viewer : \A i \in DOMAIN views'[v] :
             /\ i \in DOMAIN views[v] => views'[v][i].currRound >= views[v][i].currRound
             /\ Len(views'[v][i].tournament.roundList) <= Len(LocalDocument.roundList)
<1>1. ASSUME SOInv, NEW v \in Viewer, NEW i \in DOMAIN views[v]
      PROVE  Len(views[v][i].tournament.roundList) <= Len(server.roundList)
  <2>1. Len(server.roundList) \in Nat
    BY <1>1 DEF SOInv, SInv, IInv, NetworkInv, DocumentInv, Document
  <2>2. i \in 1..Len(views[v]) /\ InOrder(views[v], posted[v], Lists(server))
    BY <1>1 DEF SOInv, SInv, ViewsInv, Phone, BracketsInv
  <2>3. IF views[v][i].initialized
          THEN Len(views[v][i].tournament.roundList) <= Len(server.roundList)
          ELSE views[v][i] = NewScreen
    BY <2>2 DEF InOrder, Lists
  <2>4. Len(NewScreen.tournament.roundList) = 0
    BY DEF NewScreen, NoTournament
  <2> QED
    BY <2>1, <2>3, <2>4
<1>2. ASSUME SOInv, SNext, ~ReturnToCurrentRound
      PROVE  inOrder
  <2>1. SOInv' /\ NoRoundBack
    BY <1>2, OrderlyStep
  <2>2. \A v \in Viewer : \A i \in DOMAIN views'[v] :
          Len(views'[v][i].tournament.roundList) <= Len(server.roundList)
    <3>1. views' = views \/ server' = server
      BY <1>2 DEF SNext, viewerVars, DeleteTournament, CommitDeletion, OpenView, CloseView,
         RestartView, Hear, HearDeletion, Callback, Gone, hostVars, vars
    <3>2. CASE views' = views
      BY <1>1, <1>2, <3>2
    <3>3. CASE server' = server
      <4> SUFFICES ASSUME NEW v \in Viewer, NEW i \in DOMAIN views'[v]
                   PROVE  Len(views'[v][i].tournament.roundList) <= Len(server'.roundList)
        BY <3>3
      <4>1. Len(server'.roundList) \in Nat
        BY <2>1 DEF SOInv, SInv, IInv, NetworkInv, DocumentInv, Document
      <4>2. i \in 1..Len(views'[v]) /\ InOrder(views'[v], posted'[v], Lists(server'))
        BY <2>1 DEF SOInv, SInv, ViewsInv, Phone, BracketsInv
      <4>3. IF views'[v][i].initialized
              THEN Len(views'[v][i].tournament.roundList) <= Len(server'.roundList)
              ELSE views'[v][i] = NewScreen
        BY <4>2 DEF InOrder, Lists
      <4>4. Len(NewScreen.tournament.roundList) = 0
        BY DEF NewScreen, NoTournament
      <4> QED
        BY <4>1, <4>3, <4>4
    <3> QED
      BY <3>1, <3>2, <3>3
  <2>3. Len(server.roundList) \in Nat /\ Len(LocalDocument.roundList) \in Nat
    BY <1>2, LocalStored DEF SOInv, SInv, OInv, IInv, NetworkInv, DocumentInv, Document
  <2>4. Len(server.roundList) <= Len(LocalDocument.roundList)
    BY <1>2, QueueGrows DEF SOInv, SInv, OInv, IInv
  <2>5. ASSUME NEW v \in Viewer, NEW i \in DOMAIN views'[v]
        PROVE  Len(views'[v][i].tournament.roundList) <= Len(LocalDocument.roundList)
    <3>1. Phone(views'[v], posted'[v]) /\ i \in 1..Len(views'[v])
      <4>1. ViewsInv'
        BY <2>1 DEF SOInv, SInv
      <4>2. Phone(views'[v], posted'[v])
        BY <4>1 DEF ViewsInv
      <4> QED
        BY <4>2 DEF Phone
    <3>2. views'[v][i].tournament \in Document
      BY <3>1, PhoneTypes
    <3>3. Len(views'[v][i].tournament.roundList) \in Nat
      BY <3>2 DEF Document
    <3> QED
      BY <2>2, <2>3, <2>4, <3>3
  <2> QED
    BY <2>1, <2>5 DEF NoRoundBack
<1>3. SOInv /\ [SNext /\ ~ReturnToCurrentRound]_allVars => [inOrder]_allVars
  BY <1>2
<1> QED
  BY <1>3, SOInvAlways, PTL DEF SSpecWithoutNo, RoundsShownInOrder
=============================================================================
