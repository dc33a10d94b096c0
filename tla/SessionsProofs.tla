----------------------------- MODULE SessionsProofs -----------------------------
(* Theorems about Sessions, for any finite set of accounts, any tabs and any   *)
(* number of sessions.                                                         *)
EXTENDS Sessions, FiniteSetTheorems, TLAPS

TabType == [view : made \cup {NoSession}, memory : SUBSET Users, due : BOOLEAN,
            query : Queries \cup {None}, login : Logins \cup {None}, late : BOOLEAN,
            error : BOOLEAN]

Types ==
    /\ stored \in made \cup {NoSession}
    /\ disk \in [Session -> SUBSET Users]
    /\ tab \in [Tabs -> TabType]
    /\ made \subseteq Session

\* The id of the next session is one that no session ever had.
IdsAreFresh == IsFiniteSet(made) /\ \A s \in made : s.id <= Cardinality(made)

\* A query asked by the client of the stored session went out with its token.
QueryOwn ==
    \A t \in Tabs : tab[t].query # None =>
        /\ tab[t].query.client \in made
        /\ tab[t].query.client = stored => tab[t].query.sent = stored

\* A tab that signs in shows no session.
LoginShowsNothing == \A t \in Tabs : tab[t].login # None => tab[t].view = NoSession

IInv ==
    /\ Types
    /\ IdsAreFresh
    /\ QueryOwn
    /\ LoginShowsNothing
    /\ ScreensAgree
    /\ OwnData

-----------------------------------------------------------------------------
(* Steps that leave the stored session, and the sessions made, as they are. *)

\* One tab changes.
LEMMA OneTab ==
    ASSUME IInv, NEW t \in Tabs, NEW x \in TabType,
           tab' = [tab EXCEPT ![t] = x],
           UNCHANGED <<stored, disk, made>>,
           x.query = tab[t].query \/ x.query = None
             \/ (x.query.client \in made /\ (x.query.client = stored => x.query.sent = stored)),
           x.login # None => x.view = NoSession,
           x.due \/ x.view = stored,
           x.view = stored /\ stored # NoSession => x.memory \subseteq {stored.user}
    PROVE  IInv'
<1>1. \A o \in Tabs : tab'[o] = IF o = t THEN x ELSE tab[o]
  BY DEF IInv, Types
<1>2. Types'
  BY DEF IInv, Types, TabType
<1>3. QueryOwn'
  BY <1>1 DEF IInv, QueryOwn
<1>4. LoginShowsNothing'
  BY <1>1 DEF IInv, LoginShowsNothing
<1>5. ScreensAgree'
  BY <1>1, <1>2 DEF IInv, ScreensAgree, Types, TabType
<1>6. OwnData'
  BY <1>1 DEF IInv, OwnData, Current
<1>7. IdsAreFresh'
  BY DEF IInv, IdsAreFresh
<1>. QED BY <1>2, <1>3, <1>4, <1>5, <1>6, <1>7 DEF IInv

\* What a tab becomes when it is told of session s.
LEMMA ShowsFacts ==
    ASSUME Types, NEW t \in Tabs, NEW s \in made \cup {NoSession}
    PROVE  /\ Shows(tab[t], s) \in TabType
           /\ Shows(tab[t], s).view = s /\ Shows(tab[t], s).login = None
           /\ Shows(tab[t], s).query = tab[t].query /\ Shows(tab[t], s).due = tab[t].due
           /\ Shows(tab[t], s).memory = IF tab[t].view = s THEN tab[t].memory ELSE {}
BY DEF Types, TabType, Shows

\* A tab that was just loaded has no data, query or login.
LEMMA FreshFacts == NoSession \notin made => Fresh \in TabType /\ Fresh.query = None /\ Fresh.login = None
                                              /\ Fresh.view = NoSession /\ Fresh.memory = {}
BY DEF Fresh, TabType

-----------------------------------------------------------------------------
(* Steps that end the stored session, if there is one. *)

\* A session ends, and one tab changes with it.
LEMMA SessionEnds ==
    ASSUME IInv, NEW t \in Tabs, NEW x \in TabType,
           Clear, Tabwise(t, x, stored # NoSession),
           x.view = NoSession,
           x.query = tab[t].query \/ x.query = None
    PROVE  IInv'
<1>1. stored' = NoSession /\ UNCHANGED <<disk, made>> /\ NoSession \notin made
  BY SessionsAssumption DEF Clear, IInv, Types
<1>2. \A o \in Tabs : tab'[o] = IF o = t THEN x ELSE [tab[o] EXCEPT !.due = @ \/ stored # NoSession]
  BY DEF Tabwise
<1>3. \A o \in Tabs : [tab[o] EXCEPT !.due = @ \/ stored # NoSession] \in TabType
  BY DEF IInv, Types, TabType
<1>4. \A o \in Tabs :
        /\ tab'[o] \in TabType
        /\ tab'[o].query = tab[o].query \/ tab'[o].query = None
        /\ tab'[o].view = NoSession \/ (o # t /\ tab'[o].view = tab[o].view /\ tab'[o].login = tab[o].login)
        /\ o # t => tab'[o].due = (tab[o].due \/ stored # NoSession)
  BY <1>2, <1>3 DEF IInv, Types, TabType
<1>5. Types'
  <2>1. tab' \in [Tabs -> TabType]
    BY <1>4 DEF Tabwise
  <2>. QED BY <1>1, <2>1 DEF IInv, Types, TabType
<1>6. QueryOwn'
  BY <1>1, <1>4 DEF IInv, QueryOwn
<1>7. LoginShowsNothing'
  BY <1>4 DEF IInv, LoginShowsNothing
<1>8. ScreensAgree'
  <2>. SUFFICES ASSUME NEW o \in Tabs, ~tab'[o].due PROVE tab'[o].view = NoSession
    BY <1>1 DEF ScreensAgree
  <2>1. CASE o # t
    <3>1. ~tab[o].due /\ stored = NoSession
      BY <1>4, <2>1 DEF IInv, Types, TabType
    <3>. QED BY <1>4, <3>1 DEF IInv, ScreensAgree
  <2>2. CASE o = t
    BY <1>2, <2>2
  <2>. QED BY <2>1, <2>2
<1>9. OwnData'
  BY <1>1 DEF IInv, OwnData
<1>10. IdsAreFresh'
  BY <1>1 DEF IInv, IdsAreFresh
<1>. QED BY <1>5, <1>6, <1>7, <1>8, <1>9, <1>10 DEF IInv

\* The user signs out.
LEMMA LogoutIInv ==
    ASSUME IInv, NEW t \in Tabs, Logout(t)
    PROVE  IInv'
<1>. DEFINE x == Shows(tab[t], NoSession)
<1>1. x \in TabType /\ x.view = NoSession /\ x.query = tab[t].query
  BY ShowsFacts DEF IInv
<1>2. Clear /\ Tabwise(t, x, stored # NoSession)
  BY DEF Logout
<1>. HIDE DEF x
<1>. QED BY <1>1, <1>2, SessionEnds

\* A login begins by clearing the session that is stored.
LEMMA BeginLoginIInv ==
    ASSUME IInv, NEW t \in Tabs, NEW u \in Users, BeginLogin(t, u)
    PROVE  IInv'
<1>. DEFINE y == Shows(tab[t], NoSession)
            x == [y EXCEPT !.login = [user |-> u, stage |-> "cleaning", waits |-> stored], !.error = FALSE]
<1>1. y \in TabType /\ y.view = NoSession /\ y.query = tab[t].query
  BY ShowsFacts DEF IInv
<1>2. Clear /\ Tabwise(t, x, stored # NoSession)
  BY DEF BeginLogin
<1>. HIDE DEF y
<1>3. [user |-> u, stage |-> "cleaning", waits |-> stored] \in Logins
  BY DEF Logins, IInv, Types
<1>4. x \in TabType /\ x.view = NoSession /\ x.query = tab[t].query
  BY <1>1, <1>3 DEF TabType
<1>. HIDE DEF x
<1>. QED BY <1>2, <1>4, SessionEnds

\* A session ends with a reload of the page.
LEMMA FreshEnds ==
    ASSUME IInv, NEW t \in Tabs, SignsOut(t)
    PROVE  IInv'
<1>1. NoSession \notin made
  BY SessionsAssumption DEF IInv, Types
<1>. QED BY <1>1, FreshFacts, SessionEnds DEF SignsOut

\* A login answered, or not.
LEMMA LoginErrorIInv ==
    ASSUME IInv, NEW t \in Tabs, tab' = [tab EXCEPT ![t].login = None, ![t].error = TRUE],
           UNCHANGED <<stored, disk, made>>
    PROVE  IInv'
<1>. DEFINE x == [tab[t] EXCEPT !.login = None, !.error = TRUE]
<1>1. tab[t] \in TabType
  BY DEF IInv, Types
<1>2. x \in TabType /\ x.view = tab[t].view /\ x.query = tab[t].query /\ x.login = None /\ x.due = tab[t].due
      /\ x.memory = tab[t].memory
  BY <1>1 DEF TabType
<1>3. tab' = [tab EXCEPT ![t] = x]
  BY DEF IInv, Types
<1>4. /\ x.due \/ x.view = stored
      /\ x.view = stored /\ stored # NoSession => x.memory \subseteq {stored.user}
  BY <1>2 DEF IInv, ScreensAgree, OwnData, Current
<1>. HIDE DEF x
<1>. QED BY <1>2, <1>3, <1>4, OneTab

\* A defeated login is answered.
LEMMA LateAnswerIInv ==
    ASSUME IInv, NEW t \in Tabs, tab' = [tab EXCEPT ![t].late = FALSE], UNCHANGED <<stored, disk, made>>
    PROVE  IInv'
<1>. DEFINE x == [tab[t] EXCEPT !.late = FALSE]
<1>1. tab[t] \in TabType
  BY DEF IInv, Types
<1>2. x \in TabType /\ x.view = tab[t].view /\ x.query = tab[t].query /\ x.login = tab[t].login
      /\ x.due = tab[t].due /\ x.memory = tab[t].memory
  BY <1>1 DEF TabType
<1>3. tab' = [tab EXCEPT ![t] = x]
  BY DEF IInv, Types
<1>4. /\ x.due \/ x.view = stored
      /\ x.login # None => x.view = NoSession
      /\ x.view = stored /\ stored # NoSession => x.memory \subseteq {stored.user}
  BY <1>2 DEF IInv, ScreensAgree, LoginShowsNothing, OwnData, Current
<1>. HIDE DEF x
<1>. QED BY <1>2, <1>3, <1>4, OneTab

\* The request of a login goes out.
LEMMA SendLoginIInv ==
    ASSUME IInv, NEW t \in Tabs, SendLogin(t)
    PROVE  IInv'
<1>. DEFINE l == [user |-> tab[t].login.user, stage |-> "sent", sent |-> stored]
            x == [tab[t] EXCEPT !.login = l]
<1>1. tab[t] \in TabType /\ tab[t].login # None
  BY DEF IInv, Types, SendLogin
<1>2. tab[t].login.user \in Users
  BY <1>1 DEF TabType, Logins
<1>3. l \in Logins
  BY <1>2 DEF Logins, IInv, Types
<1>4. x \in TabType /\ x.view = tab[t].view /\ x.query = tab[t].query /\ x.login = l /\ x.due = tab[t].due
      /\ x.memory = tab[t].memory
  BY <1>1, <1>3 DEF TabType
<1>5. tab' = [tab EXCEPT ![t] = x] /\ UNCHANGED <<stored, disk, made>>
  BY DEF IInv, Types, SendLogin
<1>6. /\ x.due \/ x.view = stored
      /\ x.view = stored /\ stored # NoSession => x.memory \subseteq {stored.user}
      /\ x.view = NoSession
  BY <1>1, <1>4 DEF IInv, ScreensAgree, OwnData, Current, LoginShowsNothing
<1>. HIDE DEF x, l
<1>. QED BY <1>4, <1>5, <1>6, OneTab

\* A new session: no tab, query, key or cache is of it yet.
LEMMA NewSession ==
    ASSUME IInv, NEW t \in Tabs, LoginAccepted(t)
    PROVE  /\ stored' \in Session \ made
           /\ made' = made \cup {stored'}
           /\ IsFiniteSet(made') /\ Cardinality(made') = Cardinality(made) + 1
           /\ stored'.id = Cardinality(made')
           /\ Tabwise(t, [Shows(tab[t], stored') EXCEPT !.error = FALSE], TRUE)
<1>. DEFINE s == [user |-> tab[t].login.user, id |-> Cardinality(made) + 1]
<1>1. Cardinality(made) \in Nat /\ Cardinality(made) < MaxSessions
  BY FS_CardinalityType DEF IInv, IdsAreFresh, LoginAccepted
<1>2. tab[t].login \in Logins
  BY DEF LoginAccepted, Waiting, IInv, Types, TabType
<1>3. tab[t].login.user \in Users
  BY <1>2 DEF Logins
<1>4. s \in Session /\ s \notin made
  BY <1>1, <1>3, SessionsAssumption DEF Session, IInv, IdsAreFresh
<1>5. stored' = s /\ made' = made \cup {s} /\ Tabwise(t, [Shows(tab[t], s) EXCEPT !.error = FALSE], TRUE)
  BY DEF LoginAccepted
<1>6. IsFiniteSet(made') /\ Cardinality(made') = Cardinality(made) + 1
  BY <1>4, <1>5, FS_AddElement DEF IInv, IdsAreFresh
<1>7. s.id = Cardinality(made) + 1
  OBVIOUS
<1>. HIDE DEF s
<1>. QED BY <1>4, <1>5, <1>6, <1>7

\* A login is accepted: its session is stored.
LEMMA LoginAcceptedIInv ==
    ASSUME IInv, NEW t \in Tabs, LoginAccepted(t)
    PROVE  IInv'
<1>. DEFINE y == Shows(tab[t], stored')
            x == [y EXCEPT !.error = FALSE]
<1>1. /\ stored' \in Session \ made /\ made' = made \cup {stored'} /\ NoSession \notin Session
      /\ Tabwise(t, x, TRUE) /\ UNCHANGED disk
  BY NewSession, SessionsAssumption DEF LoginAccepted
<1>2. tab \in [Tabs -> TabType]
  BY DEF IInv, Types
<1>3. x \in TabType' /\ x.view = stored' /\ x.login = None /\ x.memory = {} /\ x.query = tab[t].query
  BY <1>1, <1>2 DEF TabType, Shows
<1>. HIDE DEF x, y
<1>4. \A o \in Tabs : tab'[o] = IF o = t THEN x ELSE [tab[o] EXCEPT !.due = @ \/ TRUE]
  BY <1>1 DEF Tabwise
<1>5. \A o \in Tabs :
        /\ tab'[o] \in TabType'
        /\ tab'[o].query = tab[o].query
        /\ o # t => /\ tab'[o].due = TRUE /\ tab'[o].view = tab[o].view /\ tab'[o].login = tab[o].login
                    /\ tab'[o].view # stored'
  <2>1. ASSUME NEW o \in Tabs, o = t
        PROVE  tab'[o] \in TabType' /\ tab'[o].query = tab[o].query
    <3>1. tab'[o] = x
      BY <1>4, <2>1
    <3>. QED BY <1>3, <2>1, <3>1
  <2>2. ASSUME NEW o \in Tabs, o # t
        PROVE  /\ tab'[o] \in TabType' /\ tab'[o].query = tab[o].query
               /\ tab'[o].due = TRUE /\ tab'[o].view = tab[o].view /\ tab'[o].login = tab[o].login
               /\ tab'[o].view # stored'
    <3>1. tab'[o] = [tab[o] EXCEPT !.due = TRUE] /\ tab[o] \in TabType
      BY <1>2, <1>4, <2>2
    <3>2. tab[o].view \in made \cup {NoSession}
      BY <3>1 DEF TabType
    <3>. QED BY <1>1, <3>1, <3>2 DEF TabType
  <2>. QED BY <2>1, <2>2
<1>6. Types'
  <2>1. tab' \in [Tabs -> TabType']
    BY <1>1, <1>5 DEF Tabwise
  <2>. QED BY <1>1, <2>1 DEF IInv, Types, TabType
<1>7. QueryOwn'
  BY <1>1, <1>5 DEF IInv, QueryOwn
<1>8. LoginShowsNothing'
  BY <1>3, <1>4, <1>5 DEF IInv, LoginShowsNothing
<1>9. ScreensAgree'
  BY <1>3, <1>4, <1>5 DEF ScreensAgree
<1>10. OwnData'
  BY <1>1, <1>3, <1>4, <1>5 DEF IInv, OwnData, Current
<1>11. IdsAreFresh'
  <2>1. /\ IsFiniteSet(made') /\ Cardinality(made') = Cardinality(made) + 1 /\ Cardinality(made) \in Nat
        /\ stored'.id = Cardinality(made')
    BY NewSession, FS_CardinalityType DEF IInv, IdsAreFresh
  <2>2. \A s \in made : s.id \in Nat /\ s.id <= Cardinality(made)
    BY SessionsAssumption DEF IInv, IdsAreFresh, Types, Session
  <2>3. \A s \in made : s.id <= Cardinality(made')
    BY <2>1, <2>2
  <2>4. stored'.id <= Cardinality(made')
    BY <2>1
  <2>. QED BY <1>1, <2>1, <2>3, <2>4 DEF IdsAreFresh
<1>. QED BY <1>6, <1>7, <1>8, <1>9, <1>10, <1>11 DEF IInv

\* A storage event, and a page that loads.
LEMMA TabRestored ==
    ASSUME IInv, NEW t \in Tabs, StorageEvent(t) \/ Reload(t)
    PROVE  IInv'
<1>. DEFINE y == Shows(tab[t], stored)
            x == [y EXCEPT !.due = FALSE]
            z == [Fresh EXCEPT !.view = stored]
<1>1. UNCHANGED <<stored, disk, made>> /\ (tab' = [tab EXCEPT ![t] = x] \/ tab' = [tab EXCEPT ![t] = z])
  BY DEF StorageEvent, Reload
<1>2. y \in TabType /\ y.view = stored /\ y.login = None /\ y.query = tab[t].query
      /\ y.memory = IF tab[t].view = stored THEN tab[t].memory ELSE {}
  BY ShowsFacts DEF IInv, Types
<1>. HIDE DEF y
<1>3. x \in TabType /\ x.view = stored /\ x.login = None /\ x.query = tab[t].query /\ x.memory = y.memory
  BY <1>2 DEF TabType
<1>4. z \in TabType /\ z.view = stored /\ z.login = None /\ z.query = None /\ z.memory = {}
  BY DEF TabType, Fresh, IInv, Types
<1>5. stored # NoSession => x.memory \subseteq {stored.user}
  BY <1>2, <1>3 DEF IInv, OwnData, Current
<1>. HIDE DEF x, z
<1>. QED BY <1>1, <1>3, <1>4, <1>5, OneTab

-----------------------------------------------------------------------------
(* The data of a session *)

\* A query is asked, answered or given up, or the cache read back.
LEMMA QueryIInv ==
    ASSUME IInv, NEW t \in Tabs, NEW q \in Queries \cup {None}, NEW m \in SUBSET Users,
           tab' = [tab EXCEPT ![t] = [tab[t] EXCEPT !.query = q, !.memory = m]],
           UNCHANGED <<stored, disk, made>>,
           q = tab[t].query \/ q = None \/ (q.client \in made /\ (q.client = stored => q.sent = stored)),
           tab[t].view = stored /\ stored # NoSession => m \subseteq {stored.user}
    PROVE  IInv'
<1>. DEFINE x == [tab[t] EXCEPT !.query = q, !.memory = m]
<1>1. tab[t] \in TabType
  BY DEF IInv, Types
<1>2. x \in TabType /\ x.view = tab[t].view /\ x.query = q /\ x.login = tab[t].login /\ x.due = tab[t].due
      /\ x.memory = m
  BY <1>1 DEF TabType
<1>3. /\ x.due \/ x.view = stored
      /\ x.login # None => x.view = NoSession
  BY <1>2 DEF IInv, ScreensAgree, LoginShowsNothing
<1>. HIDE DEF x
<1>4. tab' = [tab EXCEPT ![t] = x]
  BY DEF x
<1>. QED BY <1>2, <1>3, <1>4, OneTab

\* Queries go out, return and are persisted.
LEMMA DataIInv ==
    ASSUME IInv, NEW t \in Tabs, Data(t)
    PROVE  IInv'
<1>0. /\ tab[t] \in TabType /\ tab \in [Tabs -> TabType] /\ NoSession \notin made /\ made \subseteq Session
      /\ stored \in made \cup {NoSession}
      /\ tab[t].view = stored /\ stored # NoSession => tab[t].memory \subseteq {stored.user}
  BY SessionsAssumption DEF IInv, Types, OwnData, Current
<1>1. CASE StartQuery(t)
  <2>. DEFINE q == [client |-> tab[t].view, sent |-> stored]
  <2>1. q \in Queries /\ q.client \in made /\ (q.client = stored => q.sent = stored)
    BY <1>0, <1>1 DEF StartQuery, TabType, Queries
  <2>2. tab' = [tab EXCEPT ![t] = [tab[t] EXCEPT !.query = q, !.memory = tab[t].memory]]
        /\ UNCHANGED <<stored, disk, made>>
    <3>1. [tab[t] EXCEPT !.query = q] = [tab[t] EXCEPT !.query = q, !.memory = tab[t].memory]
      BY <1>0 DEF TabType
    <3>. HIDE DEF q
    <3>2. tab' = [tab EXCEPT ![t].query = q] /\ UNCHANGED <<stored, disk, made>>
      BY <1>1 DEF StartQuery, q
    <3>. QED BY <1>0, <3>1, <3>2
  <2>. HIDE DEF q
  <2>3. tab[t].memory \in SUBSET Users
    BY <1>0 DEF TabType
  <2>. QED BY <1>0, <2>1, <2>2, <2>3, QueryIInv
<1>2. CASE Answered(t)
  <2>. DEFINE q == tab[t].query
              m == IF q.client = tab[t].view THEN tab[t].memory \cup {q.sent.user} ELSE tab[t].memory
  <2>1. q \in Queries /\ q.sent \in Session
    BY <1>0, <1>2 DEF Answered, TabType, Queries, Unauthorized
  <2>2. m \in SUBSET Users
    BY <1>0, <2>1 DEF TabType, Session
  <2>3. tab[t].view = stored /\ stored # NoSession => m \subseteq {stored.user}
    BY <1>0, <1>2 DEF Answered, IInv, QueryOwn
  <2>4. tab' = [tab EXCEPT ![t] = [tab[t] EXCEPT !.query = None, !.memory = m]]
        /\ UNCHANGED <<stored, disk, made>>
    BY <1>0, <1>2 DEF Answered
  <2>. HIDE DEF m
  <2>. QED BY <2>2, <2>3, <2>4, QueryIInv
<1>3. CASE Refused(t) /\ tab[t].query.sent = stored
  BY <1>3, FreshEnds DEF Refused
<1>4. CASE Refused(t) /\ tab[t].query.sent # stored
  <2>1. tab' = [tab EXCEPT ![t].query = None] /\ UNCHANGED <<stored, disk, made>>
    BY <1>4 DEF Refused
  <2>2. [tab[t] EXCEPT !.query = None] = [tab[t] EXCEPT !.query = None, !.memory = tab[t].memory]
    BY <1>0 DEF TabType
  <2>3. tab' = [tab EXCEPT ![t] = [tab[t] EXCEPT !.query = None, !.memory = tab[t].memory]]
    BY <1>0, <2>1, <2>2
  <2>. DEFINE m == tab[t].memory
  <2>4. m \in SUBSET Users /\ (tab[t].view = stored /\ stored # NoSession => m \subseteq {stored.user})
    BY <1>0 DEF TabType
  <2>5. tab' = [tab EXCEPT ![t] = [tab[t] EXCEPT !.query = None, !.memory = m]]
    BY <2>3
  <2>. HIDE DEF m
  <2>. QED BY <2>1, <2>4, <2>5, QueryIInv
<1>5. CASE Persist(t)
  <2>1. /\ disk' = [disk EXCEPT ![stored] = tab[t].memory]
        /\ tab[t].memory \in SUBSET {stored.user} /\ tab[t].memory \in SUBSET Users
        /\ UNCHANGED <<stored, tab, made>>
    BY <1>0, <1>5 DEF Persist, Current, TabType
  <2>2. Types'
    BY <1>0, <2>1 DEF IInv, Types, TabType
  <2>3. OwnData'
    BY <2>1 DEF IInv, OwnData, Current, Types
  <2>. QED BY <2>1, <2>2, <2>3 DEF IInv, IdsAreFresh, QueryOwn, LoginShowsNothing, ScreensAgree
<1>6. CASE Hydrate(t)
  <2>. DEFINE m == tab[t].memory \cup disk[tab[t].view]
  <2>1. tab[t].view = stored /\ stored \in Session
    BY <1>0, <1>6 DEF Hydrate, Current
  <2>2. m \in SUBSET Users /\ m \subseteq {stored.user}
    <3>1. tab[t].memory \in SUBSET Users /\ disk[stored] \in SUBSET Users
      BY <1>0, <2>1 DEF IInv, Types, TabType
    <3>2. tab[t].memory \subseteq {stored.user} /\ disk[stored] \subseteq {stored.user}
      BY <1>0, <1>6, <2>1 DEF IInv, OwnData, Hydrate
    <3>. QED BY <2>1, <3>1, <3>2
  <2>3. tab' = [tab EXCEPT ![t].memory = m] /\ UNCHANGED <<stored, disk, made>>
    BY <1>6 DEF Hydrate
  <2>. HIDE DEF m
  <2>4. [tab[t] EXCEPT !.memory = m] = [tab[t] EXCEPT !.query = tab[t].query, !.memory = m]
    BY <1>0 DEF TabType
  <2>5. tab' = [tab EXCEPT ![t] = [tab[t] EXCEPT !.query = tab[t].query, !.memory = m]]
    BY <1>0, <2>3, <2>4
  <2>6. tab[t].query \in Queries \cup {None}
    BY <1>0 DEF TabType
  <2>. QED BY <2>2, <2>3, <2>5, <2>6, QueryIInv
<1>7. CASE SaveDraft(t)
  BY <1>7 DEF SaveDraft, IInv, Types, TabType, IdsAreFresh, QueryOwn, LoginShowsNothing, ScreensAgree, OwnData,
              Current
<1>. QED BY <1>1, <1>2, <1>3, <1>4, <1>5, <1>6, <1>7 DEF Data

\* The deletion of a cache ends, perhaps with the login that waits for it.
LEMMA DeletedIInv ==
    ASSUME IInv, NEW s \in Session, Deleted(s)
    PROVE  IInv'
<1>1. UNCHANGED <<stored, made>>
  BY DEF Deleted
<1>2. CASE UNCHANGED tab /\ disk' = [disk EXCEPT ![s] = {}]
  BY <1>1, <1>2 DEF IInv, Types, TabType, IdsAreFresh, QueryOwn, LoginShowsNothing, ScreensAgree, OwnData, Current
<1>3. CASE UNCHANGED disk
  <2>1. \A t \in Tabs : tab'[t] \in {tab[t], [tab[t] EXCEPT !.login = None, !.error = TRUE]}
    BY <1>3 DEF Deleted, IInv, Types
  <2>2. \A t \in Tabs : [tab[t] EXCEPT !.login = None, !.error = TRUE] \in TabType
    BY DEF IInv, Types, TabType
  <2>3. tab' \in [Tabs -> TabType]
    BY <2>1, <2>2 DEF Deleted, IInv, Types
  <2>4. \A t \in Tabs : /\ tab'[t].view = tab[t].view /\ tab'[t].query = tab[t].query /\ tab'[t].due = tab[t].due
                        /\ tab'[t].memory = tab[t].memory /\ tab'[t].login \in {tab[t].login, None}
    <3>. SUFFICES ASSUME NEW t \in Tabs, tab[t] \in TabType
                  PROVE  /\ tab'[t].view = tab[t].view /\ tab'[t].query = tab[t].query /\ tab'[t].due = tab[t].due
                         /\ tab'[t].memory = tab[t].memory /\ tab'[t].login \in {tab[t].login, None}
      BY DEF IInv, Types
    <3>1. CASE tab'[t] = tab[t]
      BY <3>1
    <3>2. CASE tab'[t] = [tab[t] EXCEPT !.login = None, !.error = TRUE]
      BY <3>2 DEF TabType
    <3>. QED BY <2>1, <3>1, <3>2
  <2>5. Types'
    BY <1>1, <1>3, <2>3 DEF IInv, Types, TabType
  <2>. QED BY <1>1, <1>3, <2>4, <2>5 DEF IInv, IdsAreFresh, QueryOwn, LoginShowsNothing, ScreensAgree, OwnData,
                                         Current
<1>. QED BY <1>2, <1>3 DEF Deleted

\* Logins, sign-outs and refused tokens.
LEMMA AuthIInv ==
    ASSUME IInv, NEW t \in Tabs, Auth(t)
    PROVE  IInv'
<1>1. CASE LoginFails(t)
  BY <1>1, LoginErrorIInv DEF LoginFails
<1>2. CASE LoginRefused(t) /\ tab[t].login.sent = stored
  BY <1>2, FreshEnds DEF LoginRefused
<1>3. CASE LoginRefused(t) /\ tab[t].login.sent # stored
  BY <1>3, LoginErrorIInv DEF LoginRefused
<1>4. CASE LateLogin(t)
  BY <1>4, FreshEnds, LateAnswerIInv DEF LateLogin
<1>. QED BY <1>1, <1>2, <1>3, <1>4, BeginLoginIInv, SendLoginIInv, LoginAcceptedIInv, LogoutIInv, TabRestored DEF Auth

-----------------------------------------------------------------------------
(* The theorems *)

\* The invariant, whatever order tabs sign in and out, answers come and tokens
\* are refused in.
THEOREM Inductive == Spec => []IInv
<1>1. Init => IInv
  <2>. SUFFICES ASSUME Init PROVE IInv
    OBVIOUS
  <2>1. made = {} /\ stored = NoSession /\ IsFiniteSet({})
    BY FS_EmptySet DEF Init
  <2>2. Fresh \in TabType /\ Fresh.query = None /\ Fresh.login = None /\ Fresh.view = NoSession
    BY <2>1, FreshFacts
  <2>3. tab \in [Tabs -> TabType] /\ \A t \in Tabs : tab[t] = Fresh
    BY <2>2 DEF Init
  <2>. QED BY <2>1, <2>2, <2>3 DEF Init, IInv, Types, IdsAreFresh, QueryOwn, LoginShowsNothing, ScreensAgree,
                                   OwnData, Current
<1>2. IInv /\ [Next]_vars => IInv'
  <2>. SUFFICES ASSUME IInv, [Next]_vars PROVE IInv'
    OBVIOUS
  <2>1. ASSUME NEW t \in Tabs, Auth(t) \/ Data(t) PROVE IInv'
    BY <2>1, AuthIInv, DataIInv
  <2>2. ASSUME NEW s \in Session, Deleted(s) PROVE IInv'
    BY <2>2, DeletedIInv
  <2>3. ASSUME NEW s \in Session, Expire(s) PROVE IInv'
    BY <2>3 DEF Expire, IInv, Types, TabType, IdsAreFresh, QueryOwn, LoginShowsNothing, ScreensAgree, OwnData,
                Current
  <2>4. CASE UNCHANGED vars
    BY <2>4 DEF vars, IInv, Types, TabType, IdsAreFresh, QueryOwn, LoginShowsNothing, ScreensAgree, OwnData,
                Current
  <2>. QED BY <2>1, <2>2, <2>3, <2>4 DEF Next
<1>. QED BY <1>1, <1>2, PTL DEF Spec

\* A tab with no storage event to come shows the session that is stored.
THEOREM TabsAgree == Spec => []ScreensAgree
<1>1. IInv => ScreensAgree
  BY DEF IInv
<1>. QED BY <1>1, Inductive, PTL

\* No tab that shows the stored session, and no persisted cache, holds another
\* account's data.
THEOREM CachesAreOwn == Spec => []OwnData
<1>1. IInv => OwnData
  BY DEF IInv
<1>. QED BY <1>1, Inductive, PTL

\* Which step can end the stored session, and what it then has for a reason.
LEMMA EndsByOwn ==
    ASSUME IInv, [Next]_vars, NEW s \in Actual(stored) \ {stored'}
    PROVE  s \in quit' \cup rejected \/ Lent(s)
<1>1. s = stored /\ s # NoSession /\ stored' # stored
  BY DEF Actual
<1>2. ASSUME NEW t \in Tabs, \/ Logout(t) \/ LoginAccepted(t)
                              \/ \E u \in Users : BeginLogin(t, u)
      PROVE  s \in quit'
  BY <1>2 DEF Logout, LoginAccepted, BeginLogin
<1>3. ASSUME NEW t \in Tabs, LoginRefused(t) PROVE Lent(s)
  BY <1>1, <1>3 DEF LoginRefused, Waiting, Lent, Carries
<1>4. ASSUME NEW t \in Tabs, LateLogin(t) PROVE Lent(s)
  BY <1>1, <1>4 DEF LateLogin, Lent
<1>5. ASSUME NEW t \in Tabs, Refused(t) PROVE s \in rejected
  BY <1>1, <1>5 DEF Refused, Unauthorized
<1>6. ASSUME NEW t \in Tabs, \/ SendLogin(t) \/ LoginFails(t) \/ StorageEvent(t) \/ Reload(t)
                              \/ StartQuery(t) \/ Answered(t) \/ Persist(t) \/ Hydrate(t) \/ SaveDraft(t)
      PROVE  FALSE
  BY <1>1, <1>6 DEF SendLogin, LoginFails, StorageEvent, Reload, StartQuery, Answered, Persist, Hydrate, SaveDraft
<1>7. ASSUME (\E o \in Session : Deleted(o) \/ Expire(o)) \/ UNCHANGED vars PROVE FALSE
  BY <1>1, <1>7 DEF Deleted, Expire, vars
<1>. QED BY <1>2, <1>3, <1>4, <1>5, <1>6, <1>7 DEF Next, Auth, Data

\* A session ends by a logout, a login, the rejection of its own token or the
\* refusal of a login that carries its id; a 401 to a request that went out under
\* another session ends nothing.
THEOREM EndsByOwnRefusal == Spec => OwnRefusalsOnly
<1>1. IInv /\ [Next]_vars => [OwnRefusal]_vars
  BY EndsByOwn DEF OwnRefusal
<1>. QED BY <1>1, Inductive, PTL DEF Spec, OwnRefusalsOnly

\* What is persisted is under the stored session only.
LEMMA StaysClean ==
    ASSUME IInv, [Next]_vars
    PROVE  StayClean
<1>. SUFFICES ASSUME NEW s \in made, s # stored
              PROVE  disk'[s] \subseteq disk[s] /\ (s \in drafts' => s \in drafts)
  BY DEF StayClean
<1>1. s \in Session /\ disk \in [Session -> SUBSET Users] /\ stored \in made \cup {NoSession}
  BY DEF IInv, Types
<1>2. ASSUME NEW t \in Tabs, Auth(t) PROVE UNCHANGED disk /\ drafts' \subseteq drafts
  BY <1>2 DEF Auth, BeginLogin, SendLogin, LoginAccepted, LoginFails, LoginRefused, LateLogin, Logout, StorageEvent, Reload,
              SignsOut, Clear
<1>3. ASSUME NEW t \in Tabs, Persist(t) PROVE disk'[s] = disk[s] /\ UNCHANGED drafts
  BY <1>1, <1>3 DEF Persist, Current
<1>4. ASSUME NEW t \in Tabs, SaveDraft(t) PROVE UNCHANGED disk /\ drafts' = drafts \cup {stored}
  BY <1>4 DEF SaveDraft, Current
<1>5. ASSUME NEW t \in Tabs, StartQuery(t) \/ Answered(t) \/ Refused(t) \/ Hydrate(t)
      PROVE  UNCHANGED disk /\ drafts' \subseteq drafts
  BY <1>5 DEF StartQuery, Answered, Refused, Hydrate, SignsOut, Clear
<1>6. ASSUME NEW o \in Session, Deleted(o) \/ Expire(o) PROVE disk'[s] \subseteq disk[s] /\ UNCHANGED drafts
  BY <1>1, <1>6 DEF Deleted, Expire
<1>7. CASE UNCHANGED vars
  BY <1>7 DEF vars
<1>. QED BY <1>2, <1>3, <1>4, <1>5, <1>6, <1>7 DEF Next, Data

\* Nothing is written under the name of a session that has ended, by whichever
\* tab still shows it.
THEOREM EndedClean == Spec => EndedStaysClean
<1>1. IInv /\ [Next]_vars => [StayClean]_vars
  BY StaysClean
<1>. QED BY <1>1, Inductive, PTL DEF Spec, EndedStaysClean

\* A login replaces no session that its tab shows.
LEMMA TakenOver ==
    ASSUME IInv, [Next]_vars
    PROVE  Takeover
<1>. SUFFICES ASSUME stored # stored', stored \in made', stored' \in made', NEW o \in Tabs, tab'[o].view = stored'
              PROVE  tab[o].view # stored
  BY DEF Takeover
<1>1. NoSession \notin made /\ stored \in made \cup {NoSession} /\ tab \in [Tabs -> TabType]
  BY SessionsAssumption DEF IInv, Types
<1>2. PICK t \in Tabs : LoginAccepted(t)
  <2>1. ASSUME NEW t \in Tabs, Auth(t), ~LoginAccepted(t)
        PROVE  made' = made /\ stored' \in {stored, NoSession}
    BY <2>1 DEF Auth, BeginLogin, SendLogin, LoginFails, LoginRefused, LateLogin, Logout, StorageEvent, Reload,
              SignsOut, Clear
  <2>2. ASSUME NEW t \in Tabs, Data(t)
        PROVE  made' = made /\ stored' \in {stored, NoSession}
    BY <2>2 DEF Data, StartQuery, Answered, Refused, Persist, Hydrate, SaveDraft, SignsOut, Clear
  <2>3. ASSUME \/ \E s \in Session : Deleted(s) \/ Expire(s)
               \/ UNCHANGED vars
        PROVE  made' = made /\ stored' = stored
    BY <2>3 DEF Deleted, Expire, vars
  <2>. QED BY <1>1, <2>1, <2>2, <2>3 DEF Next
<1>3. stored' \in Session \ made /\ made' = made \cup {stored'} /\ NoSession \notin Session
      /\ Tabwise(t, [Shows(tab[t], stored') EXCEPT !.error = FALSE], TRUE)
  BY <1>2, NewSession, SessionsAssumption
<1>4. CASE o = t
  <2>1. tab[t].view = NoSession
    BY <1>2 DEF LoginAccepted, Waiting, IInv, LoginShowsNothing
  <2>. QED BY <1>1, <1>3, <1>4, <2>1
<1>5. CASE o # t
  <2>1. tab'[o] = [tab[o] EXCEPT !.due = @ \/ TRUE]
    BY <1>3, <1>5 DEF Tabwise
  <2>2. tab'[o].view = tab[o].view /\ tab[o].view \in made \cup {NoSession}
    BY <1>1, <2>1 DEF TabType
  <2>. QED BY <1>3, <2>2
<1>. QED BY <1>4, <1>5

\* A login that arrives after another tab signed in replaces a session its own
\* tab has not heard of.
THEOREM NoTakeover == Spec => NoKnownTakeover
<1>1. IInv /\ [Next]_vars => [Takeover]_vars
  BY TakenOver
<1>. QED BY <1>1, Inductive, PTL DEF Spec, NoKnownTakeover
=================================================================================
