------------------------------- MODULE Sessions -------------------------------
(***************************************************************************)
(* The browser's sessions: several tabs of one origin share the signed-in  *)
(* account in localStorage (lib/sessionData.ts), each shows it in React    *)
(* state (context/AuthContext.tsx), mounts one query client per session    *)
(* (context/SessionDataProvider.tsx) and talks to the API with whatever    *)
(* token is stored at the time (lib/api.ts).  Accounts change in one tab   *)
(* while the others still show, fetch, persist and wait.                   *)
(*                                                                         *)
(* A synchronous piece of script is one step; React renders with it.  Of a *)
(* query's data only whose it is matters.  Each tab has at most one query  *)
(* in flight.                                                              *)
(***************************************************************************)
EXTENDS Naturals, FiniteSets

CONSTANTS
    Users, Tabs,
    MaxSessions,  \* bound: sessions ever made
    NoSession,    \* nobody is signed in
    None          \* no query, no login

Session == [user : Users, id : 1..MaxSessions]

ASSUME SessionsAssumption ==
    /\ IsFiniteSet(Users)
    /\ MaxSessions \in Nat \ {0}
    /\ NoSession \notin Session

VARIABLES
    stored,    \* vm_token, vm_user and vm_session_id, written and removed together
    drafts,    \* the sessions whose scope names some per-vessel key of localStorage
    disk,      \* IndexedDB: whose data the persisted query cache of a session holds
    deleting,  \* sessions whose persisted cache is being deleted
    tab,       \* what each tab shows, holds and waits for
    made,      \* every session so far
    rejected,  \* sessions whose token the server no longer accepts
    quit       \* sessions ended by a logout or a login

vars == <<stored, drafts, disk, deleting, tab, made, rejected, quit>>

Queries == [client : Session, sent : Session \cup {NoSession}]
Logins == [user : Users, stage : {"cleaning"}, waits : Session \cup {NoSession}] \cup
          [user : Users, stage : {"sent"}, sent : Session \cup {NoSession}]

TypeOK ==
    /\ stored \in made \cup {NoSession}
    /\ drafts \subseteq made
    /\ disk \in [Session -> SUBSET Users]
    /\ deleting \subseteq made
    /\ tab \in [Tabs -> [view : made \cup {NoSession}, memory : SUBSET Users, due : BOOLEAN,
                         query : Queries \cup {None}, login : Logins \cup {None},
                         late : BOOLEAN, error : BOOLEAN]]
    /\ \A t \in Tabs : tab[t].view = NoSession => tab[t].memory = {}
    /\ made \subseteq Session
    /\ rejected \subseteq made
    /\ quit \subseteq made

Fresh == [view |-> NoSession, memory |-> {}, due |-> FALSE, query |-> None, login |-> None,
          late |-> FALSE, error |-> FALSE]

Init ==
    /\ stored = NoSession
    /\ drafts = {}
    /\ disk = [s \in Session |-> {}]
    /\ deleting = {}
    /\ tab = [t \in Tabs |-> Fresh]
    /\ made = {}
    /\ rejected = {}
    /\ quit = {}

-----------------------------------------------------------------------------
(* Building blocks *)

Actual(s) == {s} \ {NoSession}

\* The scope is the account alone.
Current_ByUser(s) == stored # NoSession /\ stored.user = s.user

\* currentSessionScope() is the scope of session s.
Current(s) == stored = s

\* A login waits on.
Shows_KeepsLogin(x, s) ==
    [x EXCEPT !.view = s, !.memory = IF x.view = s THEN @ ELSE {}]

\* A tab's login is unanswered, and its request carries the id of session s.
Carries(x, s) == x.login # None /\ x.login.stage = "sent" /\ s # NoSession /\ x.login.sent = s

\* A tab is told that the session is s: its attempt counter moves on, which
\* defeats a login in progress ("Session changed during login") but not its
\* request, which stays in flight (late; that of another session than s can do no
\* more than Reload), and another scope remounts the query client.  The error of
\* a login is shown as long as the login page is.
Shows(x, s) ==
    [x EXCEPT !.view = s, !.memory = IF x.view = s THEN @ ELSE {}, !.login = None,
              !.late = (@ /\ x.view = s) \/ Carries(x, s),
              !.error = s = NoSession /\ (@ \/ x.login # None)]

\* What tab t becomes, and that the others have storage events due.
Tabwise(t, mine, changed) ==
    tab' = [o \in Tabs |-> IF o = t THEN mine ELSE [tab[o] EXCEPT !.due = @ \/ changed]]

\* The synchronous part of clearSessionData.
Clear ==
    /\ stored' = NoSession
    /\ drafts' = {}
    /\ deleting' = deleting \cup Actual(stored)
    /\ UNCHANGED <<disk, made>>

-----------------------------------------------------------------------------
(* Signing in and out *)

\* login: the old session is cleared, and the tab told, before the attempt.
BeginLogin(t, u) ==
    /\ Clear
    /\ Tabwise(t, [Shows(tab[t], NoSession) EXCEPT
                      !.login = [user |-> u, stage |-> "cleaning", waits |-> stored],
                      !.error = FALSE], stored # NoSession)
    /\ quit' = quit \cup Actual(stored)
    /\ UNCHANGED rejected

\* The deletions are done: authApi.login goes out through the shared client,
\* marked with the session stored now, which another tab may have made.
SendLogin(t) ==
    /\ tab[t].login # None
    /\ tab[t].login.stage = "cleaning"
    /\ tab[t].login.waits \notin deleting
    /\ tab' = [tab EXCEPT ![t].login = [user |-> @.user, stage |-> "sent", sent |-> stored]]
    /\ UNCHANGED <<stored, drafts, disk, deleting, made, rejected, quit>>

Waiting(t) == tab[t].login # None /\ tab[t].login.stage = "sent"

\* saveSession under a new random id.
LoginAccepted(t) ==
    /\ Waiting(t)
    /\ Cardinality(made) < MaxSessions
    /\ LET s == [user |-> tab[t].login.user, id |-> Cardinality(made) + 1]
       IN  /\ stored' = s
           /\ made' = made \cup {s}
           /\ Tabwise(t, [Shows(tab[t], s) EXCEPT !.error = FALSE], TRUE)
    /\ quit' = quit \cup Actual(stored)
    /\ UNCHANGED <<drafts, disk, deleting, rejected>>

\* No answer or a server error: the login page shows it.
LoginFails(t) ==
    /\ Waiting(t)
    /\ tab' = [tab EXCEPT ![t].login = None, ![t].error = TRUE]
    /\ UNCHANGED <<stored, drafts, disk, deleting, made, rejected, quit>>

\* The interceptor on a 401 to a request that went out under the stored session:
\* the session is cleared and the page navigates to /login, which reloads it.
SignsOut(t) == Clear /\ Tabwise(t, Fresh, stored # NoSession)

\* 401, wrong credentials: under the session still stored (none, as a rule) it
\* is taken for the end of that session; else the login page shows it.
LoginRefused(t) ==
    /\ Waiting(t)
    /\ \/ tab[t].login.sent = stored /\ SignsOut(t)
       \/ /\ tab[t].login.sent # stored
          /\ tab' = [tab EXCEPT ![t].login = None, ![t].error = TRUE]
          /\ UNCHANGED <<stored, drafts, disk, deleting, made>>
    /\ UNCHANGED <<rejected, quit>>

\* The answer to a login that was defeated meanwhile: whatever it is it saves
\* nothing, but a 401 ends the session it carried the id of.
LateLogin(t) ==
    /\ tab[t].late
    /\ \/ tab[t].view = stored /\ SignsOut(t)
       \/ tab' = [tab EXCEPT ![t].late = FALSE] /\ UNCHANGED <<stored, drafts, disk, deleting, made>>
    /\ UNCHANGED <<rejected, quit>>

Logout(t) ==
    /\ tab[t].view # NoSession
    /\ Clear
    /\ Tabwise(t, Shows(tab[t], NoSession), stored # NoSession)
    /\ quit' = quit \cup Actual(stored)
    /\ UNCHANGED rejected

\* The persisted cache is gone, or its deletion failed and the login with it.
Deleted(s) ==
    /\ s \in deleting
    /\ deleting' = deleting \ {s}
    /\ \/ disk' = [disk EXCEPT ![s] = {}] /\ UNCHANGED tab
       \/ /\ tab' = [t \in Tabs |-> IF tab[t].login # None /\ tab[t].login.stage = "cleaning" /\ tab[t].login.waits = s
                                    THEN [tab[t] EXCEPT !.login = None, !.error = TRUE] ELSE tab[t]]
          /\ UNCHANGED disk
    /\ UNCHANGED <<stored, drafts, made, rejected, quit>>

\* handleStorage and restore; the events of the three keys are one.
StorageEvent(t) ==
    /\ tab[t].due
    /\ tab' = [tab EXCEPT ![t] = [Shows(@, stored) EXCEPT !.due = FALSE]]
    /\ UNCHANGED <<stored, drafts, disk, deleting, made, rejected, quit>>

\* The page is loaded: what is stored is restored; without a session every
\* remaining key is removed.
Reload(t) ==
    /\ tab' = [tab EXCEPT ![t] = [Fresh EXCEPT !.view = stored]]
    /\ drafts' = IF stored = NoSession THEN {} ELSE drafts
    /\ UNCHANGED <<stored, disk, deleting, made, rejected, quit>>

-----------------------------------------------------------------------------
(* Data *)

\* A mounted page asks, with the token stored now.
StartQuery(t) ==
    /\ tab[t].view # NoSession
    /\ tab[t].query = None
    /\ tab' = [tab EXCEPT ![t].query = [client |-> tab[t].view, sent |-> stored]]
    /\ UNCHANGED <<stored, drafts, disk, deleting, made, rejected, quit>>

Unauthorized(q) == q.sent \in rejected \cup {NoSession}

\* One client outlives the sessions.
Answered_AnyClient(t) ==
    /\ tab[t].query # None
    /\ ~Unauthorized(tab[t].query)
    /\ tab[t].view # NoSession
    /\ tab' = [tab EXCEPT ![t].query = None, ![t].memory = @ \cup {tab[t].query.sent.user}]
    /\ UNCHANGED <<stored, drafts, disk, deleting, made, rejected, quit>>

\* The data goes to the client that asked, if it is still mounted.
Answered(t) ==
    /\ tab[t].query # None
    /\ ~Unauthorized(tab[t].query)
    /\ LET q == tab[t].query
       IN  tab' = [tab EXCEPT ![t].query = None,
                              ![t].memory = IF q.client = tab[t].view THEN @ \cup {q.sent.user} ELSE @]
    /\ UNCHANGED <<stored, drafts, disk, deleting, made, rejected, quit>>

\* The interceptor does not ask whose 401 it is.
Refused_AnySession(t) ==
    /\ tab[t].query # None
    /\ Unauthorized(tab[t].query)
    /\ SignsOut(t)
    /\ UNCHANGED <<rejected, quit>>

\* The event that tells this tab is not raised.
Refused_Silent(t) ==
    /\ tab[t].query # None
    /\ Unauthorized(tab[t].query)
    /\ tab[t].query.sent = stored
    /\ Clear
    /\ Tabwise(t, [tab[t] EXCEPT !.query = None], stored # NoSession)
    /\ UNCHANGED <<rejected, quit>>

\* The response interceptor on a 401: only a request of the session still
\* stored ends it, and reloads the page.
Refused(t) ==
    /\ tab[t].query # None
    /\ Unauthorized(tab[t].query)
    /\ \/ tab[t].query.sent = stored /\ SignsOut(t)
       \/ /\ tab[t].query.sent # stored
          /\ tab' = [tab EXCEPT ![t].query = None]
          /\ UNCHANGED <<stored, drafts, disk, deleting, made>>
    /\ UNCHANGED <<rejected, quit>>

\* The persister's throttled save.
Persist(t) ==
    /\ tab[t].view # NoSession
    /\ Current(tab[t].view)
    /\ disk' = [disk EXCEPT ![tab[t].view] = tab[t].memory]
    /\ UNCHANGED <<stored, drafts, deleting, tab, made, rejected, quit>>

\* The persister's restore, after its second look at the scope.
Hydrate(t) ==
    /\ tab[t].view # NoSession
    /\ Current(tab[t].view)
    /\ tab' = [tab EXCEPT ![t].memory = @ \cup disk[tab[t].view]]
    /\ UNCHANGED <<stored, drafts, disk, deleting, made, rejected, quit>>

\* usePersistentVesselState's save effect.
SaveDraft(t) ==
    /\ tab[t].view # NoSession
    /\ Current(tab[t].view)
    /\ drafts' = drafts \cup {tab[t].view}
    /\ UNCHANGED <<stored, disk, deleting, tab, made, rejected, quit>>

\* A token expires.
Expire(s) ==
    /\ s \in made
    /\ rejected' = rejected \cup {s}
    /\ UNCHANGED <<stored, drafts, disk, deleting, tab, made, quit>>

-----------------------------------------------------------------------------
Auth(t) ==
    \/ \E u \in Users : BeginLogin(t, u)
    \/ SendLogin(t) \/ LoginAccepted(t) \/ LoginFails(t) \/ LoginRefused(t) \/ LateLogin(t)
    \/ Logout(t) \/ StorageEvent(t) \/ Reload(t)

Data(t) == StartQuery(t) \/ Answered(t) \/ Refused(t) \/ Persist(t) \/ Hydrate(t) \/ SaveDraft(t)

Next ==
    \/ \E t \in Tabs : Auth(t) \/ Data(t)
    \/ \E s \in Session : Deleted(s) \/ Expire(s)

Spec == Init /\ [][Next]_vars

-----------------------------------------------------------------------------
(* Properties *)

\* A tab with no storage event to come shows the session that is stored:
\* nobody goes on working under an account that has signed out elsewhere.
ScreensAgree == \A t \in Tabs : ~tab[t].due => tab[t].view = stored

\* While a tab shows the session that is stored, its query client holds that
\* account's data only: "late results cannot enter a new account's cache"
\* (queryClient.ts), whichever tokens its requests went out with; and what is
\* persisted under a session's key is its own account's data.
OwnData ==
    /\ \A t \in Tabs : Current(tab[t].view) /\ stored # NoSession => tab[t].memory \subseteq {stored.user}
    /\ \A s \in Session : disk[s] \subseteq {s.user}

StayClean ==
    \A s \in made : s # stored => disk'[s] \subseteq disk[s] /\ (s \in drafts' => s \in drafts)

\* Once a session has ended nothing more is written under its name: "delayed
\* persistence cannot borrow a replacement session" (sessionData.ts).
EndedStaysClean == [][StayClean]_vars

\* Some tab's login, sent before the tab had heard of session s, carries its id.
Lent(s) == \E t \in Tabs : Carries(tab[t], s) \/ (tab[t].late /\ tab[t].view = s)

OwnRefusal == \A s \in Actual(stored) \ {stored'} : s \in quit' \cup rejected \/ Lent(s)

\* A 401 ends no session but the one its request went out under: a session ends
\* by a logout or a login, by the rejection of its own token, or by the refusal
\* of a login that carried its id; the late 401 of an earlier session ends
\* nothing (api.ts:68-69).  The last is a wrong password typed in one tab that
\* signs out the session another tab has just made: the interceptor sees in it
\* the 401 of that session (api.ts:53, 69).
OwnRefusalsOnly == [][OwnRefusal]_vars

Takeover ==
    stored # stored' /\ {stored, stored'} \subseteq made' =>
        \A t \in Tabs : tab'[t].view = stored' => tab[t].view # stored

\* A login replaces a session that another tab made meanwhile only if this tab
\* does not know of it yet ("Session changed during login").
NoKnownTakeover == [][Takeover]_vars

\* "Surface the error instead and let the user see what actually happened"
\* (AuthContext.tsx:94): a refused login leaves the error on the page.
RefusalIsShown == [][\A t \in Tabs : LoginRefused(t) => tab'[t].error]_vars
===============================================================================
