------------------------------ MODULE VesselsPage ------------------------------
(***************************************************************************)
(* The vessels table of the Angular dashboard (features/vessels/           *)
(* vessels-page.ts): the search box drives a pipeline of debounceTime,     *)
(* distinctUntilChanged and switchMap; filter and page are refinements of  *)
(* what the server returned.  With the session and the guard as far as     *)
(* the page meets them: a 401 signs out and leaves the page.               *)
(***************************************************************************)
EXTENDS Naturals

CONSTANTS
    Terms,      \* what may be in the search box
    Blank,      \* the empty term
    ParamOf,    \* function: the search parameter of each term, trimmed
    Statuses,   \* values of the status filter
    All,        \* the filter that keeps everything
    Matches,    \* function: per parameter and filter, the vessels of the fleet that match
    PageSize,
    MaxTyped    \* bound: changes of the box

NoTerm == "none"

VesselsPageAssumption ==
    /\ Blank \in Terms /\ All \in Statuses
    /\ PageSize \in Nat \ {0} /\ MaxTyped \in Nat
    /\ \A t \in Terms, f \in Statuses : Matches[ParamOf[t]][f] \in Nat
    /\ NoTerm \notin Terms

VARIABLES
    mounted,    \* the page is the activated route
    signedIn,   \* AuthService has a token
    box,        \* value of the FormControl
    due,        \* the debounce timer runs
    settled,    \* the last term distinctUntilChanged let pass
    inFlight,   \* searches under way: the term, and whether a token went with it
    shown,      \* the term whose answer the table holds, and whether it failed
    loading,
    filter,     \* statusFilter
    pageNo,
    typed

vars == <<mounted, signedIn, box, due, settled, inFlight, shown, loading, filter, pageNo, typed>>

NoRows == [term |-> NoTerm, failed |-> FALSE]

TypeOK ==
    /\ {mounted, signedIn, due, loading} \subseteq BOOLEAN
    /\ box \in Terms /\ settled \in Terms \cup {NoTerm} /\ inFlight \subseteq [term : Terms, token : BOOLEAN]
    /\ shown \in [term : Terms \cup {NoTerm}, failed : BOOLEAN]
    /\ filter \in Statuses
    /\ pageNo \in Nat \ {0} /\ typed \in 0..MaxTyped

Init ==
    /\ mounted = FALSE /\ signedIn = TRUE
    /\ box = Blank /\ due = FALSE /\ settled = NoTerm /\ inFlight = {}
    /\ shown = NoRows /\ loading = FALSE
    /\ filter = All /\ pageNo = 1 /\ typed = 0

\* sorted().length and totalPages().
Rows(answer, f) == IF answer.failed \/ answer.term = NoTerm THEN 0 ELSE Matches[ParamOf[answer.term]][f]

TotalPages(rows) == IF rows = 0 THEN 1 ELSE (rows + PageSize - 1) \div PageSize

\* The effect that keeps the page in range runs with the change.
InRange(p, answer, f) == LET total == TotalPages(Rows(answer, f)) IN pageNo' = IF p > total THEN total ELSE p

-----------------------------------------------------------------------------
\* The guard lets the page be activated; the pipeline starts with the empty term.
Enter ==
    /\ ~mounted /\ signedIn
    /\ mounted' = TRUE
    /\ box' = Blank /\ due' = TRUE /\ settled' = NoTerm /\ inFlight' = {}
    /\ shown' = NoRows /\ loading' = FALSE /\ filter' = All /\ pageNo' = 1
    /\ UNCHANGED <<signedIn, typed>>

\* Another route, or the login page after a 401 or a logout: takeUntilDestroyed
\* ends the pipeline and cancels its request.
Leave ==
    /\ mounted
    /\ mounted' = FALSE
    /\ due' = FALSE /\ inFlight' = {}
    /\ UNCHANGED <<signedIn, box, settled, shown, loading, filter, pageNo, typed>>

SignIn == ~mounted /\ ~signedIn /\ signedIn' = TRUE /\ UNCHANGED <<mounted, box, due, settled, inFlight, shown, loading, filter, pageNo, typed>>

SignOut == signedIn /\ signedIn' = FALSE /\ UNCHANGED <<mounted, box, due, settled, inFlight, shown, loading, filter, pageNo, typed>>

\* A keystroke starts the debounce again.
Type(t) ==
    /\ mounted /\ typed < MaxTyped /\ t # box
    /\ box' = t /\ due' = TRUE /\ typed' = typed + 1
    /\ UNCHANGED <<mounted, signedIn, settled, inFlight, shown, loading, filter, pageNo>>

Search == [term |-> box, token |-> signedIn]

\* mergeMap instead of switchMap: a search under way is not cancelled.
Settle_Merge ==
    /\ due
    /\ due' = FALSE
    /\ IF box = settled THEN UNCHANGED <<settled, loading, inFlight>>
       ELSE settled' = box /\ loading' = TRUE /\ inFlight' = inFlight \cup {Search}
    /\ UNCHANGED <<mounted, signedIn, box, shown, filter, pageNo, typed>>

\* The user has paused: a term that changed is searched for, and takes the place
\* of the search under way.
Settle ==
    /\ due
    /\ due' = FALSE
    /\ IF box = settled THEN UNCHANGED <<settled, loading, inFlight>>
       ELSE settled' = box /\ loading' = TRUE /\ inFlight' = {Search}
    /\ UNCHANGED <<mounted, signedIn, box, shown, filter, pageNo, typed>>

\* results$ emits.
Emit(search, failed) ==
    LET answer == [term |-> search.term, failed |-> failed]
    IN  /\ inFlight' = inFlight \ {search}
        /\ shown' = answer
        /\ loading' = FALSE
        /\ InRange(pageNo, answer, filter)
        /\ UNCHANGED <<mounted, box, due, settled, filter, typed>>

Answered(search) == search.token /\ Emit(search, FALSE) /\ UNCHANGED signedIn

\* Any failure but a 401: a toast, and an empty table; the outer stream lives on.
Fails(search) == Emit(search, TRUE) /\ UNCHANGED signedIn

\* errorInterceptor: logout, and a navigation to the login page, which leaves here.
Refused(search) == Emit(search, TRUE) /\ signedIn' = FALSE

\* onStatusFilter and onTypeFilter; toggleSort goes to the first page as well.
Filter(f) ==
    /\ mounted
    /\ filter' = f /\ pageNo' = 1
    /\ UNCHANGED <<mounted, signedIn, box, due, settled, inFlight, shown, loading, typed>>

\* prevPage and nextPage.
TurnPage ==
    /\ mounted
    /\ \/ pageNo > 1 /\ pageNo' = pageNo - 1
       \/ pageNo < TotalPages(Rows(shown, filter)) /\ pageNo' = pageNo + 1
    /\ UNCHANGED <<mounted, signedIn, box, due, settled, inFlight, shown, loading, filter, typed>>

Next ==
    \/ Enter \/ Leave \/ SignIn \/ SignOut \/ Settle \/ TurnPage
    \/ \E t \in Terms : Type(t)
    \/ \E s \in inFlight : Answered(s) \/ Fails(s) \/ Refused(s)
    \/ \E f \in Statuses : Filter(f)

Spec == Init /\ [][Next]_vars

-----------------------------------------------------------------------------

\* "a slow earlier response can never overwrite a newer one (race-free)" and
\* catchError keeps "the outer stream alive if a request fails"
\* (vessels-page.ts:44-46): when the user has paused and nothing is under way,
\* the table holds the answer to what is in the box, or its failure, and the
\* spinner runs exactly while an answer is awaited; a page with rows on it is
\* never shown empty.
TableShowsTheTerm ==
    mounted =>
        /\ loading <=> inFlight # {}
        /\ ~due /\ ~loading => ParamOf[shown.term] = ParamOf[box]
        /\ Rows(shown, filter) > 0 => (pageNo - 1) * PageSize < Rows(shown, filter)
=============================================================================
