------------------------------ MODULE Session ------------------------------
(***************************************************************************)
(* A visitor's way from a search to a page of favourites: searching,       *)
(* "Add to Favourites", registering or signing in, signing out.            *)
(*                                                                         *)
(* The session lives in a cookie.  A request carries a copy of it, the     *)
(* handler works on the copy, and the response writes the whole copy back: *)
(* with several tabs open the last response wins.  A request that ends in  *)
(* an exception writes nothing back.                                       *)
(***************************************************************************)
EXTENDS Naturals, FiniteSets

CONSTANTS
    Tabs,        \* tabs of the visitor's browser, sharing its cookie
    Rows,        \* listings a search can find, told apart by three columns
    None,        \* a session key that is not set
    MaxTokens    \* bound: how many form tokens the browser is given

VARIABLES
    cookie,      \* the browser's session cookie
    tab,         \* tab[b]: the page shown, or the request on its way
    wanted,      \* the listings now in the database
    tokens,      \* how many form tokens have been made
    shown        \* history: the listings shown since the last sign-out

vars == <<cookie, tab, wanted, tokens, shown>>

ASSUME MaxTokensAssumption == MaxTokens \in Nat
ASSUME TabsAssumption      == IsFiniteSet(Tabs)
ASSUME RowsAssumption      ==
    \A r \in Rows : r = [location |-> r.location, property |-> r.property, looking_for |-> r.looking_for]
ASSUME NoneAssumption      == \A r \in Rows : None \notin {r.location, r.property, r.looking_for}

\* The keys the handlers use.  user: someone is signed in.  return_to: the
\* path of add_to_cart is stored, the only one ever stored.  token: the
\* _csrf_token, 0 when there is none.
Criteria ==
    [location    : {r.location : r \in Rows} \cup {None},
     property    : {r.property : r \in Rows} \cup {None},
     looking_for : {r.looking_for : r \in Rows} \cup {None}]

Data == [user : BOOLEAN, return_to : BOOLEAN, fav : Criteria, token : 0..MaxTokens]

NoCriteria == [location |-> None, property |-> None, looking_for |-> None]
Empty      == [user |-> FALSE, return_to |-> FALSE, fav |-> NoCriteria, token |-> 0]

Gets  == {"home", "dashboard", "search_get", "cart", "favourites", "sign_in_page", "sign_up_page"}
Posts == {"search", "sign_in", "sign_up", "sign_out"}
Pages == {"home", "dashboard", "results", "favourites", "sign_in_page", "sign_up_page", "error"}

\* pc = "page": at is the page shown.  pc = "sent" or "redirect": at is the
\* request on its way, or the one the browser has been told to make.
Tab == [pc : {"page", "sent", "redirect"}, at : Gets \cup Posts \cup Pages,
        token : 0..MaxTokens, session : Data]

Show(page, t) == [pc |-> "page", at |-> page, token |-> t, session |-> Empty]

\* UserLookingForProperty.search: a row that agrees in one column is found.
Search(c) ==
    {r \in wanted : \/ r.property = c.property
                    \/ r.looking_for = c.looking_for
                    \/ r.location = c.location}

Init ==
    /\ cookie = Empty
    /\ tab = [b \in Tabs |-> Show("error", 0)]
    /\ wanted \in SUBSET Rows
    /\ tokens = 0
    /\ shown = {}

-----------------------------------------------------------------------------
\* Bound: what is under way makes at most one token for each tab.
CanSend == tokens + Cardinality({b \in Tabs : tab[b].pc # "page"}) < MaxTokens

\* The visitor follows a link or types a path; or submits a form, which
\* carries the token of its page.
Send(b) ==
    /\ tab[b].pc = "page" /\ CanSend
    /\ \E url \in Gets \cup Posts :
          /\ url \in Posts => tab[b].token # 0
          /\ tab' = [tab EXCEPT ![b] = [pc |-> "sent", at |-> url, session |-> cookie,
                                         token |-> IF url \in Posts THEN @.token ELSE 0]]
    /\ UNCHANGED <<cookie, wanted, tokens, shown>>

Follow(b) ==
    /\ tab[b].pc = "redirect"
    /\ tab' = [tab EXCEPT ![b] = [@ EXCEPT !.pc = "sent", !.session = cookie]]
    /\ UNCHANGED <<cookie, wanted, tokens, shown>>

\* The connection fails: no response, no cookie.
Lose(b) ==
    /\ tab[b].pc = "sent"
    /\ tab' = [tab EXCEPT ![b] = Show("error", 0)]
    /\ UNCHANGED <<cookie, wanted, tokens, shown>>

\* Other users' listings come and go.
Publish(r)  == r \notin wanted /\ wanted' = wanted \cup {r} /\ UNCHANGED <<cookie, tab, tokens, shown>>
Withdraw(r) == r \in wanted /\ wanted' = wanted \ {r} /\ UNCHANGED <<cookie, tab, tokens, shown>>

-----------------------------------------------------------------------------
\* Every page is laid out with csrf_meta_tags, which give the session a token.
Render(b, data, page) ==
    LET t == IF data.token = 0 THEN tokens + 1 ELSE data.token IN
    /\ tokens' = IF data.token = 0 THEN t ELSE tokens
    /\ cookie' = [data EXCEPT !.token = t]
    /\ tab' = [tab EXCEPT ![b] = Show(page, t)]

Redirect(b, data, url) ==
    /\ cookie' = data
    /\ tab' = [tab EXCEPT ![b] = [Show(url, 0) EXCEPT !.pc = "redirect"]]
    /\ UNCHANGED tokens

\* The static error page; the session is not written back.
Fail(b) ==
    /\ tab' = [tab EXCEPT ![b] = Show("error", 0)]
    /\ UNCHANGED <<cookie, tokens>>

Asked(b, url) == tab[b].pc = "sent" /\ tab[b].at = url

\* protect_from_forgery: a form whose token is not the session's is handled,
\* but with an empty session.
Verified(b) == IF tab[b].token = tab[b].session.token THEN tab[b].session ELSE Empty

\* The view writes location, property and looking_for of each row it lists
\* into the session, so those of the last one stay; the order is the database's.
RenderResults(b, data, found, page) ==
    /\ \/ found = {} /\ Render(b, data, page)
       \/ \E r \in found :
             Render(b, [data EXCEPT !.fav = [location |-> r.location, property |-> r.property,
                                             looking_for |-> r.looking_for]], page)
    /\ shown' = IF data = Empty THEN found ELSE shown \cup found
    /\ UNCHANGED wanted

\* home#search_properties, with the choices of the search form.
AnswerSearch(b) ==
    /\ Asked(b, "search")
    /\ \E c \in Criteria : RenderResults(b, Verified(b), Search(c), "results")

\* home#search_properties by GET: there is no params[:search].
AnswerSearchGet(b) ==
    /\ Asked(b, "search_get")
    /\ Fail(b)
    /\ UNCHANGED <<wanted, shown>>

\* home#add_to_favourites searches for what the session holds.
AnswerFavourites(b) ==
    /\ Asked(b, "favourites")
    /\ RenderResults(b, tab[b].session, Search(tab[b].session.fav), "favourites")

\* Mutant of AnswerCart: deny_access without asking who is signed in.
DenyAlways(b) ==
    /\ Asked(b, "cart")
    /\ Redirect(b, [tab[b].session EXCEPT !.return_to = TRUE], "sign_up_page")
    /\ UNCHANGED <<wanted, shown>>

\* home#add_to_cart; deny_access stores the location.
AnswerCart(b) ==
    LET data == tab[b].session IN
    /\ Asked(b, "cart")
    /\ \/ ~data.user /\ Redirect(b, [data EXCEPT !.return_to = TRUE], "sign_up_page")
       \/ data.user /\ Redirect(b, data, "favourites")
    /\ UNCHANGED <<wanted, shown>>

\* Devise's require_no_authentication, before the sign-in and registration
\* pages and their forms and ahead of protect_from_forgery: who is signed in
\* already goes to after_sign_in_path_for, the stored location or "/", which
\* clears it.
AlreadySignedIn(b) ==
    /\ tab[b].pc = "sent"
    /\ tab[b].at \in {"sign_in_page", "sign_up_page", "sign_in", "sign_up"}
    /\ tab[b].session.user
    /\ Redirect(b, [tab[b].session EXCEPT !.return_to = FALSE],
                IF tab[b].session.return_to THEN "cart" ELSE "home")
    /\ UNCHANGED <<wanted, shown>>

\* The pages of the forms.
AnswerForm(b) ==
    /\ \E page \in {"sign_in_page", "sign_up_page"} :
          Asked(b, page) /\ Render(b, tab[b].session, page)
    /\ ~tab[b].session.user
    /\ UNCHANGED <<wanted, shown>>

\* sessions#create: wrong credentials show the form again.
AnswerSignIn(b) ==
    LET data == Verified(b) IN
    /\ Asked(b, "sign_in") /\ ~tab[b].session.user
    /\ \/ Render(b, data, "sign_in_page")
       \/ Redirect(b, [data EXCEPT !.user = TRUE],
                   IF data.return_to THEN "search_get" ELSE "dashboard")
    /\ shown' = IF data = Empty THEN {} ELSE shown
    /\ UNCHANGED wanted

\* Mutant of AnswerSignUp: the account is made but not signed in.
SignUpOnly(b) ==
    LET data == Verified(b) IN
    /\ Asked(b, "sign_up") /\ ~tab[b].session.user
    /\ \/ Render(b, data, "sign_up_page")
       \/ Redirect(b, data, IF data.return_to THEN "cart" ELSE "dashboard")
    /\ shown' = IF data = Empty THEN {} ELSE shown
    /\ UNCHANGED wanted

\* registrations#create: an invalid user shows the form again.
AnswerSignUp(b) ==
    LET data == Verified(b) IN
    /\ Asked(b, "sign_up") /\ ~tab[b].session.user
    /\ \/ Render(b, data, "sign_up_page")
       \/ Redirect(b, [data EXCEPT !.user = TRUE],
                   IF data.return_to THEN "cart" ELSE "dashboard")
    /\ shown' = IF data = Empty THEN {} ELSE shown
    /\ UNCHANGED wanted

\* Mutant of AnswerSignOut: the user alone is taken out of the session.
SignOutUser(b) ==
    /\ Asked(b, "sign_out")
    /\ Redirect(b, [tab[b].session EXCEPT !.user = FALSE], "home")
    /\ shown' = {}
    /\ UNCHANGED wanted

\* sessions#destroy signs out of all scopes, which resets the session.
AnswerSignOut(b) ==
    /\ Asked(b, "sign_out")
    /\ Redirect(b, Empty, "home")
    /\ shown' = {}
    /\ UNCHANGED wanted

\* users/dashboard#index asks for the id of current_user, whoever comes.
AnswerDashboard(b) ==
    /\ Asked(b, "dashboard")
    /\ \/ tab[b].session.user /\ Render(b, tab[b].session, "dashboard")
       \/ ~tab[b].session.user /\ Fail(b)
    /\ UNCHANGED <<wanted, shown>>

AnswerHome(b) ==
    /\ Asked(b, "home")
    /\ Render(b, tab[b].session, "home")
    /\ UNCHANGED <<wanted, shown>>

Answer(b) ==
    \/ AnswerSearch(b) \/ AnswerSearchGet(b) \/ AnswerFavourites(b) \/ AnswerCart(b)
    \/ AlreadySignedIn(b) \/ AnswerForm(b) \/ AnswerSignIn(b) \/ AnswerSignUp(b)
    \/ AnswerSignOut(b) \/ AnswerDashboard(b) \/ AnswerHome(b)

Next ==
    \/ \E b \in Tabs : Send(b) \/ Follow(b) \/ Lose(b) \/ Answer(b)
    \/ \E r \in Rows : Publish(r) \/ Withdraw(r)

Spec == Init /\ [][Next]_vars

\* The server answers and the browser follows; the visitor need do nothing.
FairSpec == Spec /\ \A b \in Tabs : WF_vars(Follow(b)) /\ WF_vars(Answer(b))

-----------------------------------------------------------------------------
\* Type invariant: the cookie, the tabs and the histories keep their shape.
TypeOK ==
    /\ cookie \in Data
    /\ tab \in [Tabs -> Tab]
    /\ wanted \subseteq Rows
    /\ tokens \in 0..MaxTokens
    /\ shown \subseteq Rows

\* What the favourites page will search for is one listing, whole, that this
\* browser was shown since its last sign-out: the three keys are never mixed
\* from several rows, and nothing of one visitor's search is left for the next.
\* True of a browser with a single tab.
FavouriteWasShown ==
    cookie.fav # NoCriteria => \E r \in shown : cookie.fav = r

\* "redirecct to previous page after login": a visitor whose location was
\* stored is sent there when the sign-in succeeds.
SignInReturns ==
    [][\A b \in Tabs :
          (/\ Asked(b, "sign_in") /\ ~tab[b].session.user /\ Verified(b).return_to
           /\ tab'[b].pc = "redirect")
             => tab'[b].at = "cart"]_vars

\* Redirects come to an end: whatever the other tabs do to the cookie in the
\* meantime, a request is answered with a page at last, if the visitor does
\* not go on signing out for ever.
RedirectsEnd == \A b \in Tabs : tab[b].pc # "page" ~> tab[b].pc = "page"

\* A visitor who was stopped at "Add to Favourites" and is sent back there
\* after registering, or on finding himself signed in, gets the favourites
\* page and not the registration form again, unless a connection fails on the
\* way.  True of a browser with a single tab.
CartReachesFavourites ==
    \A b \in Tabs :
        (tab[b].pc = "redirect" /\ tab[b].at = "cart")
           ~> (tab[b].pc = "page" /\ tab[b].at \in {"favourites", "error"})
=============================================================================
