---------------------------- MODULE SessionProofs ----------------------------
(***************************************************************************)
(* Theorems about Session, for every set of tabs, listings and bound: the  *)
(* types of any browser, and the favourites of a browser with one tab.     *)
(***************************************************************************)
EXTENDS MCSession, FiniteSetTheorems, TLAPS

USE MaxTokensAssumption, TabsAssumption

\* Each tab that waits for an answer may cost a token.
Waiting == {b \in Tabs : tab[b].pc # "page"}

TypeInv == TypeOK /\ tokens + Cardinality(Waiting) <= MaxTokens

LEMMA EmptyTyped == Empty \in Data /\ Empty.fav = NoCriteria
  BY DEF Empty, Data, NoCriteria, Criteria

LEMMA ShowTyped ==
    ASSUME NEW page \in (Gets \cup Posts \cup Pages), NEW t \in 0..MaxTokens
    PROVE  Show(page, t) \in Tab /\ Show(page, t).pc = "page"
  BY EmptyTyped DEF Show, Tab

LEMMA FiniteWaiting ==
    IsFiniteSet(Waiting) /\ Cardinality(Waiting) \in Nat
<1>1. Waiting \subseteq Tabs
  BY DEF Waiting
<1>2. QED
  BY <1>1, FS_Subset, FS_CardinalityType

\* How the number of waiting tabs changes with one tab.
LEMMA WaitingChanges ==
    ASSUME TypeOK, NEW b \in Tabs, NEW t, tab' = [tab EXCEPT ![b] = t]
    PROVE  /\ IsFiniteSet(Waiting') /\ Cardinality(Waiting') \in Nat
           /\ Cardinality(Waiting') <= Cardinality(Waiting) + 1
           /\ tab[b].pc # "page" => Cardinality(Waiting') <= Cardinality(Waiting)
           /\ tab[b].pc # "page" /\ t.pc = "page" => Cardinality(Waiting') + 1 = Cardinality(Waiting)
<1>0. IsFiniteSet(Waiting) /\ Cardinality(Waiting) \in Nat
  BY FiniteWaiting
<1>1. /\ Waiting' = IF t.pc # "page" THEN Waiting \cup {b} ELSE Waiting \ {b}
      /\ (b \in Waiting) <=> (tab[b].pc # "page")
  BY DEF Waiting, TypeOK
<1>2. IsFiniteSet(Waiting')
  BY <1>0, <1>1, FS_AddElement, FS_RemoveElement
<1>3. Cardinality(Waiting \cup {b}) = IF b \in Waiting THEN Cardinality(Waiting) ELSE Cardinality(Waiting) + 1
  BY <1>0, FS_AddElement
<1>4. Cardinality(Waiting \ {b}) = IF b \in Waiting THEN Cardinality(Waiting) - 1 ELSE Cardinality(Waiting)
  BY <1>0, FS_RemoveElement
<1>5. Cardinality(Waiting') \in Nat
  BY <1>2, FS_CardinalityType
<1>6. QED
  BY <1>0, <1>1, <1>2, <1>3, <1>4, <1>5

-----------------------------------------------------------------------------
\* What a response is: a page, a redirect, or an error.
Rendered(b)   == \E data \in Data, page \in Pages : Render(b, data, page)
Redirected(b) == \E data \in Data, url \in Gets : Redirect(b, data, url)

\* A handler works on the session the request brought, or on an empty one.
LEMMA VerifiedTyped ==
    ASSUME TypeOK, NEW b \in Tabs
    PROVE  Verified(b) \in Data /\ Verified(b) \in {tab[b].session, Empty} /\ tab[b].session \in Data
  BY EmptyTyped DEF Verified, TypeOK, Tab

LEMMA ResultsRender ==
    ASSUME TypeOK, NEW b \in Tabs, NEW data \in Data, NEW found \in SUBSET wanted,
           NEW page \in Pages, RenderResults(b, data, found, page)
    PROVE  Rendered(b) /\ shown' \subseteq Rows /\ wanted' = wanted
<1>1. CASE found = {} /\ Render(b, data, page)
  BY <1>1 DEF RenderResults, Rendered, TypeOK
<1>2. ASSUME NEW r \in found,
             Render(b, [data EXCEPT !.fav = [location |-> r.location, property |-> r.property,
                                             looking_for |-> r.looking_for]], page)
      PROVE  Rendered(b)
  <2>1. r \in Rows
    BY DEF TypeOK
  <2>2. [data EXCEPT !.fav = [location |-> r.location, property |-> r.property,
                              looking_for |-> r.looking_for]] \in Data
    BY <2>1 DEF Data, Criteria
  <2>3. QED
    BY <1>2, <2>2 DEF Rendered
<1>3. QED
  BY <1>1, <1>2 DEF RenderResults, TypeOK

LEMMA AnswersRespond ==
    ASSUME TypeOK, NEW b \in Tabs, Answer(b)
    PROVE  /\ tab[b].pc = "sent" /\ wanted' = wanted /\ shown' \subseteq Rows
           /\ Rendered(b) \/ Redirected(b) \/ Fail(b)
<1> USE DEF Asked
<1>0. Verified(b) \in Data /\ tab[b].session \in Data /\ shown \subseteq Rows
  BY VerifiedTyped DEF TypeOK
<1>e. \A v \in BOOLEAN, data \in Data :
         [data EXCEPT !.user = v] \in Data /\ [data EXCEPT !.return_to = v] \in Data
  BY DEF Data
<1>1. CASE AnswerSearch(b)
  <2>1. PICK c \in Criteria : RenderResults(b, Verified(b), Search(c), "results")
    BY <1>1 DEF AnswerSearch
  <2>2. Search(c) \in SUBSET wanted
    BY DEF Search
  <2>3. QED
    BY <1>0, <1>1, <2>1, <2>2, ResultsRender DEF AnswerSearch, Pages
<1>2. CASE AnswerSearchGet(b)
  BY <1>0, <1>2 DEF AnswerSearchGet
<1>3. CASE AnswerFavourites(b)
  <2>1. Search(tab[b].session.fav) \in SUBSET wanted
    BY DEF Search
  <2>2. QED
    BY <1>0, <1>3, <2>1, ResultsRender DEF AnswerFavourites, Pages
<1>4. CASE AnswerCart(b)
  BY <1>0, <1>e, <1>4 DEF AnswerCart, Redirected, Gets
<1>5. CASE AlreadySignedIn(b)
  BY <1>0, <1>e, <1>5 DEF AlreadySignedIn, Redirected, Gets
<1>6. CASE AnswerForm(b)
  BY <1>0, <1>6 DEF AnswerForm, Rendered, Pages
<1>7. CASE AnswerSignIn(b)
  BY <1>0, <1>e, <1>7 DEF AnswerSignIn, Rendered, Redirected, Pages, Gets
<1>8. CASE AnswerSignUp(b)
  BY <1>0, <1>e, <1>8 DEF AnswerSignUp, Rendered, Redirected, Pages, Gets
<1>9. CASE AnswerSignOut(b)
  BY <1>9, EmptyTyped DEF AnswerSignOut, Redirected, Gets
<1>10. CASE AnswerDashboard(b)
  BY <1>0, <1>10 DEF AnswerDashboard, Rendered, Pages
<1>11. CASE AnswerHome(b)
  BY <1>0, <1>11 DEF AnswerHome, Rendered, Pages
<1>12. QED
  BY <1>1, <1>2, <1>3, <1>4, <1>5, <1>6, <1>7, <1>8, <1>9, <1>10, <1>11 DEF Answer

LEMMA ResponsesTyped ==
    ASSUME TypeInv, NEW b \in Tabs, tab[b].pc = "sent",
           Rendered(b) \/ Redirected(b) \/ Fail(b)
    PROVE  /\ cookie' \in Data /\ tab' \in [Tabs -> Tab] /\ tokens' \in 0..MaxTokens
           /\ tokens' + Cardinality(Waiting') <= MaxTokens
           /\ \E t \in Tab : tab' = [tab EXCEPT ![b] = t] /\ t.pc # "sent"
<1> USE DEF TypeInv, TypeOK
<1>0. 0 \in 0..MaxTokens /\ b \in Waiting /\ Cardinality(Waiting) \in Nat
  BY FiniteWaiting DEF Waiting
<1>1. ASSUME NEW data \in Data, NEW page \in Pages, Render(b, data, page)
      PROVE  /\ cookie' \in Data /\ tokens' \in 0..MaxTokens
             /\ tokens' + Cardinality(Waiting') <= MaxTokens
             /\ \E t \in Tab : tab' = [tab EXCEPT ![b] = t] /\ t.pc # "sent"
  <2> DEFINE t == IF data.token = 0 THEN tokens + 1 ELSE data.token
  <2>1. tab' = [tab EXCEPT ![b] = Show(page, t)]
    BY <1>1 DEF Render
  <2>2. data.token \in 0..MaxTokens /\ Show(page, t).pc = "page"
    BY DEF Data, Show
  <2>3. Cardinality(Waiting') + 1 = Cardinality(Waiting) /\ Cardinality(Waiting') \in Nat
    BY <2>1, <2>2, WaitingChanges
  <2>4. t \in 0..MaxTokens
    BY <2>2, <2>3
  <2>5. Show(page, t) \in Tab
    BY <2>4, ShowTyped DEF Pages
  <2>6. tokens' = (IF data.token = 0 THEN t ELSE tokens) /\ cookie' = [data EXCEPT !.token = t]
    BY <1>1 DEF Render
  <2>7. cookie' \in Data
    BY <2>4, <2>6 DEF Data
  <2>8. tokens' \in 0..MaxTokens /\ tokens' + Cardinality(Waiting') <= MaxTokens
    <3>1. tokens' \in {tokens, tokens + 1} /\ tokens \in Nat
      BY <2>6
    <3>2. tokens + Cardinality(Waiting) <= MaxTokens
      OBVIOUS
    <3>3. QED
      BY <3>1, <3>2, <2>3, <1>0, MaxTokensAssumption
  <2>9. QED
    BY <2>1, <2>2, <2>5, <2>7, <2>8
<1>2. ASSUME NEW data \in Data, NEW url \in Gets, Redirect(b, data, url)
      PROVE  /\ cookie' \in Data /\ tokens' \in 0..MaxTokens
             /\ tokens' + Cardinality(Waiting') <= MaxTokens
             /\ \E t \in Tab : tab' = [tab EXCEPT ![b] = t] /\ t.pc # "sent"
  <2> DEFINE t == [Show(url, 0) EXCEPT !.pc = "redirect"]
  <2>1. t \in Tab /\ t.pc = "redirect"
    BY <1>0, ShowTyped DEF Tab
  <2>2. tab' = [tab EXCEPT ![b] = t] /\ cookie' = data /\ tokens' = tokens
    BY <1>2 DEF Redirect
  <2>3. Cardinality(Waiting') <= Cardinality(Waiting) /\ Cardinality(Waiting') \in Nat
    BY <2>2, WaitingChanges
  <2> HIDE DEF t
  <2>4. tokens' \in 0..MaxTokens /\ tokens' + Cardinality(Waiting') <= MaxTokens
    <3>1. tokens + Cardinality(Waiting) <= MaxTokens /\ tokens \in 0..MaxTokens
      OBVIOUS
    <3>2. QED
      BY <3>1, <2>2, <2>3, <1>0, MaxTokensAssumption
  <2>5. cookie' \in Data
    BY <2>2
  <2>6. QED
    BY <2>1, <2>2, <2>4, <2>5
<1>3. CASE Fail(b)
  <2> DEFINE t == Show("error", 0)
  <2>1. t \in Tab /\ t.pc = "page"
    BY <1>0, ShowTyped DEF Pages
  <2>2. tab' = [tab EXCEPT ![b] = t] /\ cookie' = cookie /\ tokens' = tokens
    BY <1>3 DEF Fail
  <2>3. Cardinality(Waiting') <= Cardinality(Waiting) /\ Cardinality(Waiting') \in Nat
    BY <2>2, WaitingChanges
  <2> HIDE DEF t
  <2>4. tokens' \in 0..MaxTokens /\ tokens' + Cardinality(Waiting') <= MaxTokens
    <3>1. tokens + Cardinality(Waiting) <= MaxTokens /\ tokens \in 0..MaxTokens
      OBVIOUS
    <3>2. QED
      BY <3>1, <2>2, <2>3, <1>0, MaxTokensAssumption
  <2>5. cookie' \in Data
    BY <2>2
  <2>6. QED
    BY <2>1, <2>2, <2>4, <2>5
<1>4. QED
  BY <1>1, <1>2, <1>3 DEF Rendered, Redirected

LEMMA SessionInvariant == Spec => []TypeInv
<1>1. Init => TypeInv
  <2> SUFFICES ASSUME Init PROVE TypeInv
    OBVIOUS
  <2>1. Show("error", 0) \in Tab /\ Show("error", 0).pc = "page"
    BY ShowTyped DEF Pages
  <2>2. Waiting = {}
    BY <2>1 DEF Waiting, Init
  <2>3. QED
    BY <2>1, <2>2, EmptyTyped, FS_EmptySet DEF Init, TypeInv, TypeOK
<1>2. TypeInv /\ [Next]_vars => TypeInv'
  <2> SUFFICES ASSUME TypeInv, [Next]_vars PROVE TypeInv'
    OBVIOUS
  <2> USE DEF TypeInv, TypeOK
  <2>0. tokens + Cardinality(Waiting) <= MaxTokens /\ Cardinality(Waiting) \in Nat /\ tokens \in Nat
    BY FiniteWaiting
  <2>1. ASSUME NEW b \in Tabs, Send(b) PROVE TypeInv'
    <3>1. PICK url \in Gets \cup Posts :
             tab' = [tab EXCEPT ![b] = [pc |-> "sent", at |-> url, session |-> cookie,
                                         token |-> IF url \in Posts THEN tab[b].token ELSE 0]]
      BY <2>1 DEF Send
    <3>2. tab[b].token \in 0..MaxTokens
      BY DEF Tab
    <3>3. [pc |-> "sent", at |-> url, session |-> cookie,
           token |-> IF url \in Posts THEN tab[b].token ELSE 0] \in Tab
      BY <3>2 DEF Tab
    <3>4. Cardinality(Waiting') <= Cardinality(Waiting) + 1 /\ Cardinality(Waiting') \in Nat
      BY <3>1, WaitingChanges
    <3>5. tokens + Cardinality(Waiting) < MaxTokens
      BY <2>1 DEF Send, CanSend, Waiting
    <3>6. tab' \in [Tabs -> Tab]
      BY <3>1, <3>3
    <3>7. tokens' + Cardinality(Waiting') <= MaxTokens
      BY <2>1, <2>0, <3>4, <3>5 DEF Send
    <3>8. QED
      BY <2>1, <3>6, <3>7 DEF Send
  <2>2. ASSUME NEW b \in Tabs, Follow(b) PROVE TypeInv'
    <3> DEFINE t == [tab[b] EXCEPT !.pc = "sent", !.session = cookie]
    <3>1. tab' = [tab EXCEPT ![b] = t] /\ tab[b].pc = "redirect"
      BY <2>2 DEF Follow
    <3>2. t \in Tab
      BY DEF Tab
    <3>3. Cardinality(Waiting') <= Cardinality(Waiting) /\ Cardinality(Waiting') \in Nat
      BY <3>1, WaitingChanges
    <3> HIDE DEF t
    <3>4. tab' \in [Tabs -> Tab]
      BY <3>1, <3>2
    <3>5. tokens' + Cardinality(Waiting') <= MaxTokens
      BY <2>2, <2>0, <3>3 DEF Follow
    <3>6. QED
      BY <2>2, <3>4, <3>5 DEF Follow
  <2>3. ASSUME NEW b \in Tabs, Lose(b) PROVE TypeInv'
    <3>1. tab' = [tab EXCEPT ![b] = Show("error", 0)] /\ tab[b].pc = "sent"
      BY <2>3 DEF Lose
    <3>2. Show("error", 0) \in Tab
      <4>1. 0 \in 0..MaxTokens /\ "error" \in Pages
        BY MaxTokensAssumption DEF Pages
      <4>2. QED
        BY <4>1, ShowTyped
    <3>3. Cardinality(Waiting') <= Cardinality(Waiting) /\ Cardinality(Waiting') \in Nat
      BY <3>1, WaitingChanges
    <3>4. tab' \in [Tabs -> Tab]
      BY <3>1, <3>2
    <3>5. tokens' + Cardinality(Waiting') <= MaxTokens
      BY <2>3, <2>0, <3>3 DEF Lose
    <3>6. QED
      BY <2>3, <3>4, <3>5 DEF Lose
  <2>4. ASSUME NEW b \in Tabs, Answer(b) PROVE TypeInv'
    BY <2>4, AnswersRespond, ResponsesTyped
  <2>5. ASSUME NEW r \in Rows, Publish(r) \/ Withdraw(r) PROVE TypeInv'
    BY <2>5 DEF Publish, Withdraw, Waiting
  <2>6. CASE UNCHANGED vars
    BY <2>6 DEF vars, Waiting
  <2>7. QED
    BY <2>1, <2>2, <2>3, <2>4, <2>5, <2>6 DEF Next
<1>3. QED
  BY <1>1, <1>2, PTL DEF Spec

\* Type correctness, whatever the number of tabs: the cookie and what the tabs
\* have on the way keep their shape, and the tokens their bound.
THEOREM SessionTypesCorrect == Spec => []TypeOK
<1>1. TypeInv => TypeOK
  BY DEF TypeInv
<1>2. QED
  BY <1>1, SessionInvariant, PTL

-----------------------------------------------------------------------------
(* A browser with one tab: nobody else answers between a request and its   *)
(* response, so that the session a request brought is still the cookie.    *)

Alone ==
    \A b \in Tabs : /\ tab[b].pc # "page" => b = First
                    /\ tab[b].pc = "sent" => tab[b].session = cookie

OneTabInv == OneTab => Alone /\ FavouriteWasShown

\* The favourite of a response comes from the session, from a listing on the
\* page, or there is none.
LEMMA ResultsShow ==
    ASSUME TypeOK, FavouriteWasShown, NEW b \in Tabs, NEW data \in {cookie, Empty},
           NEW found \in SUBSET wanted, NEW page, RenderResults(b, data, found, page)
    PROVE  FavouriteWasShown'
<1>0. cookie \in Data /\ data \in Data /\ found \subseteq Rows
  BY EmptyTyped DEF TypeOK
<1>1. shown' = (IF data = Empty THEN found ELSE shown \cup found)
  BY DEF RenderResults
<1>2. CASE found = {} /\ Render(b, data, page)
  <2>1. cookie'.fav = data.fav
    BY <1>0, <1>2 DEF Render, Data
  <2>2. CASE data = Empty
    BY <2>1, <2>2, EmptyTyped DEF FavouriteWasShown
  <2>3. CASE data # Empty
    BY <1>1, <2>1, <2>3 DEF FavouriteWasShown
  <2>4. QED
    BY <2>2, <2>3
<1>3. ASSUME NEW r \in found,
             Render(b, [data EXCEPT !.fav = [location |-> r.location, property |-> r.property,
                                             looking_for |-> r.looking_for]], page)
      PROVE  FavouriteWasShown'
  <2>1. cookie'.fav = [location |-> r.location, property |-> r.property, looking_for |-> r.looking_for]
    BY <1>0, <1>3 DEF Render, Data
  <2>2. r \in shown' /\ r \in Rows
    BY <1>0, <1>1
  <2>3. QED
    BY <2>1, <2>2, RowsAssumption DEF FavouriteWasShown
<1>4. QED
  BY <1>2, <1>3 DEF RenderResults

LEMMA AnswersShow ==
    ASSUME TypeOK, Alone, FavouriteWasShown, NEW b \in Tabs, Answer(b)
    PROVE  FavouriteWasShown'
<1> USE DEF Asked
<1>0. tab[b].session = cookie /\ cookie \in Data /\ Verified(b) \in {cookie, Empty}
  BY AnswersRespond, VerifiedTyped DEF Alone, TypeOK
<1>1. CASE AnswerSearch(b)
  <2>1. PICK c \in Criteria : RenderResults(b, Verified(b), Search(c), "results")
    BY <1>1 DEF AnswerSearch
  <2>2. Search(c) \in SUBSET wanted
    BY DEF Search
  <2>3. QED
    BY <1>0, <2>1, <2>2, ResultsShow
<1>2. CASE AnswerSearchGet(b)
  BY <1>2 DEF AnswerSearchGet, Fail, FavouriteWasShown
<1>3. CASE AnswerFavourites(b)
  <2>1. Search(tab[b].session.fav) \in SUBSET wanted
    BY DEF Search
  <2>2. RenderResults(b, cookie, Search(tab[b].session.fav), "favourites")
    BY <1>0, <1>3 DEF AnswerFavourites
  <2>3. QED
    BY <2>1, <2>2, ResultsShow
<1>4. ASSUME shown' = shown, cookie'.fav = cookie.fav PROVE FavouriteWasShown'
  BY <1>4 DEF FavouriteWasShown
<1>5. CASE AnswerCart(b)
  <2>1. shown' = shown /\ cookie'.fav = cookie.fav
    BY <1>0, <1>5 DEF AnswerCart, Redirect, Data
  <2>2. QED
    BY <1>4, <2>1
<1>6. CASE AlreadySignedIn(b)
  <2>1. shown' = shown /\ cookie'.fav = cookie.fav
    BY <1>0, <1>6 DEF AlreadySignedIn, Redirect, Data
  <2>2. QED
    BY <1>4, <2>1
<1>7. CASE AnswerForm(b) \/ AnswerHome(b)
  <2>1. shown' = shown /\ cookie'.fav = cookie.fav
    BY <1>0, <1>7 DEF AnswerForm, AnswerHome, Render, Data
  <2>2. QED
    BY <1>4, <2>1
<1>8. CASE AnswerDashboard(b)
  <2>1. shown' = shown /\ cookie'.fav = cookie.fav
    BY <1>0, <1>8 DEF AnswerDashboard, Render, Fail, Data
  <2>2. QED
    BY <1>4, <2>1
<1>9. CASE AnswerSignIn(b) \/ AnswerSignUp(b)
  <2>1. /\ cookie'.fav = Verified(b).fav
        /\ shown' = IF Verified(b) = Empty THEN {} ELSE shown
    <3>1. Verified(b) \in Data
      BY VerifiedTyped
    <3>2. QED
      BY <1>9, <3>1 DEF AnswerSignIn, AnswerSignUp, Render, Redirect, Data
  <2>2. CASE Verified(b) = Empty
    BY <2>1, <2>2, EmptyTyped DEF FavouriteWasShown
  <2>3. CASE Verified(b) # Empty
    BY <1>0, <1>4, <2>1, <2>3
  <2>4. QED
    BY <2>2, <2>3
<1>10. CASE AnswerSignOut(b)
  BY <1>10, EmptyTyped DEF AnswerSignOut, Redirect, FavouriteWasShown
<1>11. QED
  BY <1>1, <1>2, <1>3, <1>5, <1>6, <1>7, <1>8, <1>9, <1>10 DEF Answer

LEMMA OneTabStep ==
    ASSUME TypeInv, OneTabInv, OneTab, MCNext
    PROVE  Alone' /\ FavouriteWasShown'
<1> USE DEF TypeInv, TypeOK
<1>0. Alone /\ FavouriteWasShown /\ \A b \in Tabs : b # First => tab'[b] = tab[b]
  BY DEF OneTabInv, MCNext
<1>1. ASSUME NEW b \in Tabs, Send(b) PROVE Alone' /\ FavouriteWasShown'
  <2>1. PICK url : tab' = [tab EXCEPT ![b] = [pc |-> "sent", at |-> url, session |-> cookie,
                                         token |-> IF url \in Posts THEN tab[b].token ELSE 0]]
    BY <1>1 DEF Send
  <2>2. tab'[b].pc = "sent" /\ tab'[b].session = cookie /\ tab[b].pc = "page" /\ cookie' = cookie
    BY <1>1, <2>1 DEF Send
  <2>3. b = First
    BY <1>0, <2>2
  <2>4. \A c \in Tabs : c # b => tab'[c] = tab[c]
    BY <2>1
  <2>5. Alone'
    BY <1>0, <2>2, <2>3, <2>4 DEF Alone
  <2>6. QED
    BY <1>0, <1>1, <2>5 DEF Send, FavouriteWasShown
<1>2. ASSUME NEW b \in Tabs, Follow(b) PROVE Alone' /\ FavouriteWasShown'
  <2>1. tab'[b].session = cookie /\ tab[b].pc = "redirect" /\ cookie' = cookie
    BY <1>2 DEF Follow, Tab
  <2>2. \A c \in Tabs : c # b => tab'[c] = tab[c]
    BY <1>2 DEF Follow
  <2>3. Alone'
    BY <1>0, <2>1, <2>2 DEF Alone
  <2>4. QED
    BY <1>0, <1>2, <2>3 DEF Follow, FavouriteWasShown
<1>3. ASSUME NEW b \in Tabs, Lose(b) PROVE Alone' /\ FavouriteWasShown'
  <2>1. tab'[b].pc = "page" /\ cookie' = cookie /\ \A c \in Tabs : c # b => tab'[c] = tab[c]
    BY <1>3 DEF Lose, Show
  <2>2. Alone'
    BY <1>0, <2>1 DEF Alone
  <2>3. QED
    BY <1>0, <1>3, <2>2 DEF Lose, FavouriteWasShown
<1>4. ASSUME NEW b \in Tabs, Answer(b) PROVE Alone' /\ FavouriteWasShown'
  <2>1. tab[b].pc = "sent"
    BY <1>4, AnswersRespond
  <2>2. PICK t \in Tab : tab' = [tab EXCEPT ![b] = t] /\ t.pc # "sent"
    BY <1>4, <2>1, AnswersRespond, ResponsesTyped
  <2>3. Alone'
    BY <1>0, <2>1, <2>2 DEF Alone
  <2>4. QED
    BY <1>0, <1>4, <2>3, AnswersShow
<1>5. ASSUME NEW r \in Rows, Publish(r) \/ Withdraw(r) PROVE Alone' /\ FavouriteWasShown'
  BY <1>0, <1>5 DEF Publish, Withdraw, Alone, FavouriteWasShown
<1>6. QED
  BY <1>1, <1>2, <1>3, <1>4, <1>5 DEF MCNext, Next

\* home#search_properties and home#add_to_favourites with one tab open: what
\* the favourites page will search for is one listing that this browser was
\* shown since its last sign-out, whatever other users publish meanwhile.
THEOREM OneTabFavouriteWasShown == MCSpec => []FavouriteWasShownInOneTab
<1>1. MCInit => Init
  BY DEF MCInit
<1>2. [MCNext]_<<vars, browser>> => [Next]_vars
  BY DEF MCNext, vars
<1>3. MCSpec => []TypeInv
  BY <1>1, <1>2, SessionInvariant, PTL DEF MCSpec, Spec
<1>4. MCInit => OneTabInv
  <2> SUFFICES ASSUME Init PROVE Alone /\ FavouriteWasShown
    BY DEF MCInit, OneTabInv
  <2>1. \A b \in Tabs : tab[b].pc = "page"
    BY DEF Init, Show
  <2>2. QED
    BY <2>1, EmptyTyped DEF Init, Alone, FavouriteWasShown
<1>5. TypeInv /\ OneTabInv /\ [MCNext]_<<vars, browser>> => OneTabInv'
  <2> SUFFICES ASSUME TypeInv, OneTabInv, [MCNext]_<<vars, browser>> PROVE OneTabInv'
    OBVIOUS
  <2>1. CASE MCNext
    BY <2>1, OneTabStep DEF OneTabInv, OneTab, MCNext
  <2>2. CASE UNCHANGED <<vars, browser>>
    BY <2>2 DEF OneTabInv, OneTab, Alone, FavouriteWasShown, vars
  <2>3. QED
    BY <2>1, <2>2
<1>6. OneTabInv => FavouriteWasShownInOneTab
  BY DEF OneTabInv, FavouriteWasShownInOneTab
<1>7. QED
  BY <1>3, <1>4, <1>5, <1>6, PTL DEF MCSpec
=============================================================================
