------------------------------- MODULE Sessions -------------------------------
(***************************************************************************)
(* One account's sessions: the refresh-token rows of routes/auth.py, the   *)
(* emailed links of routes/account.py, and the browsers that hold a token  *)
(* in a storage shared by their tabs (api/auth.ts, hooks/useAuth.ts).      *)
(*                                                                         *)
(* Postgres runs at READ COMMITTED: a handler that looks at a row and      *)
(* writes at the end of its request is two steps here, a handler whose one *)
(* UPDATE decides is one, taken when that statement starts: rows inserted  *)
(* by others and not committed by then are not in its snapshot. Every      *)
(* request is a record of its own and outlives a client that stopped       *)
(* waiting for it. Access tokens are stateless: that one has expired is    *)
(* the event that starts a refresh, at any time.                           *)
(***************************************************************************)
EXTENDS Naturals, Sequences, FiniteSets

CONSTANTS
  Tabs,         \* browser tabs
  Browsers,     \* each with one localStorage
  BrowserOf,    \* the browser of a tab
  MaxRequests,  \* bound on the requests of a behaviour, whatever their kind
  RequireVerification, \* settings.require_email_verification
  Faulty        \* whether requests and answers get lost, handlers fail, tabs reload

\* Who sends a request that no tab waits for.
Nobody == "nobody"

ASSUME SessionsAssumption ==
  /\ BrowserOf \in [Tabs -> Browsers]
  /\ \A b \in Browsers : \E t \in Tabs : BrowserOf[t] = b
  /\ MaxRequests \in Nat
  /\ RequireVerification \in BOOLEAN /\ Faulty \in BOOLEAN
  /\ Nobody \notin Tabs

VARIABLES
  row,      \* refresh_tokens in insertion order: [family, revoked, by, late]
  closed,   \* families that a logout, a replay or a reset has revoked (history)
  link,     \* one_time_tokens in insertion order: [purpose, used, seen]
  verified, \* users.email_verified_at IS NOT NULL
  req,      \* requests in the order they were sent: [kind, tab, arg, step, got,
            \* late, and gone: its tab no longer waits for it]
  storage,  \* the refresh token in a browser's localStorage, 0 for none
  flight,   \* inFlightRefresh of a tab, the index of a request or 0
  busy,     \* the sign-in or sign-out a tab waits for, the index of a request or 0
  screen,   \* status of useAuth in a tab
  stray     \* the stored token was put there by a tab nobody is signed in at (history)

server == <<row, closed, link, verified>>
client == <<storage, flight, busy, screen, stray>>
vars == <<server, req, client>>

Kinds == {"login", "refresh", "logout", "logoutAll", "forgot", "resend", "reset", "verify"}
\* "done": the client has the answer, the other steps are the server's.
Steps == {"sent", "read", "granted", "refused", "done"}

Live(k) == ~row[k].revoked
FamilyOf(k) == row[k].family
Families == {FamilyOf(k) : k \in DOMAIN row}

NewToken(family, late) ==
  [family |-> family, revoked |-> FALSE, by |-> {}, late |-> late]

\* A new account, or one with a session from an earlier visit; each
\* tab decides on loading whether there is a stored token to verify.
Init ==
  \E old \in BOOLEAN :
    /\ row = IF old THEN <<NewToken(1, FALSE)>> ELSE <<>>
    /\ storage \in [Browsers -> IF old THEN {0, 1} ELSE {0}]
    /\ Cardinality({b \in Browsers : storage[b] # 0}) <= 1
    /\ closed = {} /\ link = <<>> /\ verified = FALSE
    /\ req = <<>>
    /\ flight = [t \in Tabs |-> 0] /\ busy = [t \in Tabs |-> 0]
    /\ screen = [t \in Tabs |-> IF storage[BrowserOf[t]] # 0 THEN "checking" ELSE "anonymous"]
    /\ stray = [b \in Browsers |-> FALSE]

-----------------------------------------------------------------------------
(* The client: api/auth.ts and useAuth.ts. *)

Send(kind, t, arg) ==
  /\ Len(req) < MaxRequests
  /\ req' = Append(req, [kind |-> kind, tab |-> t, arg |-> arg, step |-> "sent",
                         got |-> 0, late |-> FALSE, gone |-> FALSE])

Store(b, k, unattended) ==
  /\ storage' = [storage EXCEPT ![b] = k]
  /\ stray' = [stray EXCEPT ![b] = unattended]
\* Mutant: the refresh token is forgotten by clear().
ClearKeepingRefresh(b) == UNCHANGED <<storage, stray>>
Clear(b) == Store(b, 0, FALSE)

Show(t, what) == screen' = [screen EXCEPT ![t] = what]

\* Mutant: every 401 refreshes for itself, as before inFlightRefresh.
MayRefreshAlways(t) == storage[BrowserOf[t]] # 0
\* Callers of one tab share the refresh in flight; the other tabs do not know it.
MayRefresh(t) == flight[t] = 0 /\ storage[BrowserOf[t]] # 0

\* Any call of a tab may meet a 401, on the sign-in screen too when it was
\* issued before; a tab that is checking refreshes first of all.
Refresh(t) ==
  /\ MayRefresh(t)
  /\ Send("refresh", t, storage[BrowserOf[t]])
  /\ flight' = [flight EXCEPT ![t] = Len(req) + 1]
  /\ UNCHANGED <<server, storage, busy, screen, stray>>

\* Mutant: the effect does not catch the rejection.
CheckFailsUncaught(t) ==
  /\ screen[t] = "checking" /\ flight[t] = 0 /\ storage[BrowserOf[t]] = 0
  /\ UNCHANGED vars
\* There is nothing to refresh with any more: refreshAccessToken rejects and the
\* tab that was checking shows the sign-in screen.
CheckFails(t) ==
  /\ screen[t] = "checking" /\ flight[t] = 0 /\ storage[BrowserOf[t]] = 0
  /\ Clear(BrowserOf[t]) /\ Show(t, "anonymous")
  /\ UNCHANGED <<server, req, flight, busy>>

SignIn(t) ==
  /\ screen[t] = "anonymous" /\ busy[t] = 0
  /\ Send("login", t, 0)
  /\ busy' = [busy EXCEPT ![t] = Len(req) + 1]
  /\ UNCHANGED <<server, storage, flight, screen, stray>>

SignOut(t) ==
  /\ screen[t] = "authenticated" /\ busy[t] = 0
  /\ IF storage[BrowserOf[t]] # 0
     THEN /\ Send("logout", t, storage[BrowserOf[t]])
          /\ busy' = [busy EXCEPT ![t] = Len(req) + 1]
          /\ UNCHANGED <<storage, screen, stray>>
     ELSE /\ Clear(BrowserOf[t]) /\ Show(t, "anonymous")
          /\ UNCHANGED <<req, busy>>
  /\ UNCHANGED <<server, flight>>

\* What fetch gives the caller: the answer, or a rejection while the request goes
\* its own way.
Answered(q, step) == req[q].step = step /\ req' = [req EXCEPT ![q].step = "done"]
NoAnswer(q) ==
  \/ Answered(q, "refused")
  \/ Faulty /\ req' = [req EXCEPT ![q].gone = TRUE]

RefreshAnswered(t) ==
  /\ flight[t] # 0 /\ Answered(flight[t], "granted")
  /\ Store(BrowserOf[t], req[flight[t]].got, screen[t] = "anonymous")
  /\ Show(t, IF screen[t] = "checking" THEN "authenticated" ELSE screen[t])
  /\ flight' = [flight EXCEPT ![t] = 0]
  /\ UNCHANGED <<server, busy>>

\* Any failure ends the session in this browser, a lost connection included.
RefreshFails(t) ==
  /\ flight[t] # 0 /\ NoAnswer(flight[t])
  /\ Clear(BrowserOf[t]) /\ Show(t, "anonymous")
  /\ flight' = [flight EXCEPT ![t] = 0]
  /\ UNCHANGED <<server, busy>>

Waits(t, kind) == busy[t] # 0 /\ req[busy[t]].kind = kind

SignInAnswered(t) ==
  /\ Waits(t, "login") /\ Answered(busy[t], "granted")
  /\ Store(BrowserOf[t], req[busy[t]].got, FALSE) /\ Show(t, "authenticated")
  /\ busy' = [busy EXCEPT ![t] = 0]
  /\ UNCHANGED <<server, flight>>

SignInFails(t) ==
  /\ Waits(t, "login") /\ NoAnswer(busy[t])
  /\ busy' = [busy EXCEPT ![t] = 0]
  /\ UNCHANGED <<server, storage, flight, screen, stray>>

\* "Best-effort: local state must clear even if the network call fails."
SignOutEnds(t) ==
  /\ Waits(t, "logout") /\ (Answered(busy[t], "granted") \/ NoAnswer(busy[t]))
  /\ Clear(BrowserOf[t]) /\ Show(t, "anonymous")
  /\ busy' = [busy EXCEPT ![t] = 0]
  /\ UNCHANGED <<server, flight>>

\* The page is loaded again: module state is gone, the storage is not.
Reload(t) ==
  /\ Faulty
  /\ Show(t, IF storage[BrowserOf[t]] # 0 THEN "checking" ELSE "anonymous")
  /\ req' = [q \in DOMAIN req |->
               [req[q] EXCEPT !.gone = @ \/ q \in {flight[t], busy[t]}]]
  /\ flight' = [flight EXCEPT ![t] = 0] /\ busy' = [busy EXCEPT ![t] = 0]
  /\ UNCHANGED <<server, storage, stray>>

\* Calls that leave no trace in the browser: sign out everywhere, ask for a link,
\* follow one that was mailed, be it the newest or not.
Ask ==
  /\ \/ \E kind \in {"logoutAll", "forgot", "resend"} : Send(kind, Nobody, 0)
     \/ \E i \in DOMAIN link : Send(link[i].purpose, Nobody, i)
  /\ UNCHANGED <<server, client>>

-----------------------------------------------------------------------------
(* The server: routes/auth.py and routes/account.py. *)

To(q, step) == [req EXCEPT ![q].step = step]
Takes(q, kind) == req[q].kind = kind /\ req[q].step = "sent"
Ends(q, kind) == req[q].kind = kind /\ req[q].step = "read"

\* Mutant: only the token that was presented is revoked, not its family.
CloseOnePresented(F, q, step) ==
  /\ row' = [k \in DOMAIN row |->
               [row[k] EXCEPT !.revoked = @ \/ (FamilyOf(k) \in F /\ k = req[q].arg)]]
  /\ closed' = closed \cup F
  /\ req' = To(q, step)
\* UPDATE ... SET revoked_at WHERE family_id (or user_id) AND revoked_at IS NULL,
\* and commit. A refresh that has read its token by now is overtaken: `late`.
Close(F, q, step) ==
  /\ row' = [k \in DOMAIN row |->
               [row[k] EXCEPT !.revoked = @ \/ FamilyOf(k) \in F]]
  /\ closed' = closed \cup F
  /\ req' = [p \in DOMAIN req |->
               IF p = q THEN [req[p] EXCEPT !.step = step]
               ELSE [req[p] EXCEPT !.late =
                       @ \/ (Ends(p, "refresh") /\ FamilyOf(req[p].arg) \in F)]]

\* verify_password and _issue_tokens: a family of its own.
Login(q) ==
  /\ Takes(q, "login")
  /\ \/ /\ row' = Append(row, NewToken(Len(row) + 1, FALSE))
        /\ req' = [req EXCEPT ![q].step = "granted", ![q].got = Len(row) + 1]
     \/ req' = To(q, "refused") /\ UNCHANGED row
  /\ UNCHANGED <<closed, link, verified, client>>

\* refresh() up to the point where it has decided, on the row as it was read.
ReadToken(q) ==
  /\ Takes(q, "refresh") /\ Live(req[q].arg)
  /\ req' = To(q, "read")
  /\ UNCHANGED <<server, client>>

\* expires_at has passed.
RefuseExpired(q) ==
  /\ Takes(q, "refresh") /\ Live(req[q].arg)
  /\ req' = To(q, "refused")
  /\ UNCHANGED <<server, client>>

\* A revoked token is presented: its family is revoked, and that is committed
\* before the handler raises.
Replay(q) ==
  /\ Takes(q, "refresh") /\ ~Live(req[q].arg)
  /\ Close({FamilyOf(req[q].arg)}, q, "refused")
  /\ UNCHANGED <<link, verified, client>>

\* The commit: UPDATE by primary key, whatever the row has become, and INSERT.
Rotate(q) ==
  LET k == req[q].arg IN
  /\ Ends(q, "refresh")
  /\ row' = Append([row EXCEPT ![k].revoked = TRUE, ![k].by = @ \cup {q}],
                   NewToken(FamilyOf(k), req[q].late \/ row[k].late))
  /\ req' = [req EXCEPT ![q].step = "granted", ![q].got = Len(row) + 1]
  /\ UNCHANGED <<closed, link, verified, client>>

Logout(q) ==
  /\ Takes(q, "logout")
  /\ Close({FamilyOf(req[q].arg)}, q, "granted")
  /\ UNCHANGED <<link, verified, client>>

LogoutAll(q) ==
  /\ Takes(q, "logoutAll")
  /\ Close(Families, q, "granted")
  /\ UNCHANGED <<link, verified, client>>

\* forgot_password and resend_verification: the UPDATE that retires the older
\* links starts; `got` is how many there are in its snapshot. A confirmed address
\* needs no link, and resend asks for a CurrentUser, which an account that must
\* confirm first is not (deps.py).
Retire(q) ==
  /\ \/ Takes(q, "forgot")
     \/ Takes(q, "resend") /\ ~verified /\ ~RequireVerification
  /\ req' = [req EXCEPT ![q].step = "read", ![q].got = Len(link)]
  /\ UNCHANGED <<server, client>>

NoLinkNeeded(q) ==
  /\ Takes(q, "resend") /\ (verified \/ RequireVerification)
  /\ req' = To(q, IF verified THEN "granted" ELSE "refused")
  /\ UNCHANGED <<server, client>>

Purpose(q) == IF req[q].kind = "forgot" THEN "reset" ELSE "verify"

\* Mutant: older links stay usable.
RetiredNone(q) == link
Retired(q) ==
  [i \in DOMAIN link |->
     [link[i] EXCEPT !.used = @ \/ (i <= req[q].got /\ link[i].purpose = Purpose(q))]]

IssueLink(q) ==
  /\ Ends(q, "forgot") \/ Ends(q, "resend")
  /\ link' = Append(Retired(q), [purpose |-> Purpose(q), used |-> FALSE, seen |-> req[q].got])
  /\ req' = To(q, "granted")
  /\ UNCHANGED <<row, closed, verified, client>>

\* verify_email and reset_password look at the link; it may have expired, the new
\* password may be too weak, and that leaves the link usable.
ReadLink(q) ==
  /\ Takes(q, "verify") \/ Takes(q, "reset")
  /\ \/ ~link[req[q].arg].used /\ req' = To(q, "read")
     \/ req' = To(q, "refused")
  /\ UNCHANGED <<server, client>>

Confirm(q) ==
  /\ link' = [link EXCEPT ![req[q].arg].used = TRUE]
  /\ verified' = TRUE

VerifyEmail(q) ==
  /\ Ends(q, "verify") /\ Confirm(q)
  /\ req' = To(q, "granted")
  /\ UNCHANGED <<row, closed, client>>

\* "A reset is the remedy for a compromised account": every session goes.
ResetPassword(q) ==
  /\ Ends(q, "reset") /\ Confirm(q)
  /\ Close(Families, q, "granted")
  /\ UNCHANGED client

\* The handler raises and get_session rolls back, or the request never arrives.
HandlerFails(q) ==
  /\ Faulty /\ req[q].step \in {"sent", "read"}
  /\ req' = To(q, "refused")
  /\ UNCHANGED <<server, client>>

ServerStep(q) ==
  \/ Login(q) \/ ReadToken(q) \/ RefuseExpired(q) \/ Replay(q) \/ Rotate(q)
  \/ Logout(q) \/ LogoutAll(q) \/ Retire(q) \/ NoLinkNeeded(q) \/ IssueLink(q)
  \/ ReadLink(q) \/ VerifyEmail(q) \/ ResetPassword(q) \/ HandlerFails(q)

Settle(t) ==
  \/ RefreshAnswered(t) \/ RefreshFails(t) \/ SignInAnswered(t) \/ SignInFails(t)
  \/ SignOutEnds(t)

Next ==
  \/ \E q \in DOMAIN req : ServerStep(q)
  \/ \E t \in Tabs : \/ Refresh(t) \/ CheckFails(t) \/ SignIn(t) \/ SignOut(t)
                     \/ Settle(t) \/ Reload(t)
  \/ Ask

Spec == Init /\ [][Next]_vars

\* The server serves what reached it, fetch settles, and the effect of a checking
\* tab runs. Nobody has to click anything.
FairSpec ==
  /\ Spec
  /\ \A q \in 1 .. MaxRequests : WF_vars(q \in DOMAIN req /\ ServerStep(q))
  /\ \A t \in Tabs : /\ WF_vars(Settle(t)) /\ WF_vars(CheckFails(t))
                    /\ WF_vars(screen[t] = "checking" /\ Refresh(t))

-----------------------------------------------------------------------------
(* Correctness. *)

Token == [family : Nat, revoked : BOOLEAN, by : SUBSET Nat, late : BOOLEAN]
Link == [purpose : {"reset", "verify"}, used : BOOLEAN, seen : Nat]
Request == [kind : Kinds, tab : Tabs \cup {Nobody}, arg : Nat, step : Steps,
            got : Nat, late : BOOLEAN, gone : BOOLEAN]
TypeOK ==
  /\ row \in Seq(Token)
  /\ closed \subseteq Nat
  /\ link \in Seq(Link)
  /\ verified \in BOOLEAN
  /\ req \in Seq(Request)
  /\ storage \in [Browsers -> Nat]
  /\ flight \in [Tabs -> Nat] /\ busy \in [Tabs -> Nat]
  /\ screen \in [Tabs -> {"checking", "authenticated", "anonymous"}]
  /\ stray \in [Browsers -> BOOLEAN]

\* A session that was ended stays ended: once a logout, a replay, a sign-out
\* everywhere or a password reset has revoked a family, a live token of it comes
\* only from a refresh that had read its token before (routes/auth.py:96-151,
\* account.py:180-185).
EndedStaysEnded ==
  \A k \in DOMAIN row : Live(k) /\ FamilyOf(k) \in closed => row[k].late

\* A tab that hears its answers is never taken for a replay of itself: the token
\* of the refresh it waits for is revoked only if the session was ended, another
\* tab rotated that token, or the tab missed the answer to its own rotation
\* (api/auth.ts:4-7).
RotatedUnheard(q) ==
  \E p \in row[req[q].arg].by : req[p].tab # req[q].tab \/ req[p].gone
ReplayExplained ==
  \A t \in Tabs :
    LET q == flight[t] IN
    q # 0 /\ Takes(q, "refresh") /\ ~Live(req[q].arg) =>
      FamilyOf(req[q].arg) \in closed \/ RotatedUnheard(q)

\* Where nobody is signed in no token is left behind, except by a refresh that
\* was answered after its tab had signed out (api/auth.ts:105-128).
NothingLeftBehind ==
  \A b \in Browsers :
    (\A t \in Tabs : BrowserOf[t] = b => screen[t] = "anonymous") =>
      storage[b] = 0 \/ stray[b]

\* The newest link is the only one that works, unless it was asked for before
\* the older one was committed (account.py:36-62, 118-140).
OneWorkingLink ==
  \A i, j \in DOMAIN link :
    i < j /\ link[i].purpose = link[j].purpose /\ ~link[i].used /\ ~link[j].used =>
      link[j].seen < i

\* A tab never stays at its check: it shows the app or the sign-in screen
\* (useAuth.ts:19-45), unless it has yet to send a request and the bound on them
\* is reached.
OutOfRequests(t) == Len(req) = MaxRequests /\ flight[t] = 0
CheckingEnds ==
  \A t \in Tabs :
    screen[t] = "checking" ~> (screen[t] # "checking" \/ OutOfRequests(t))

=============================================================================
