---------------------------- MODULE BrowserAdapter --------------------------
(***************************************************************************)
(* lotorhttp/browseradapter: the handler between a browser and the remote  *)
(* Lotor API.  It keeps no state of its own: the session, its CSRF value,  *)
(* the key claim and the capability tokens live in cookies, which several  *)
(* tabs of one browser share while requests and answers cross.             *)
(*                                                                         *)
(* A sign-in is a number.  The access token, the CSRF value and the claim  *)
(* token that belong to it are modelled by that number; a capability token *)
(* by the path it was issued for and the sign-in that asked.  A path is    *)
(* the sequence of its segments, without the last one, which the route     *)
(* gives.  The browser, the network and the remote API are external.       *)
(***************************************************************************)
EXTENDS Naturals, Sequences

CONSTANTS
    Requests,    \* requests of the browser's tabs
    Segments,    \* the segments of paths
    Paths,       \* where the links, payloads or executions of resources are
    MaxSignIns,  \* bound on the sign-ins
    None

ASSUME AdapterAssumption == MaxSignIns \in Nat /\ None \notin Nat

\* The capability cookies of one name are for paths of one form (resourceRoute),
\* which have the same number of segments.
ASSUME PathsAssumption ==
    /\ Paths \subseteq Seq(Segments)
    /\ \A p, q \in Paths : Len(p) = Len(q)

VARIABLES
    jar,      \* the browser's cookies
    last,     \* the request whose answer set or cleared the session last
    read,     \* the CSRF values that some page has read from its cookie
    signIns,  \* the sign-ins so far, which the remote API numbers
    claims,   \* the sign-ins that need a key claim
    live,     \* the sign-ins that the remote API accepts
    ended,    \* the sign-ins that were signed out
    req       \* the requests

vars == <<jar, last, read, signIns, claims, live, ended, req>>

SignIn == 1..MaxSignIns
EmptyJar == [session |-> None, csrf |-> None, claim |-> None, tokens |-> {}]

(***************************************************************************)
(* The routes, by what the handler does for them.  "public" stands for the *)
(* configuration, the pricing and the start of a sign-in.                  *)
(***************************************************************************)
Application == {"public", "verify", "session", "signout"}
Native == {"read", "mutate", "claim", "transfer", "preflight", "commit"}
Routes == Application \cup Native

\* The routes for which the CSRF header must equal the CSRF cookie.
CsrfRoutes == {"signout", "mutate", "transfer", "preflight", "commit"}
ClaimRoutes == {"claim", "transfer"}

\* The requests for which the session cookie becomes the bearer.
BearerRoutes == Native \cup {"session", "signout"}

NoCookies == [cookie |-> "none"]

Init ==
    /\ jar = EmptyJar
    /\ last = None
    /\ read = {}
    /\ signIns = 0
    /\ claims = {} /\ live = {} /\ ended = {}
    /\ req = [r \in Requests |-> [pc |-> "idle"]]

-----------------------------------------------------------------------------
\* A page reads the CSRF cookie, which is not HttpOnly.
ReadCsrf ==
    /\ jar.csrf # None
    /\ read' = read \cup {jar.csrf}
    /\ UNCHANGED <<jar, last, signIns, claims, live, ended, req>>

\* The URL of a preflight, an upload or a commit.
Url(path, route) == Append(path, route)

\* The capability cookies that the browser attaches to a commit: those whose
\* Path is a prefix of its URL.
PathMatches(p, url) == Len(p) <= Len(url) /\ SubSeq(url, 1, Len(p)) = p
Attached(cookies, path) == {c \in cookies.tokens : PathMatches(c.path, Url(path, "commit"))}

\* cookieValue: the token of the cookie, if there is exactly one.
CapabilityToken(cookies, path) ==
    IF \E c \in cookies.tokens : Attached(cookies, path) = {c}
    THEN (CHOOSE c \in cookies.tokens : Attached(cookies, path) = {c}).token
    ELSE None

\* Mutant: it is enough that there are a header and a cookie.
ProvenByPresence(route, path, header, cookies) ==
    /\ route \in CsrfRoutes => header # None /\ cookies.csrf # None
    /\ route \in Native => cookies.session # None
    /\ route \in ClaimRoutes => cookies.claim # None
    /\ route = "commit" => CapabilityToken(cookies, path) # None

\* The checks of ServeHTTP that read cookies.
Proven(route, path, header, cookies) ==
    /\ route \in CsrfRoutes => header # None /\ header = cookies.csrf
    /\ route \in Native => cookies.session # None
    /\ route \in ClaimRoutes => cookies.claim # None
    /\ route = "commit" => CapabilityToken(cookies, path) # None

Request(route, path, header, pc, result) ==
    [pc |-> pc, route |-> route, path |-> path, header |-> header, cookies |-> jar,
     answer |-> NoCookies, result |-> result, started |-> None]

\* A page sends a request with the cookies of this moment.  The handler
\* forwards it or refuses it; `proper' stands for the checks of host, origin,
\* key, route, query, size and body, which depend on the request alone.
Send(r, route, path, header, proper) ==
    /\ req[r].pc = "idle"
    /\ header \in read \cup {None}
    /\ req' = [req EXCEPT ![r] =
         IF proper /\ Proven(route, path, header, jar)
         THEN Request(route, path, header, "remote", "none")
         ELSE Request(route, path, header, "done", "refused")]
    /\ UNCHANGED <<jar, last, read, signIns, claims, live, ended>>

-----------------------------------------------------------------------------
AnswersSignIn(r, n, result, cookies) ==
    req' = [req EXCEPT ![r] = [@ EXCEPT !.pc = "answer", !.result = result, !.answer = cookies, !.started = n]]
Answers(r, result, cookies) == AnswersSignIn(r, None, result, cookies)

Forwarded(r, routes) == req[r].pc = "remote" /\ req[r].route \in routes

Bearer(r) == req[r].cookies.session
Accepted(r) == req[r].route \in BearerRoutes => Bearer(r) \in live

\* The remote API cannot be reached, answers with a redirect or an error.
RemoteFails(r) ==
    /\ req[r].pc = "remote"
    /\ Answers(r, "error", NoCookies)
    /\ UNCHANGED <<jar, last, read, signIns, claims, live, ended>>

\* A request that sets no cookie succeeds.
RemoteServes(r) ==
    /\ Forwarded(r, Routes \ {"verify", "signout", "preflight"})
    /\ Accepted(r)
    /\ Answers(r, "ok", NoCookies)
    /\ UNCHANGED <<jar, last, read, signIns, claims, live, ended>>

\* finishVerification: the remote API starts a session.  The handler answers
\* with the cookies of the sign-in, or with an error when the answer of the
\* remote API is unusable.
FinishVerification(r, required, usable) ==
    LET n == signIns + 1 IN
    /\ Forwarded(r, {"verify"})
    /\ signIns < MaxSignIns
    /\ signIns' = n
    /\ claims' = IF required THEN claims \cup {n} ELSE claims
    /\ live' = live \cup {n}
    /\ IF usable THEN AnswersSignIn(r, n, "ok", [cookie |-> "sign_in", by |-> n])
       ELSE AnswersSignIn(r, n, "error", NoCookies)
    /\ UNCHANGED <<jar, last, read, ended>>

\* DELETE /session: the handler clears the cookies when the remote API has
\* ended the session, unless it could not read the whole answer.
SignOut(r, readable) ==
    /\ Forwarded(r, {"signout"})
    /\ Accepted(r)
    /\ live' = live \ {Bearer(r)}
    /\ ended' = ended \cup {Bearer(r)}
    /\ IF readable THEN Answers(r, "ok", [cookie |-> "clear"])
       ELSE Answers(r, "error", NoCookies)
    /\ UNCHANGED <<jar, last, read, signIns, claims>>

\* A preflight or an upload yields a token, which the handler turns into a
\* cookie, or into an error when it is unusable.
Preflight(r, usable) ==
    /\ Forwarded(r, {"preflight"})
    /\ Accepted(r)
    /\ IF usable
       THEN Answers(r, "ok", [cookie |-> "token", token |-> [path |-> req[r].path, by |-> Bearer(r)]])
       ELSE Answers(r, "error", NoCookies)
    /\ UNCHANGED <<jar, last, read, signIns, claims, live, ended>>

\* The remote API ends a session that has expired.
ExpireSession(n) ==
    /\ n \in live
    /\ live' = live \ {n}
    /\ UNCHANGED <<jar, last, read, signIns, claims, ended, req>>

-----------------------------------------------------------------------------
\* Mutant: the claim cookie is left alone when no claim is required.
SignInCookiesKeepClaim(n) ==
    [jar EXCEPT !.session = n, !.csrf = n, !.claim = IF n \in claims THEN n ELSE @]

\* The cookies that finishVerification sets or expires, all in one answer.
SignInCookies(n) ==
    [jar EXCEPT !.session = n, !.csrf = n, !.claim = IF n \in claims THEN n ELSE None]

\* Mutant: the cookies stay.
ClearCookiesOmitted == jar

\* clearCookies: the capability cookies are left to expire.
ClearCookies == [jar EXCEPT !.session = None, !.csrf = None, !.claim = None]

\* The Path of a capability cookie: the URL of the preflight or of the upload
\* without its last segment.
CookiePath(url) == SubSeq(url, 1, Len(url) - 1)

\* A capability cookie takes the place of the one with the same Path.
TokenCookie(t) ==
    LET c == [path |-> CookiePath(Url(t.path, "preflight")), token |-> t]
    IN  [jar EXCEPT !.tokens = {d \in jar.tokens : d.path # c.path} \cup {c}]

\* The browser applies the cookies of an answer.
Deliver(r) ==
    LET a == req[r].answer IN
    /\ req[r].pc = "answer"
    /\ jar' = CASE a.cookie = "sign_in" -> SignInCookies(a.by)
                [] a.cookie = "clear" -> ClearCookies
                [] a.cookie = "token" -> TokenCookie(a.token)
                [] OTHER -> jar
    /\ last' = IF a.cookie \in {"sign_in", "clear"} THEN r ELSE last
    /\ req' = [req EXCEPT ![r] = [@ EXCEPT !.pc = "done"]]
    /\ UNCHANGED <<read, signIns, claims, live, ended>>

\* The answer never reaches the browser.
Lose(r) ==
    /\ req[r].pc = "answer"
    /\ req' = [req EXCEPT ![r] = [@ EXCEPT !.pc = "done", !.result = "lost", !.answer = NoCookies]]
    /\ UNCHANGED <<jar, last, read, signIns, claims, live, ended>>

\* The Max-Age of a capability cookie has passed.
CookieExpires(c) ==
    /\ c \in jar.tokens
    /\ jar' = [jar EXCEPT !.tokens = @ \ {c}]
    /\ UNCHANGED <<last, read, signIns, claims, live, ended, req>>

Next ==
    \/ ReadCsrf
    \/ \E r \in Requests, route \in Routes, path \in Paths,
          header \in SignIn \cup {None}, proper \in BOOLEAN : Send(r, route, path, header, proper)
    \/ \E r \in Requests : RemoteFails(r) \/ RemoteServes(r) \/ Deliver(r) \/ Lose(r)
    \/ \E r \in Requests, required, usable \in BOOLEAN : FinishVerification(r, required, usable)
    \/ \E r \in Requests, usable \in BOOLEAN : SignOut(r, usable) \/ Preflight(r, usable)
    \/ \E n \in SignIn : ExpireSession(n)
    \/ \E c \in jar.tokens : CookieExpires(c)

Spec == Init /\ [][Next]_vars

-----------------------------------------------------------------------------
\* The session, CSRF and claim cookies belong to one sign-in, in whatever
\* order the answers to overlapping sign-ins and sign-outs arrive: no claim
\* token of an earlier user is left beside a later session
\* (finishVerification, clearCookies).
CookiesOfOneSignIn ==
    /\ jar.csrf = jar.session
    /\ jar.claim \in {None, jar.session}

\* A request that is forwarded acts for one sign-in.  A page that has read the
\* CSRF value of an earlier sign-in changes nothing in the session that another
\* tab has started since, and does not end it; a key claim goes to the session
\* that requires it; and the token of a commit was issued for its own path,
\* whatever other preflights are under way (ServeHTTP, the Path of a capability
\* cookie, cookieValue).
PagesActInTheirSession ==
    \A r \in Requests :
        req[r].pc # "idle" /\ req[r].result # "refused" =>
            /\ req[r].route \in CsrfRoutes => req[r].header = req[r].cookies.session
            /\ req[r].route \in ClaimRoutes => req[r].cookies.claim = req[r].cookies.session
            /\ req[r].route = "commit" =>
                 CapabilityToken(req[r].cookies, req[r].path).path = req[r].path

\* The answers to these requests never had their effect on the browser's cookies.
Missed(r) ==
    \/ req[r].pc = "answer"
    \/ req[r].pc = "done" /\ req[r].result \in {"lost", "error"}

\* The browser and the remote API disagree about a session only for a reason.  A
\* browser holds a session that was signed out while the answer to the sign-out
\* is under way, or because that was lost or unreadable: no other order of
\* answers brings an ended session back.  A session that the remote API keeps
\* without a cookie for it was started by a request whose answer is under way,
\* lost or unusable, or it was delivered and then the answer to another sign-in
\* or sign-out was: the one that came last is not its own (ServeHTTP for DELETE
\* /session, clearCookies, finishVerification).
DisagreementIsExplained ==
    /\ jar.session \in ended =>
         \E r \in Requests :
             /\ req[r].pc # "idle" /\ req[r].route = "signout"
             /\ req[r].cookies.session = jar.session
             /\ Missed(r)
    /\ \A n \in live \ {jar.session} :
         \E r \in Requests :
             /\ req[r].pc # "idle" /\ req[r].started = n
             /\ Missed(r) \/ (req[r].pc = "done" /\ last \in Requests \ {r})

-----------------------------------------------------------------------------
(* The inductive invariant that the proofs use. *)

Tokens == [path : Paths, by : SignIn]
Jars == [session : SignIn \cup {None}, csrf : SignIn \cup {None}, claim : SignIn \cup {None},
         tokens : SUBSET [path : Paths, token : Tokens]]

CookieAnswers ==
    [cookie : {"none", "clear"}] \cup [cookie : {"sign_in"}, by : SignIn]
      \cup [cookie : {"token"}, token : Tokens]

Sent == [pc : {"remote", "answer", "done"}, route : Routes, path : Paths, header : SignIn \cup {None},
         cookies : Jars, answer : CookieAnswers, result : {"none", "refused", "error", "ok", "lost"},
         started : SignIn \cup {None}]

\* The sign-ins that the remote API has numbered.
Numbered == 1..signIns

TypeOK ==
    /\ jar \in Jars
    /\ last \in Requests \cup {None}
    /\ read \subseteq SignIn
    /\ signIns \in 0..MaxSignIns
    /\ claims \subseteq Numbered /\ live \subseteq Numbered /\ ended \subseteq Numbered
    /\ req \in [Requests -> {[pc |-> "idle"]} \cup Sent]

\* Cookies of one sign-in of N, with capability tokens under their own paths.
Fitting(j, N) ==
    /\ j.session \in N \cup {None}
    /\ j.csrf = j.session
    /\ j.claim \in {None, j.session}
    /\ \A c \in j.tokens : c.path = c.token.path

\* An answer that was not delivered says what became of its request.
AnswerInv(k) ==
    /\ k.result \in {"ok", "error"}
    /\ k.answer.cookie = "sign_in" => k.result = "ok" /\ k.route = "verify" /\ k.answer.by = k.started
    /\ k.answer.cookie = "clear" => k.result = "ok" /\ k.route = "signout"
    /\ k.result = "ok" => /\ k.route = "signout" => k.answer.cookie = "clear"
                          /\ k.started # None => k.answer.cookie = "sign_in"

\* What holds of each request k that was sent, when the sign-ins are N.
SentInv(k, N) ==
    k.pc # "idle" =>
        /\ Fitting(k.cookies, N)
        /\ k.started \in N \cup {None}
        /\ k.result # "refused" => Proven(k.route, k.path, k.header, k.cookies)
        /\ k.pc = "remote" => k.result = "none" /\ k.started = None
        /\ k.pc = "answer" => AnswerInv(k)

\* A sign-in was started by one request.
StartedOnce ==
    \A r, q \in Requests :
        req[r].pc # "idle" /\ req[q].pc # "idle" /\ r # q
            => req[r].started = None \/ req[r].started # req[q].started

\* Nobody has used a sign-in whose answer is still on its way.
PendingInv ==
    \A r \in Requests :
        req[r].pc = "answer" /\ req[r].answer.cookie = "sign_in" =>
            /\ req[r].started # jar.session /\ req[r].started \notin ended
            /\ \A q \in Requests : req[q].pc # "idle" => req[q].cookies.session # req[r].started

\* A session of the browser that was signed out.
EndedInv ==
    jar.session \in ended =>
        \E r \in Requests :
            /\ req[r].pc # "idle" /\ req[r].route = "signout"
            /\ req[r].cookies.session = jar.session
            /\ Missed(r)

\* A session of the remote API, also one the browser has.
LiveInv ==
    \A n \in live :
        \E r \in Requests :
            /\ req[r].pc # "idle" /\ req[r].started = n
            /\ \/ Missed(r)
               \/ req[r].pc = "done" /\ (jar.session = n \/ last \in Requests \ {r})

AdapterInv ==
    /\ TypeOK
    /\ Fitting(jar, Numbered)
    /\ \A r \in Requests : SentInv(req[r], Numbered)
    /\ StartedOnce /\ PendingInv /\ EndedInv /\ LiveInv

=============================================================================
