------------------------ MODULE BrowserAdapterProofs ------------------------
(***************************************************************************)
(* Proofs about BrowserAdapter: the cookies of the browser, the tokens of  *)
(* its commits and the sessions that the browser and the remote API know,  *)
(* for any number of requests, paths and sign-ins.                         *)
(***************************************************************************)
EXTENDS BrowserAdapter, TLAPS

LEMMA NumberFacts ==
    ASSUME TypeOK
    PROVE  /\ signIns \in Nat /\ Numbered \subseteq SignIn /\ None \notin Numbered
           /\ signIns + 1 \notin Numbered /\ signIns + 1 # None
           /\ \A n \in Numbered : n \in 1..(signIns + 1)
BY AdapterAssumption DEF TypeOK, Numbered, SignIn

LEMMA RequestFacts ==
    ASSUME TypeOK, NEW r \in Requests, req[r].pc # "idle"
    PROVE  req[r] \in Sent
<1>1. [pc |-> "idle"].pc = "idle"
  OBVIOUS
<1>. QED  BY <1>1, Zenon DEF TypeOK

\* The URL of a commit, and the cookies that belong to it.
LEMMA PathFacts ==
    ASSUME NEW p \in Paths, NEW route
    PROVE  CookiePath(Url(p, route)) = p
<1>1. p \in Seq(Segments) /\ p \in Seq(Segments \cup {route})
  BY PathsAssumption
<1>. QED  BY <1>1 DEF CookiePath, Url

LEMMA PrefixFacts ==
    ASSUME NEW p \in Paths, NEW q \in Paths, NEW route, PathMatches(q, Url(p, route))
    PROVE  q = p
<1>1. p \in Seq(Segments) /\ q \in Seq(Segments) /\ Len(p) = Len(q)
  BY PathsAssumption
<1>. QED  BY <1>1 DEF PathMatches, Url

\* The one capability cookie of a commit is for its path.
LEMMA TokenFacts ==
    ASSUME NEW j \in Jars, NEW N, Fitting(j, N), NEW p \in Paths, CapabilityToken(j, p) # None
    PROVE  CapabilityToken(j, p).path = p
<1>1. PICK c \in j.tokens : Attached(j, p) = {c}
  BY Zenon DEF CapabilityToken
<1>2. PICK d : d = CHOOSE e \in j.tokens : Attached(j, p) = {e}
  OBVIOUS
<1>3. d \in j.tokens /\ Attached(j, p) = {d}
  BY <1>1, <1>2, Zenon
<1>4. PathMatches(d.path, Url(p, "commit")) /\ d.path \in Paths
  BY <1>3, Zenon DEF Attached, Jars
<1>5. d.path = p
  BY <1>4, PrefixFacts, Zenon
<1>. QED  BY <1>1, <1>2, <1>3, <1>5, Zenon DEF CapabilityToken, Fitting

\* Requests other than r keep what was known of them.
LEMMA SentKept ==
    ASSUME NEW k, NEW N, NEW M, N \subseteq M, SentInv(k, N)
    PROVE  SentInv(k, M)
BY Zenon DEF SentInv, Fitting

-----------------------------------------------------------------------------
\* A page reads a cookie, a session expires: the requests stay as they are.
LEMMA ReadCsrfStep == AdapterInv /\ ReadCsrf => AdapterInv'
<1>. SUFFICES ASSUME AdapterInv, ReadCsrf PROVE AdapterInv'
  OBVIOUS
<1>0. /\ jar.csrf # None /\ read' = read \cup {jar.csrf} /\ UNCHANGED <<jar, last, signIns, claims, live, ended, req>>
  BY Zenon DEF ReadCsrf
<1>1. TypeOK /\ jar.csrf \in SignIn \cup {None}
  BY Zenon DEF AdapterInv, TypeOK, Jars
<1>2. TypeOK'
  BY <1>0, <1>1, Zenon DEF TypeOK, Numbered
<1>. QED  BY <1>0, <1>2 DEF AdapterInv, Numbered, StartedOnce, PendingInv, EndedInv, LiveInv, Missed

LEMMA ExpireStep ==
    ASSUME AdapterInv, NEW n \in SignIn, ExpireSession(n)
    PROVE  AdapterInv'
<1>0. live' = live \ {n} /\ UNCHANGED <<jar, last, read, signIns, claims, ended, req>>
  BY Zenon DEF ExpireSession
<1>1. TypeOK'
  BY <1>0, Zenon DEF AdapterInv, TypeOK, Numbered
<1>2. LiveInv'
  BY <1>0 DEF AdapterInv, LiveInv, Missed
<1>. QED  BY <1>0, <1>1, <1>2 DEF AdapterInv, Numbered, StartedOnce, PendingInv, EndedInv, Missed

LEMMA CookieExpiresStep ==
    ASSUME AdapterInv, NEW c \in jar.tokens, CookieExpires(c)
    PROVE  AdapterInv'
<1>. DEFINE t == jar.tokens \ {c}
<1>0. jar' = [jar EXCEPT !.tokens = t] /\ UNCHANGED <<last, read, signIns, claims, live, ended, req>>
  BY Zenon DEF CookieExpires
<1>1. jar \in Jars /\ jar.tokens \subseteq [path : Paths, token : Tokens]
  BY Zenon DEF AdapterInv, TypeOK, Jars
<1>2. t \subseteq jar.tokens
  BY Zenon
<1>. HIDE DEF t
<1>3. jar' \in Jars /\ jar'.tokens = t /\ jar'.session = jar.session /\ jar'.csrf = jar.csrf /\ jar'.claim = jar.claim
  BY <1>0, <1>1, <1>2, Zenon DEF Jars
<1>4. TypeOK'
  BY <1>0, <1>3, Zenon DEF AdapterInv, TypeOK, Numbered
<1>5. Fitting(jar, Numbered)'
  BY <1>0, <1>2, <1>3 DEF AdapterInv, Fitting, Numbered
<1>. QED  BY <1>0, <1>3, <1>4, <1>5 DEF AdapterInv, Numbered, StartedOnce, PendingInv, EndedInv, LiveInv, Missed

-----------------------------------------------------------------------------
\* A request is sent, with the cookies of the moment.
LEMMA SendStep ==
    ASSUME AdapterInv, NEW r \in Requests, NEW route \in Routes, NEW path \in Paths, NEW header \in SignIn \cup {None},
           NEW proper \in BOOLEAN, Send(r, route, path, header, proper)
    PROVE  AdapterInv'
<1>0. TypeOK /\ Fitting(jar, Numbered) /\ StartedOnce /\ PendingInv /\ EndedInv /\ LiveInv
  BY Zenon DEF AdapterInv
<1>1. req[r].pc = "idle" /\ UNCHANGED <<jar, last, read, signIns, claims, live, ended>>
  BY Zenon DEF Send
<1>2. PICK pc \in {"remote", "done"}, result \in {"none", "refused"} :
        /\ req' = [req EXCEPT ![r] = Request(route, path, header, pc, result)]
        /\ result # "refused" => Proven(route, path, header, jar)
        /\ pc = "remote" => result = "none"
        /\ pc = "done" => result = "refused"
  BY Zenon DEF Send
<1>3. PICK k : k = Request(route, path, header, pc, result)
  OBVIOUS
<1>4. /\ k \in Sent /\ k.pc = pc /\ k.route = route /\ k.path = path /\ k.cookies = jar /\ k.header = header
      /\ k.result = result /\ k.started = None
  <2>1. NoCookies \in CookieAnswers /\ jar \in Jars
    BY <1>0 DEF NoCookies, CookieAnswers, TypeOK
  <2>. QED  BY <1>3, <2>1 DEF Request, Sent
<1>5. /\ req' \in [Requests -> {[pc |-> "idle"]} \cup Sent] /\ req'[r] = k
      /\ \A q \in Requests : q # r => req'[q] = req[q]
  BY <1>0, <1>2, <1>3, <1>4, Zenon DEF TypeOK
<1>6. TypeOK'
  BY <1>0, <1>1, <1>5, Zenon DEF TypeOK, Numbered
<1>7. SentInv(k, Numbered)
  BY <1>0, <1>2, <1>4 DEF SentInv
<1>8. \A q \in Requests : SentInv(req[q], Numbered)'
  BY <1>1, <1>5, <1>7 DEF AdapterInv, Numbered
<1>9. StartedOnce'
  BY <1>0, <1>4, <1>5 DEF StartedOnce
<1>10. PendingInv'
  BY <1>0, <1>1, <1>2, <1>4, <1>5 DEF PendingInv
<1>11. \A q \in Requests : req[q].pc # "idle" => req'[q] = req[q]
  BY <1>1, <1>5
<1>12. EndedInv'
  BY <1>0, <1>1, <1>11 DEF EndedInv, Missed
<1>13. LiveInv'
  <2>1. ASSUME NEW n \in live
        PROVE  \E q \in Requests :
                 /\ req'[q].pc # "idle" /\ req'[q].started = n
                 /\ \/ Missed(q)'
                    \/ req'[q].pc = "done" /\ (jar.session = n \/ last' \in Requests \ {q})
    <3>1. PICK q \in Requests :
            /\ req[q].pc # "idle" /\ req[q].started = n
            /\ \/ Missed(q)
               \/ req[q].pc = "done" /\ (jar.session = n \/ last \in Requests \ {q})
      BY <1>0, Zenon DEF LiveInv
    <3>2. req'[q] = req[q]
      BY <1>11, <3>1
    <3>3. Missed(q) => Missed(q)'
      BY <3>2 DEF Missed
    <3>. QED  BY <1>1, <3>1, <3>2, <3>3
  <2>. QED  BY <1>1, <2>1 DEF LiveInv
<1>14. Fitting(jar, Numbered)'
  BY <1>0, <1>1 DEF Numbered
<1>. QED  BY <1>6, <1>8, <1>9, <1>10, <1>12, <1>13, <1>14, Zenon DEF AdapterInv

-----------------------------------------------------------------------------
\* The remote API answers, and the handler turns the answer into cookies.
LEMMA AnswerFacts ==
    ASSUME TypeOK, NEW r \in Requests, req[r].pc = "remote", NEW n \in SignIn \cup {None},
           NEW result \in {"ok", "error"}, NEW a \in CookieAnswers, AnswersSignIn(r, n, result, a)
    PROVE  \E k \in Sent :
             /\ req' \in [Requests -> {[pc |-> "idle"]} \cup Sent] /\ req'[r] = k
             /\ \A q \in Requests : q # r => req'[q] = req[q]
             /\ k.pc = "answer" /\ k.result = result /\ k.answer = a /\ k.started = n
             /\ k.route = req[r].route /\ k.path = req[r].path /\ k.cookies = req[r].cookies /\ k.header = req[r].header
<1>1. req[r] \in Sent
  BY RequestFacts
<1>. DEFINE k == [req[r] EXCEPT !.pc = "answer", !.result = result, !.answer = a, !.started = n]
<1>2. /\ k \in Sent /\ k.pc = "answer" /\ k.result = result /\ k.answer = a /\ k.started = n
      /\ k.route = req[r].route /\ k.path = req[r].path /\ k.cookies = req[r].cookies /\ k.header = req[r].header
  BY <1>1, Zenon DEF Sent
<1>3. req' = [req EXCEPT ![r] = k]
  BY Zenon DEF AnswersSignIn
<1>. HIDE DEF k
<1>4. /\ req' \in [Requests -> {[pc |-> "idle"]} \cup Sent] /\ req'[r] = k
      /\ \A q \in Requests : q # r => req'[q] = req[q]
  BY <1>2, <1>3, Zenon DEF TypeOK
<1>. QED  BY <1>2, <1>4, Zenon

\* An answer leaves the browser as it is until it is delivered.
LEMMA AnswerKept ==
    ASSUME AdapterInv, NEW r \in Requests, req[r].pc = "remote", NEW n \in SignIn \cup {None},
           NEW result \in {"ok", "error"}, NEW a \in CookieAnswers, AnswersSignIn(r, n, result, a),
           UNCHANGED <<jar, last, read>>, signIns' \in 0..MaxSignIns, Numbered \subseteq Numbered',
           claims' \subseteq Numbered', live' \subseteq Numbered', ended' \subseteq Numbered,
           n # None => n = signIns + 1 /\ n \in Numbered',
           live' \subseteq live \cup {n},
           \A m \in ended' : m \in ended \/ (m = Bearer(r) /\ req[r].route = "signout"),
           a.cookie = "sign_in" => n # None /\ a.by = n /\ result = "ok" /\ req[r].route = "verify",
           a.cookie = "clear" => result = "ok" /\ req[r].route = "signout",
           result = "ok" /\ req[r].route = "signout" => a.cookie = "clear",
           result = "ok" /\ n # None => a.cookie = "sign_in"
    PROVE  AdapterInv'
<1>0. TypeOK /\ Fitting(jar, Numbered) /\ StartedOnce /\ PendingInv /\ EndedInv /\ LiveInv
  BY Zenon DEF AdapterInv
<1>1. PICK k \in Sent :
        /\ req' \in [Requests -> {[pc |-> "idle"]} \cup Sent] /\ req'[r] = k
        /\ \A q \in Requests : q # r => req'[q] = req[q]
        /\ k.pc = "answer" /\ k.result = result /\ k.answer = a /\ k.started = n
        /\ k.route = req[r].route /\ k.path = req[r].path /\ k.cookies = req[r].cookies /\ k.header = req[r].header
  BY <1>0, AnswerFacts
<1>2. TypeOK'
  BY <1>0, <1>1, Zenon DEF TypeOK
<1>3. signIns + 1 \notin Numbered /\ signIns + 1 # None /\ None \notin Numbered
  BY <1>0, NumberFacts, Zenon
<1>4. SentInv(req[r], Numbered) /\ \A q \in Requests : SentInv(req[q], Numbered)
  BY Zenon DEF AdapterInv
<1>5. SentInv(k, Numbered')
  <2>1. Fitting(k.cookies, Numbered')
    BY <1>1, <1>4, Zenon DEF SentInv, Fitting
  <2>2. Proven(k.route, k.path, k.header, k.cookies)
    BY <1>1, <1>4 DEF SentInv
  <2>3. AnswerInv(k)
    BY <1>1 DEF AnswerInv
  <2>4. k.started \in Numbered' \cup {None}
    BY <1>1
  <2>. QED  BY <1>1, <2>1, <2>2, <2>3, <2>4, Zenon DEF SentInv
<1>6. \A q \in Requests : SentInv(req[q], Numbered)'
  <2>1. \A q \in Requests : SentInv(req[q], Numbered')
    BY <1>4, SentKept, Zenon
  <2>. QED  BY <1>1, <1>5, <2>1
<1>7. \A q \in Requests : req[q].pc # "idle" => req[q].started \in Numbered \cup {None} /\ req[q].cookies.session \in Numbered \cup {None}
  BY <1>4, Zenon DEF SentInv, Fitting
<1>8. StartedOnce'
  <2>1. \A q \in Requests : q # r /\ req[q].pc # "idle" /\ n # None => req[q].started # n
    BY <1>3, <1>7
  <2>. QED  BY <1>0, <1>1, <2>1 DEF StartedOnce
<1>9. \A q \in Requests : req'[q].pc # "idle" => req[q].pc # "idle" /\ req'[q].cookies = req[q].cookies
  BY <1>1
<1>10. PendingInv'
  <2>1. ASSUME NEW q \in Requests, req'[q].pc = "answer", req'[q].answer.cookie = "sign_in"
        PROVE  /\ req'[q].started # jar'.session /\ req'[q].started \notin ended'
               /\ \A m \in Requests : req'[m].pc # "idle" => req'[m].cookies.session # req'[q].started
    <3>1. CASE q = r
      <4>1. req'[q].started = signIns + 1
        BY <1>1, <2>1, <3>1
      <4>2. jar.session # signIns + 1 /\ signIns + 1 \notin ended'
        BY <1>0, <1>3 DEF Fitting
      <4>3. \A m \in Requests : req[m].pc # "idle" => req[m].cookies.session # signIns + 1
        BY <1>3, <1>7
      <4>. QED  BY <1>9, <4>1, <4>2, <4>3
    <3>2. CASE q # r
      <4>1. req'[q] = req[q]
        BY <1>1, <3>2
      <4>2. /\ req[q].started # jar.session /\ req[q].started \notin ended
            /\ \A m \in Requests : req[m].pc # "idle" => req[m].cookies.session # req[q].started
        BY <1>0, <2>1, <4>1, Zenon DEF PendingInv
      <4>3. req[q].started \notin ended'
        BY <4>2 DEF Bearer
      <4>. QED  BY <1>9, <4>1, <4>2, <4>3
    <3>. QED  BY <3>1, <3>2
  <2>. QED  BY <2>1, Zenon DEF PendingInv
<1>11. \A q \in Requests : req[q].pc \in {"answer", "done"} => req'[q] = req[q]
  BY <1>1
<1>12. \A q \in Requests : Missed(q) => Missed(q)'
  BY <1>11 DEF Missed
<1>13. EndedInv'
  <2>1. CASE jar.session \in ended
    <3>1. PICK q \in Requests :
            /\ req[q].pc # "idle" /\ req[q].route = "signout" /\ req[q].cookies.session = jar.session /\ Missed(q)
      BY <1>0, <2>1, Zenon DEF EndedInv
    <3>2. req'[q] = req[q] /\ Missed(q)'
      BY <1>11, <1>12, <3>1 DEF Missed
    <3>. QED  BY <3>1, <3>2 DEF EndedInv
  <2>2. CASE jar.session \in ended' /\ jar.session = Bearer(r) /\ req[r].route = "signout"
    <3>1. Missed(r)'
      BY <1>1 DEF Missed
    <3>. QED  BY <1>1, <2>2, <3>1 DEF EndedInv, Bearer
  <2>. QED  BY <2>1, <2>2 DEF EndedInv
<1>14. LiveInv'
  <2>1. ASSUME NEW l \in live'
        PROVE  \E q \in Requests :
                 /\ req'[q].pc # "idle" /\ req'[q].started = l
                 /\ \/ Missed(q)'
                    \/ req'[q].pc = "done" /\ (jar'.session = l \/ last' \in Requests \ {q})
    <3>1. CASE l = n
      <4>1. Missed(r)'
        BY <1>1 DEF Missed
      <4>. QED  BY <1>1, <3>1, <4>1
    <3>2. CASE l \in live
      <4>1. PICK q \in Requests :
              /\ req[q].pc # "idle" /\ req[q].started = l
              /\ \/ Missed(q)
                 \/ req[q].pc = "done" /\ (jar.session = l \/ last \in Requests \ {q})
        BY <1>0, <3>2, Zenon DEF LiveInv
      <4>2. req'[q] = req[q]
        BY <1>11, <4>1 DEF Missed
      <4>. QED  BY <1>12, <4>1, <4>2
    <3>. QED  BY <2>1, <3>1, <3>2
  <2>. QED  BY <2>1, Zenon DEF LiveInv
<1>15. Fitting(jar, Numbered)'
  BY <1>0 DEF Fitting
<1>. QED  BY <1>2, <1>6, <1>8, <1>10, <1>13, <1>14, <1>15, Zenon DEF AdapterInv

LEMMA CookieFacts ==
    /\ NoCookies \in CookieAnswers /\ NoCookies.cookie = "none"
    /\ [cookie |-> "clear"] \in CookieAnswers /\ [cookie |-> "clear"].cookie = "clear"
    /\ \A n \in SignIn : /\ [cookie |-> "sign_in", by |-> n] \in CookieAnswers
                         /\ [cookie |-> "sign_in", by |-> n].cookie = "sign_in"
                         /\ [cookie |-> "sign_in", by |-> n].by = n
    /\ \A t \in Tokens : /\ [cookie |-> "token", token |-> t] \in CookieAnswers
                         /\ [cookie |-> "token", token |-> t].cookie = "token"
BY DEF NoCookies, CookieAnswers

\* The answers that start or end no session.
LEMMA ServeStep ==
    ASSUME AdapterInv, NEW r \in Requests, req[r].pc = "remote", NEW result \in {"ok", "error"},
           NEW a \in CookieAnswers, Answers(r, result, a), a.cookie \in {"none", "token"},
           result = "ok" => req[r].route # "signout",
           UNCHANGED <<jar, last, read, signIns, claims, live, ended>>
    PROVE  AdapterInv'
<1>1. TypeOK /\ AnswersSignIn(r, None, result, a)
  BY Zenon DEF AdapterInv, Answers
<1>2. /\ signIns' \in 0..MaxSignIns /\ Numbered' = Numbered
      /\ claims' \subseteq Numbered' /\ live' \subseteq Numbered' /\ ended' \subseteq Numbered
  BY <1>1, Zenon DEF TypeOK, Numbered
<1>3. a.cookie # "sign_in" /\ a.cookie # "clear"
  OBVIOUS
<1>4. None \in SignIn \cup {None} /\ live' \subseteq live \cup {None} /\ ended' = ended
  BY Zenon
<1>. QED  BY <1>1, <1>2, <1>3, <1>4, AnswerKept, Zenon

LEMMA RemoteStep ==
    ASSUME AdapterInv, NEW r \in Requests,
           RemoteFails(r) \/ RemoteServes(r) \/ \E usable \in BOOLEAN : Preflight(r, usable)
    PROVE  AdapterInv'
<1>0. TypeOK /\ NoCookies \in CookieAnswers /\ NoCookies.cookie \in {"none", "token"}
  BY CookieFacts DEF AdapterInv
<1>1. req[r].pc = "remote" /\ UNCHANGED <<jar, last, read, signIns, claims, live, ended>>
  BY Zenon DEF RemoteFails, RemoteServes, Preflight, Forwarded
<1>2. CASE Answers(r, "error", NoCookies)
  BY <1>0, <1>1, <1>2, ServeStep
<1>3. CASE RemoteServes(r)
  BY <1>0, <1>1, <1>3, ServeStep DEF RemoteServes, Forwarded
<1>4. CASE Forwarded(r, {"preflight"}) /\ Accepted(r)
           /\ Answers(r, "ok", [cookie |-> "token", token |-> [path |-> req[r].path, by |-> Bearer(r)]])
  <2>. DEFINE t == [path |-> req[r].path, by |-> Bearer(r)]
  <2>1. req[r].route = "preflight" /\ Bearer(r) \in live
    BY <1>4 DEF Forwarded, Accepted, BearerRoutes, Native
  <2>2. Bearer(r) \in SignIn
    BY <1>0, <2>1, NumberFacts, Zenon DEF TypeOK
  <2>3. req[r].path \in Paths
    <3>1. req[r] \in Sent
      BY <1>0, <1>1, RequestFacts
    <3>. QED  BY <3>1, Zenon DEF Sent
  <2>4. t \in Tokens
    BY <2>2, <2>3, Zenon DEF Tokens
  <2>. HIDE DEF t
  <2>5. [cookie |-> "token", token |-> t] \in CookieAnswers /\ [cookie |-> "token", token |-> t].cookie = "token"
    BY <2>4, CookieFacts, Zenon
  <2>6. Answers(r, "ok", [cookie |-> "token", token |-> t])
    BY <1>4, Zenon DEF t
  <2>. QED  BY <1>1, <2>1, <2>5, <2>6, ServeStep
<1>. QED  BY <1>2, <1>3, <1>4, Zenon DEF RemoteFails, Preflight

LEMMA FinishStep ==
    ASSUME AdapterInv, NEW r \in Requests, NEW required \in BOOLEAN, NEW usable \in BOOLEAN,
           FinishVerification(r, required, usable)
    PROVE  AdapterInv'
<1>. DEFINE n == signIns + 1
<1>0. TypeOK
  BY DEF AdapterInv
<1>1. /\ req[r].pc = "remote" /\ req[r].route = "verify" /\ signIns < MaxSignIns /\ signIns' = n
      /\ claims' = claims \/ claims' = claims \cup {n}
      /\ live' = live \cup {n} /\ UNCHANGED <<jar, last, read, ended>>
  BY Zenon DEF FinishVerification, Forwarded
<1>2. /\ signIns' \in 0..MaxSignIns /\ n \in SignIn /\ n \in Numbered' /\ Numbered \subseteq Numbered' /\ n # None
  BY <1>0, <1>1, AdapterAssumption DEF TypeOK, Numbered, SignIn
<1>3. claims' \subseteq Numbered' /\ live' \subseteq Numbered' /\ ended' \subseteq Numbered
  BY <1>0, <1>1, <1>2, Zenon DEF TypeOK
<1>4. PICK m \in SignIn : m = n
  BY <1>2, Zenon
<1>5. PICK result \in {"ok", "error"}, a \in CookieAnswers :
        /\ AnswersSignIn(r, m, result, a)
        /\ a.cookie = "sign_in" => a.by = m /\ result = "ok"
        /\ a.cookie # "clear" /\ (result = "ok" => a.cookie = "sign_in")
  <2>1. CASE AnswersSignIn(r, n, "ok", [cookie |-> "sign_in", by |-> n])
    BY <1>4, <2>1, CookieFacts
  <2>2. CASE AnswersSignIn(r, n, "error", NoCookies)
    BY <1>4, <2>2, CookieFacts
  <2>. QED  BY <2>1, <2>2, Zenon DEF FinishVerification
<1>6. /\ m \in SignIn \cup {None} /\ m = signIns + 1 /\ m \in Numbered' /\ m # None /\ live' \subseteq live \cup {m}
      /\ req[r].route # "signout" /\ ended' = ended
  BY <1>1, <1>2, <1>4
<1>. QED  BY <1>1, <1>2, <1>3, <1>5, <1>6, AnswerKept, Zenon

LEMMA SignOutStep ==
    ASSUME AdapterInv, NEW r \in Requests, NEW readable \in BOOLEAN, SignOut(r, readable)
    PROVE  AdapterInv'
<1>0. TypeOK
  BY DEF AdapterInv
<1>1. /\ req[r].pc = "remote" /\ req[r].route = "signout" /\ live' = live \ {Bearer(r)}
      /\ ended' = ended \cup {Bearer(r)} /\ UNCHANGED <<jar, last, read, signIns, claims>>
  BY Zenon DEF SignOut, Forwarded
<1>2. Bearer(r) \in live
  BY <1>1 DEF SignOut, Accepted, BearerRoutes
<1>3. /\ signIns' \in 0..MaxSignIns /\ Numbered' = Numbered
      /\ claims' \subseteq Numbered' /\ live' \subseteq Numbered' /\ ended' \subseteq Numbered
  BY <1>0, <1>1, <1>2, Zenon DEF TypeOK, Numbered
<1>4. PICK result \in {"ok", "error"}, a \in CookieAnswers :
        /\ AnswersSignIn(r, None, result, a)
        /\ a.cookie # "sign_in" /\ (a.cookie = "clear" => result = "ok") /\ (result = "ok" => a.cookie = "clear")
  <2>1. CASE Answers(r, "ok", [cookie |-> "clear"])
    BY <2>1, CookieFacts DEF Answers
  <2>2. CASE Answers(r, "error", NoCookies)
    BY <2>2, CookieFacts DEF Answers
  <2>. QED  BY <2>1, <2>2, Zenon DEF SignOut
<1>5. None \in SignIn \cup {None} /\ live' \subseteq live \cup {None}
      /\ \A m \in ended' : m \in ended \/ m = Bearer(r)
  BY <1>1, Zenon
<1>. QED  BY <1>1, <1>3, <1>4, <1>5, AnswerKept, Zenon

-----------------------------------------------------------------------------
\* A request is over; its answer was delivered or lost.
LEMMA OverFacts ==
    ASSUME AdapterInv, NEW r \in Requests, Deliver(r) \/ Lose(r)
    PROVE  /\ req[r].pc = "answer" /\ UNCHANGED <<read, signIns, claims, live, ended>>
           /\ req' \in [Requests -> {[pc |-> "idle"]} \cup Sent]
           /\ \A q \in Requests : q # r => req'[q] = req[q]
           /\ req'[r].pc = "done" /\ req'[r].route = req[r].route /\ req'[r].path = req[r].path
           /\ req'[r].cookies = req[r].cookies /\ req'[r].header = req[r].header /\ req'[r].started = req[r].started
           /\ Deliver(r) => req'[r].result = req[r].result
           /\ Lose(r) => req'[r].result = "lost" /\ UNCHANGED <<jar, last>>
<1>0. TypeOK
  BY DEF AdapterInv
<1>1. req[r].pc = "answer" /\ UNCHANGED <<read, signIns, claims, live, ended>>
  BY Zenon DEF Deliver, Lose
<1>2. req[r] \in Sent
  BY <1>0, <1>1, RequestFacts
<1>3. CASE Deliver(r)
  <2>. DEFINE k == [req[r] EXCEPT !.pc = "done"]
  <2>1. /\ k \in Sent /\ k.pc = "done" /\ k.route = req[r].route /\ k.path = req[r].path
        /\ k.cookies = req[r].cookies /\ k.header = req[r].header /\ k.started = req[r].started /\ k.result = req[r].result
    BY <1>2, Zenon DEF Sent
  <2>2. req' = [req EXCEPT ![r] = k]
    BY <1>3, Zenon DEF Deliver
  <2>3. ~Lose(r) \/ k.result = "lost"
    <3>1. Lose(r) => req'[r].result = "lost"
      <4>1. [req[r] EXCEPT !.pc = "done", !.result = "lost", !.answer = NoCookies].result = "lost"
        BY <1>2, Zenon DEF Sent
      <4>. QED  BY <1>0, <4>1 DEF Lose, TypeOK
    <3>2. req'[r] = k
      BY <1>0, <2>2, Zenon DEF TypeOK
    <3>. QED  BY <3>1, <3>2
  <2>. HIDE DEF k
  <2>4. /\ req' \in [Requests -> {[pc |-> "idle"]} \cup Sent] /\ req'[r] = k
        /\ \A q \in Requests : q # r => req'[q] = req[q]
    BY <1>0, <2>1, <2>2, Zenon DEF TypeOK
  <2>. QED  BY <1>1, <1>3, <2>1, <2>3, <2>4, Zenon DEF Lose
<1>4. CASE Lose(r) /\ ~Deliver(r)
  <2>. DEFINE k == [req[r] EXCEPT !.pc = "done", !.result = "lost", !.answer = NoCookies]
  <2>1. /\ k \in Sent /\ k.pc = "done" /\ k.route = req[r].route /\ k.path = req[r].path
        /\ k.cookies = req[r].cookies /\ k.header = req[r].header /\ k.started = req[r].started /\ k.result = "lost"
    BY <1>2, CookieFacts, Zenon DEF Sent
  <2>2. req' = [req EXCEPT ![r] = k]
    BY <1>4, Zenon DEF Lose
  <2>. HIDE DEF k
  <2>3. /\ req' \in [Requests -> {[pc |-> "idle"]} \cup Sent] /\ req'[r] = k
        /\ \A q \in Requests : q # r => req'[q] = req[q]
    BY <1>0, <2>1, <2>2, Zenon DEF TypeOK
  <2>. QED  BY <1>1, <1>4, <2>1, <2>3, Zenon DEF Lose
<1>. QED  BY <1>3, <1>4

\* What the end of a request leaves to show: the new cookies.
LEMMA OverKept ==
    ASSUME AdapterInv, NEW r \in Requests, Deliver(r) \/ Lose(r),
           jar' \in Jars, Fitting(jar, Numbered)',
           \A q \in Requests : q # r /\ req[q].pc = "answer" /\ req[q].answer.cookie = "sign_in"
               => req[q].started # jar'.session,
           jar'.session \in ended => jar'.session = jar.session,
           last' = r \/ (last' = last /\ jar'.session = jar.session),
           Missed(r)' \/ (/\ req[r].route = "signout" => jar'.session \notin ended
                          /\ req[r].started \in live => jar'.session = req[r].started)
    PROVE  AdapterInv'
<1>0. TypeOK /\ StartedOnce /\ PendingInv /\ EndedInv /\ LiveInv
  BY Zenon DEF AdapterInv
<1>1. /\ req[r].pc = "answer" /\ UNCHANGED <<read, signIns, claims, live, ended>>
      /\ req' \in [Requests -> {[pc |-> "idle"]} \cup Sent]
      /\ \A q \in Requests : q # r => req'[q] = req[q]
      /\ req'[r].pc = "done" /\ req'[r].route = req[r].route /\ req'[r].path = req[r].path
      /\ req'[r].cookies = req[r].cookies /\ req'[r].header = req[r].header /\ req'[r].started = req[r].started
      /\ Deliver(r) => req'[r].result = req[r].result
      /\ Lose(r) => req'[r].result = "lost" /\ UNCHANGED <<jar, last>>
  BY OverFacts
<1>2. TypeOK' /\ Numbered' = Numbered
  <2>1. last' \in Requests \cup {None}
    BY <1>0, Zenon DEF TypeOK
  <2>. QED  BY <1>0, <1>1, <2>1, Zenon DEF TypeOK, Numbered
<1>3. SentInv(req[r], Numbered) /\ \A q \in Requests : SentInv(req[q], Numbered)
  BY Zenon DEF AdapterInv
<1>4. SentInv(req'[r], Numbered)
  <2>1. req[r].result # "refused"
    BY <1>1, <1>3 DEF SentInv, AnswerInv
  <2>. QED  BY <1>1, <1>3, <2>1 DEF SentInv
<1>5. \A q \in Requests : SentInv(req[q], Numbered)'
  BY <1>1, <1>2, <1>3, <1>4
<1>6. \A q \in Requests : /\ req'[q].pc # "idle" => req[q].pc # "idle"
                          /\ req'[q].pc # "idle" => req'[q].cookies = req[q].cookies /\ req'[q].started = req[q].started
  BY <1>1
<1>7. StartedOnce'
  BY <1>0, <1>6 DEF StartedOnce
<1>8. PendingInv'
  BY <1>0, <1>1, <1>6 DEF PendingInv
<1>9. \A q \in Requests : q # r => (Missed(q) => Missed(q)')
  BY <1>1 DEF Missed
<1>11. EndedInv'
  <2>1. ASSUME jar'.session \in ended'
        PROVE  \E q \in Requests : /\ req'[q].pc # "idle" /\ req'[q].route = "signout"
                                   /\ req'[q].cookies.session = jar'.session /\ Missed(q)'
    <3>1. jar'.session = jar.session /\ jar.session \in ended
      BY <1>1, <2>1
    <3>2. PICK q \in Requests :
            /\ req[q].pc # "idle" /\ req[q].route = "signout" /\ req[q].cookies.session = jar.session /\ Missed(q)
      BY <1>0, <3>1, Zenon DEF EndedInv
    <3>3. CASE q # r
      BY <1>1, <1>9, <3>1, <3>2, <3>3
    <3>4. CASE q = r
      BY <1>1, <3>1, <3>2, <3>4
    <3>. QED  BY <3>3, <3>4
  <2>. QED  BY <2>1, Zenon DEF EndedInv
<1>12. LiveInv'
  <2>1. ASSUME NEW l \in live
        PROVE  \E q \in Requests :
                 /\ req'[q].pc # "idle" /\ req'[q].started = l
                 /\ \/ Missed(q)'
                    \/ req'[q].pc = "done" /\ (jar'.session = l \/ last' \in Requests \ {q})
    <3>1. PICK q \in Requests :
            /\ req[q].pc # "idle" /\ req[q].started = l
            /\ \/ Missed(q)
               \/ req[q].pc = "done" /\ (jar.session = l \/ last \in Requests \ {q})
      BY <1>0, Zenon DEF LiveInv
    <3>2. CASE q = r
      BY <1>1, <3>1, <3>2
    <3>3. CASE q # r
      <4>1. req'[q] = req[q] /\ (Missed(q) => Missed(q)')
        BY <1>1, <1>9, <3>3
      <4>2. last \in Requests \ {q} => last' \in Requests \ {q}
        BY <3>3, Zenon
      <4>3. jar.session = l => jar'.session = l \/ last' \in Requests \ {q}
        BY <3>3, Zenon
      <4>. QED  BY <3>1, <4>1, <4>2, <4>3
    <3>. QED  BY <3>2, <3>3
  <2>. QED  BY <1>1, <2>1, Zenon DEF LiveInv
<1>. QED  BY <1>2, <1>5, <1>7, <1>8, <1>11, <1>12, Zenon DEF AdapterInv

\* The sign-in of a pending answer.
LEMMA PendingFacts ==
    ASSUME AdapterInv, NEW q \in Requests, req[q].pc = "answer", req[q].answer.cookie = "sign_in"
    PROVE  /\ req[q].started \in Numbered /\ req[q].answer.by = req[q].started
           /\ req[q].started # None /\ req[q].started \in SignIn
<1>0. TypeOK /\ SentInv(req[q], Numbered)
  BY Zenon DEF AdapterInv
<1>1. req[q].answer.by = req[q].started /\ req[q].started \in Numbered \cup {None}
  BY <1>0 DEF SentInv, AnswerInv
<1>2. req[q].answer \in CookieAnswers
  <2>1. req[q] \in Sent
    BY <1>0, RequestFacts
  <2>. QED  BY <2>1, Zenon DEF Sent
<1>3. req[q].answer.by \in SignIn
  BY <1>2 DEF CookieAnswers
<1>4. None \notin SignIn
  BY AdapterAssumption DEF SignIn
<1>. QED  BY <1>1, <1>3, <1>4, Zenon

LEMMA LoseStep ==
    ASSUME AdapterInv, NEW r \in Requests, Lose(r)
    PROVE  AdapterInv'
<1>0. TypeOK /\ Fitting(jar, Numbered) /\ PendingInv
  BY Zenon DEF AdapterInv
<1>1. UNCHANGED <<jar, last, signIns>> /\ req'[r].pc = "done" /\ req'[r].result = "lost"
  BY OverFacts
<1>2. jar' \in Jars /\ Fitting(jar, Numbered)'
  BY <1>0, <1>1 DEF TypeOK, Numbered
<1>3. Missed(r)'
  BY <1>1 DEF Missed
<1>4. \A q \in Requests : q # r /\ req[q].pc = "answer" /\ req[q].answer.cookie = "sign_in"
        => req[q].started # jar'.session
  BY <1>0, <1>1 DEF PendingInv
<1>. QED  BY <1>1, <1>2, <1>3, <1>4, OverKept, Zenon

\* The browser applies the cookies of an answer.
LEMMA DeliverStep ==
    ASSUME AdapterInv, NEW r \in Requests, Deliver(r)
    PROVE  AdapterInv'
<1>0. TypeOK /\ Fitting(jar, Numbered) /\ StartedOnce /\ PendingInv /\ SentInv(req[r], Numbered)
  BY Zenon DEF AdapterInv
<1>1. /\ req[r].pc = "answer" /\ UNCHANGED <<signIns, live, ended>> /\ req'[r].pc = "done"
      /\ req'[r].result = req[r].result /\ req'[r].route = req[r].route
  BY OverFacts
<1>2. AnswerInv(req[r]) /\ req[r] \in Sent /\ Numbered' = Numbered
  BY <1>0, <1>1, RequestFacts DEF SentInv, Numbered
<1>3. jar \in Jars /\ live \subseteq Numbered /\ ended \subseteq Numbered /\ None \notin Numbered
  BY <1>0, NumberFacts, Zenon DEF TypeOK
<1>4. \A q \in Requests : req[q].pc = "answer" /\ req[q].answer.cookie = "sign_in"
        => req[q].started # jar.session /\ req[q].started # None
  BY <1>0, PendingFacts DEF PendingInv
<1>5. CASE req[r].answer.cookie = "sign_in"
  <2>1. PICK n \in SignIn : n = req[r].started /\ n = req[r].answer.by /\ n \in Numbered /\ n # None
    BY <1>1, <1>5, PendingFacts
  <2>2. jar' = SignInCookies(n)
    BY <1>5, <2>1 DEF Deliver
  <2>3. /\ jar' \in Jars /\ jar'.session = n /\ jar'.csrf = n /\ jar'.claim \in {n, None} /\ jar'.tokens = jar.tokens
    BY <1>3, <2>2 DEF SignInCookies, Jars
  <2>4. Fitting(jar, Numbered)'
    BY <1>0, <1>2, <2>1, <2>3 DEF Fitting
  <2>5. last' = r
    BY <1>5 DEF Deliver
  <2>6. n \notin ended
    BY <1>0, <1>1, <1>5, <2>1 DEF PendingInv
  <2>7. \A q \in Requests : q # r /\ req[q].pc = "answer" /\ req[q].answer.cookie = "sign_in"
          => req[q].started # jar'.session
    BY <1>0, <1>1, <2>1, <2>3 DEF StartedOnce
  <2>. QED  BY <2>1, <2>3, <2>4, <2>5, <2>6, <2>7, OverKept, Zenon
<1>6. CASE req[r].answer.cookie = "clear"
  <2>1. jar' = ClearCookies
    BY <1>6 DEF Deliver
  <2>2. jar' \in Jars /\ jar'.session = None /\ jar'.csrf = None /\ jar'.claim = None /\ jar'.tokens = jar.tokens
    BY <1>3, <2>1 DEF ClearCookies, Jars
  <2>3. Fitting(jar, Numbered)'
    BY <1>0, <1>2, <2>2 DEF Fitting
  <2>4. last' = r /\ req[r].started = None
    BY <1>1, <1>2, <1>6 DEF Deliver, AnswerInv
  <2>5. None \notin ended /\ None \notin live
    BY <1>3, Zenon
  <2>6. \A q \in Requests : q # r /\ req[q].pc = "answer" /\ req[q].answer.cookie = "sign_in"
          => req[q].started # jar'.session
    BY <1>4, <2>2
  <2>. QED  BY <2>2, <2>3, <2>4, <2>5, <2>6, OverKept, Zenon
<1>7. CASE req[r].answer.cookie \notin {"sign_in", "clear"}
  <2>1. jar' \in Jars /\ jar'.session = jar.session /\ jar'.csrf = jar.csrf /\ jar'.claim = jar.claim /\ Fitting(jar, Numbered)'
    <3>1. CASE req[r].answer.cookie = "token"
      <4>1. PICK t \in Tokens : t = req[r].answer.token
        <5>1. req[r].answer \in CookieAnswers
          BY <1>2, Zenon DEF Sent
        <5>. QED  BY <3>1, <5>1 DEF CookieAnswers
      <4>2. jar' = TokenCookie(t)
        BY <1>7, <3>1, <4>1 DEF Deliver
      <4>3. jar.tokens \subseteq [path : Paths, token : Tokens] /\ t.path \in Paths
        BY <1>3, Zenon DEF Jars, Tokens
      <4>. DEFINE c == [path |-> CookiePath(Url(t.path, "preflight")), token |-> t]
                  f == {d \in jar.tokens : d.path # c.path} \cup {c}
      <4>4. c \in [path : Paths, token : Tokens] /\ c.path = c.token.path
        BY <4>3, PathFacts
      <4>5. jar' = [jar EXCEPT !.tokens = f]
        BY <4>2, Zenon DEF TokenCookie
      <4>. HIDE DEF c
      <4>6. f \subseteq [path : Paths, token : Tokens] /\ \A d \in f : d.path = d.token.path
        BY <1>0, <4>3, <4>4, Zenon DEF Fitting
      <4>. HIDE DEF f
      <4>7. jar' \in Jars /\ jar'.session = jar.session /\ jar'.csrf = jar.csrf /\ jar'.claim = jar.claim /\ jar'.tokens = f
        BY <1>3, <4>5, <4>6, Zenon DEF Jars
      <4>. QED  BY <1>0, <1>2, <4>6, <4>7 DEF Fitting
    <3>2. CASE req[r].answer.cookie # "token"
      <4>1. jar' = jar
        BY <1>7, <3>2 DEF Deliver
      <4>. QED  BY <1>0, <1>2, <1>3, <4>1
    <3>. QED  BY <3>1, <3>2
  <2>2. last' = last
    BY <1>7 DEF Deliver
  <2>3. \A q \in Requests : q # r /\ req[q].pc = "answer" /\ req[q].answer.cookie = "sign_in"
          => req[q].started # jar'.session
    BY <1>4, <2>1
  <2>4. Missed(r)' \/ (req[r].route # "signout" /\ req[r].started = None)
    BY <1>1, <1>2, <1>7 DEF AnswerInv, Missed
  <2>5. None \notin live
    BY <1>3, Zenon
  <2>. QED  BY <2>1, <2>2, <2>3, <2>4, <2>5, OverKept, Zenon
<1>. QED  BY <1>5, <1>6, <1>7

-----------------------------------------------------------------------------
LEMMA AdapterStep == AdapterInv /\ [Next]_vars => AdapterInv'
<1>. SUFFICES ASSUME AdapterInv, [Next]_vars PROVE AdapterInv'
  OBVIOUS
<1>1. CASE UNCHANGED vars
  <2>1. UNCHANGED <<jar, last, read, signIns, claims, live, ended, req>>
    BY <1>1 DEF vars
  <2>2. TypeOK'
    BY <2>1, Zenon DEF AdapterInv, TypeOK, Numbered
  <2>. QED  BY <2>1, <2>2 DEF AdapterInv, Numbered, StartedOnce, PendingInv, EndedInv, LiveInv, Missed
<1>2. ASSUME NEW r \in Requests, RemoteFails(r) \/ RemoteServes(r) \/ Deliver(r) \/ Lose(r) PROVE AdapterInv'
  BY <1>2, RemoteStep, DeliverStep, LoseStep, Zenon
<1>3. ASSUME NEW r \in Requests, NEW usable \in BOOLEAN, SignOut(r, usable) \/ Preflight(r, usable) PROVE AdapterInv'
  BY <1>3, SignOutStep, RemoteStep, Zenon
<1>. QED  BY <1>1, <1>2, <1>3, ReadCsrfStep, SendStep, FinishStep, ExpireStep, CookieExpiresStep, Zenon DEF Next

\* The invariant of the browser and the remote API: cookies of one sign-in,
\* tokens under their own paths, sign-ins that nobody can use before their
\* answer arrives, and a reason for every disagreement about a session.
THEOREM AdapterInvariance == Spec => []AdapterInv
<1>1. Init => AdapterInv
  <2>. SUFFICES ASSUME Init PROVE AdapterInv
    OBVIOUS
  <2>1. EmptyJar \in Jars /\ EmptyJar.session = None /\ EmptyJar.csrf = None /\ EmptyJar.claim = None
        /\ EmptyJar.tokens = {}
    BY DEF EmptyJar, Jars
  <2>2. \A r \in Requests : req[r].pc = "idle"
    BY DEF Init
  <2>3. TypeOK
    <3>1. signIns \in 0..MaxSignIns
      BY AdapterAssumption DEF Init
    <3>2. req \in [Requests -> {[pc |-> "idle"]} \cup Sent]
      BY Zenon DEF Init
    <3>. QED  BY <2>1, <3>1, <3>2, Zenon DEF Init, TypeOK
  <2>4. Fitting(jar, Numbered)
    BY <2>1 DEF Init, Fitting
  <2>5. \A r \in Requests : SentInv(req[r], Numbered)
    BY <2>2, Zenon DEF SentInv
  <2>6. StartedOnce /\ PendingInv
    BY <2>2 DEF StartedOnce, PendingInv
  <2>7. EndedInv /\ LiveInv
    BY DEF Init, EndedInv, LiveInv
  <2>. QED  BY <2>3, <2>4, <2>5, <2>6, <2>7, Zenon DEF AdapterInv
<1>. QED  BY <1>1, AdapterStep, PTL DEF Spec

\* The session, CSRF and claim cookies belong to one sign-in.
THEOREM OneSignIn == Spec => []CookiesOfOneSignIn
<1>1. AdapterInv => CookiesOfOneSignIn
  BY Zenon DEF AdapterInv, Fitting, CookiesOfOneSignIn
<1>. QED  BY <1>1, AdapterInvariance, PTL

\* A page acts in the session whose CSRF value it has read, a key claim goes to
\* its session, and a commit carries a token of its own path.
THEOREM PagesAct == Spec => []PagesActInTheirSession
<1>1. AdapterInv => PagesActInTheirSession
  <2>. SUFFICES ASSUME AdapterInv, NEW r \in Requests, req[r].pc # "idle", req[r].result # "refused"
                PROVE  /\ req[r].route \in CsrfRoutes => req[r].header = req[r].cookies.session
                       /\ req[r].route \in ClaimRoutes => req[r].cookies.claim = req[r].cookies.session
                       /\ req[r].route = "commit" =>
                            CapabilityToken(req[r].cookies, req[r].path).path = req[r].path
    BY Zenon DEF PagesActInTheirSession
  <2>1. TypeOK /\ Fitting(req[r].cookies, Numbered)
        /\ Proven(req[r].route, req[r].path, req[r].header, req[r].cookies)
    BY Zenon DEF AdapterInv, SentInv
  <2>2. req[r].path \in Paths /\ req[r].cookies \in Jars
    <3>1. req[r] \in Sent
      BY <2>1, RequestFacts
    <3>. QED  BY <3>1, Zenon DEF Sent
  <2>3. req[r].route = "commit" => CapabilityToken(req[r].cookies, req[r].path).path = req[r].path
    BY <2>1, <2>2, TokenFacts, Zenon DEF Proven
  <2>4. /\ req[r].route \in CsrfRoutes => req[r].header = req[r].cookies.session
        /\ req[r].route \in ClaimRoutes => req[r].cookies.claim = req[r].cookies.session
    BY <2>1 DEF Proven, Fitting
  <2>. QED  BY <2>3, <2>4
<1>. QED  BY <1>1, AdapterInvariance, PTL

\* The browser and the remote API disagree about a session only for a reason.
THEOREM DisagreementExplained == Spec => []DisagreementIsExplained
<1>1. AdapterInv => DisagreementIsExplained
  BY DEF AdapterInv, EndedInv, LiveInv, DisagreementIsExplained
<1>. QED  BY <1>1, AdapterInvariance, PTL

=============================================================================
