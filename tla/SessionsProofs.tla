---------------------------- MODULE SessionsProofs ----------------------------
(***************************************************************************)
(* The invariants of Sessions, for every number of tabs, browsers and      *)
(* requests.                                                               *)
(***************************************************************************)
EXTENDS Sessions, SequenceTheorems, TLAPS

ServerTypes ==
  /\ row \in Seq(Token) /\ closed \subseteq Nat /\ link \in Seq(Link) /\ verified \in BOOLEAN
  /\ req \in Seq(Request)
ClientTypes ==
  /\ storage \in [Browsers -> Nat] /\ stray \in [Browsers -> BOOLEAN]
  /\ flight \in [Tabs -> Nat] /\ busy \in [Tabs -> Nat]
  /\ screen \in [Tabs -> {"checking", "authenticated", "anonymous"}]

\* Families are named by their first token.
Named ==
  /\ \A k \in DOMAIN row : FamilyOf(k) <= Len(row)
  /\ \A F \in closed : F <= Len(row)

\* The tokens and links that a request presents are there, and those handed out.
Presented(r) ==
  /\ r.kind \in {"refresh", "logout"} => r.arg \in DOMAIN row
  /\ r.kind \in {"verify", "reset"} => r.arg \in DOMAIN link
  /\ r.kind \in {"login", "refresh"} /\ r.step = "granted" => r.got \in DOMAIN row

\* A refresh that has read its token, in a session that was ended since, is marked.
Overtaken(r) ==
  r.kind = "refresh" /\ r.step = "read" /\ FamilyOf(r.arg) \in closed =>
    r.late \/ row[r.arg].late

RequestsOK == \A q \in DOMAIN req : Presented(req[q]) /\ Overtaken(req[q])

\* What a browser stores is a token, and a tab waits for a request of the right kind.
Held ==
  /\ \A b \in Browsers : storage[b] \in {0} \cup DOMAIN row
  /\ \A t \in Tabs :
       /\ flight[t] # 0 => flight[t] \in DOMAIN req /\ req[flight[t]].kind = "refresh"
       /\ busy[t] # 0 => busy[t] \in DOMAIN req /\ req[busy[t]].kind \in {"login", "logout"}

ServerInv == ServerTypes /\ Named /\ RequestsOK /\ EndedStaysEnded
SessionsInv == ServerInv /\ ClientTypes /\ Held

\* The parts of the type invariant.
LEMMA Types == TypeOK <=> ServerTypes /\ ClientTypes
BY DEF TypeOK, ServerTypes, ClientTypes

\* A sequence changed in place is one of the same length.
LEMMA InPlace ==
  ASSUME NEW S, NEW s \in Seq(S), NEW f, f = [i \in DOMAIN s |-> f[i]],
         \A i \in DOMAIN s : f[i] \in S
  PROVE  f \in Seq(S) /\ Len(f) = Len(s) /\ DOMAIN f = DOMAIN s
<1>1. Len(s) \in Nat /\ DOMAIN s = 1 .. Len(s)
  BY LenProperties
<1>2. f \in [1 .. Len(s) -> S]
  BY <1>1
<1>3. f \in Seq(S)
  BY <1>1, <1>2, SeqDef
<1>4. Len(f) \in Nat /\ 1 .. Len(f) = 1 .. Len(s)
  BY <1>2, <1>3, LenProperties
<1> QED
  BY <1>1, <1>2, <1>3, <1>4

\* One element more.
LEMMA OneMore ==
  ASSUME NEW S, NEW s \in Seq(S), NEW e \in S, NEW f, f = Append(s, e)
  PROVE  /\ f \in Seq(S) /\ Len(s) \in Nat /\ Len(f) = Len(s) + 1
         /\ DOMAIN s = 1 .. Len(s) /\ DOMAIN f = 1 .. Len(s) + 1
         /\ \A i \in DOMAIN s : f[i] = s[i]
         /\ f[Len(s) + 1] = e
BY AppendProperties, LenProperties

\* The initial states satisfy the invariant.
LEMMA InitInv == Init => SessionsInv
<1> SUFFICES ASSUME Init PROVE SessionsInv
  OBVIOUS
<1> USE SessionsAssumption
<1>1. link = <<>> /\ req = <<>> /\ closed = {}
  BY DEF Init
<1>2. link \in Seq(Link) /\ req \in Seq(Request) /\ DOMAIN req = {}
  BY <1>1
<1>3. row \in Seq(Token) /\ (\A k \in DOMAIN row : row[k] = NewToken(1, FALSE) /\ k = 1 /\ Len(row) = 1)
  <2>1. NewToken(1, FALSE) \in Token
    BY DEF NewToken, Token
  <2>2. row = <<>> \/ row = <<NewToken(1, FALSE)>>
    BY DEF Init
  <2>3. CASE row = <<>>
    BY <2>3
  <2>4. CASE row = <<NewToken(1, FALSE)>>
    <3> DEFINE e == NewToken(1, FALSE)
    <3>1. e \in Token /\ row = <<e>>
      BY <2>1, <2>4
    <3> HIDE DEF e
    <3>2. row \in Seq(Token) /\ Len(row) = 1 /\ DOMAIN row = 1 .. 1 /\ row[1] = e
      BY <3>1
    <3>3. \A k \in DOMAIN row : row[k] = e /\ k = 1
      BY <3>2
    <3> QED
      BY <3>1, <3>2, <3>3 DEF e
  <2> QED
    BY <2>2, <2>3, <2>4
<1>4. storage \in [Browsers -> {0} \cup DOMAIN row]
  BY DEF Init
<1>5. DOMAIN row \subseteq Nat
  BY <1>3
<1>6. ServerTypes /\ ClientTypes
  <2>1. storage \in [Browsers -> Nat]
    BY <1>4, <1>5
  <2>2. screen \in [Tabs -> {"checking", "authenticated", "anonymous"}]
    BY DEF Init
  <2>3. verified \in BOOLEAN /\ stray \in [Browsers -> BOOLEAN]
    BY DEF Init
  <2>4. flight \in [Tabs -> Nat] /\ busy \in [Tabs -> Nat] /\ closed \subseteq Nat
    BY <1>1 DEF Init
  <2> QED
    BY <1>2, <1>3, <2>1, <2>2, <2>3, <2>4 DEF ServerTypes, ClientTypes
<1>7. Named /\ Held
  BY <1>1, <1>2, <1>3, <1>4 DEF Init, Named, Held, FamilyOf, NewToken
<1> QED
  BY <1>1, <1>2, <1>6, <1>7 DEF SessionsInv, ServerInv, RequestsOK, EndedStaysEnded

-----------------------------------------------------------------------------
(* How a step may change the parts. *)

\* Requests keep what they are, and tokens stay.
Kept ==
  /\ Len(row) <= Len(row') /\ DOMAIN row \subseteq DOMAIN row'
  /\ DOMAIN req \subseteq DOMAIN req'
  /\ \A p \in DOMAIN req : req'[p].kind = req[p].kind

\* A step of the server leaves the browsers as they are.
LEMMA BrowsersKept ==
  ASSUME ClientTypes, Held, Kept, UNCHANGED client
  PROVE  ClientTypes' /\ Held'
BY DEF ClientTypes, Held, Kept, client

\* One request changes its step, its answer or its marks.
LEMMA OneRequest ==
  ASSUME ServerInv, NEW q \in DOMAIN req, NEW r \in Request,
         req' = [req EXCEPT ![q] = r], r.kind = req[q].kind
  PROVE  /\ req' \in Seq(Request) /\ DOMAIN req' = DOMAIN req
         /\ req'[q] = r /\ \A p \in DOMAIN req : p # q => req'[p] = req[p]
         /\ \A p \in DOMAIN req : req'[p].kind = req[p].kind
<1>1. req \in Seq(Request)
  BY DEF ServerInv, ServerTypes
<1>2. \A p \in DOMAIN req : req[p] \in Request
  BY <1>1, LenProperties
<1>3. req' = [p \in DOMAIN req |-> req'[p]] /\ \A p \in DOMAIN req : req'[p] \in Request
  BY <1>2
<1>4. req' \in Seq(Request) /\ DOMAIN req' = DOMAIN req
  BY <1>1, <1>3, InPlace
<1> QED
  BY <1>4

\* A step that only changes one request, and lets none read an ended token.
LEMMA OnlyARequest ==
  ASSUME ServerInv, NEW q \in DOMAIN req, NEW r \in Request,
         req' = [req EXCEPT ![q] = r], r.kind = req[q].kind,
         Presented(r), Overtaken(r), UNCHANGED <<row, closed>>,
         link' \in Seq(Link), DOMAIN link \subseteq DOMAIN link', verified' \in BOOLEAN
  PROVE  ServerInv' /\ Kept
<1>1. /\ req' \in Seq(Request) /\ DOMAIN req' = DOMAIN req
      /\ req'[q] = r /\ \A p \in DOMAIN req : p # q => req'[p] = req[p]
      /\ \A p \in DOMAIN req : req'[p].kind = req[p].kind
  BY OneRequest
<1>2. \A p \in DOMAIN req : Presented(req'[p]) /\ Overtaken(req'[p])
  BY <1>1 DEF ServerInv, RequestsOK
<1>3. RequestsOK'
  BY <1>1, <1>2 DEF RequestsOK, Presented, Overtaken, FamilyOf
<1>4. Len(row) <= Len(row)
  BY LenProperties DEF ServerInv, ServerTypes
<1> QED
  BY <1>1, <1>3, <1>4 DEF ServerInv, ServerTypes, Named, EndedStaysEnded, Kept,
     Live, FamilyOf

\* A session ends: its rows are revoked, and refreshes on their way are marked.
LEMMA CloseKeeps ==
  ASSUME ServerInv, NEW F \in SUBSET Families, NEW q \in DOMAIN req, NEW s \in {"refused", "granted"},
         s = "granted" => req[q].kind \notin {"login", "refresh"},
         Close(F, q, s), link' \in Seq(Link), DOMAIN link' = DOMAIN link, verified' \in BOOLEAN
  PROVE  ServerInv' /\ Kept
<1>1. row \in Seq(Token) /\ req \in Seq(Request) /\ closed \subseteq Nat
  BY DEF ServerInv, ServerTypes
<1>2. (\A k \in DOMAIN row : row[k] \in Token) /\ (\A p \in DOMAIN req : req[p] \in Request)
  BY <1>1, LenProperties
<1>3. /\ row' = [k \in DOMAIN row |-> row'[k]]
      /\ \A k \in DOMAIN row :
           row'[k] = [row[k] EXCEPT !.revoked = @ \/ FamilyOf(k) \in F]
  BY DEF Close
<1>4. \A k \in DOMAIN row :
        /\ row'[k] \in Token
        /\ row'[k].family = row[k].family /\ row'[k].late = row[k].late
        /\ ~row'[k].revoked <=> ~row[k].revoked /\ row[k].family \notin F
  <2> TAKE k \in DOMAIN row
  <2>1. row'[k] = [row[k] EXCEPT !.revoked = row[k].revoked \/ FamilyOf(k) \in F]
    BY <1>3
  <2>2. row[k] \in Token
    BY <1>2
  <2>3. row'[k].revoked = (row[k].revoked \/ FamilyOf(k) \in F)
    BY <2>1, <2>2 DEF Token
  <2>4. row'[k] \in Token /\ row'[k].family = row[k].family /\ row'[k].late = row[k].late
    BY <2>1, <2>2 DEF Token
  <2> QED
    BY <2>3, <2>4 DEF FamilyOf
<1>5. row' \in Seq(Token) /\ Len(row') = Len(row) /\ DOMAIN row' = DOMAIN row
  BY <1>1, <1>3, <1>4, InPlace
<1>6. /\ req' = [p \in DOMAIN req |-> req'[p]]
      /\ req'[q] = [req[q] EXCEPT !.step = s]
      /\ \A p \in DOMAIN req : p # q =>
           req'[p] = [req[p] EXCEPT !.late = @ \/ (Ends(p, "refresh") /\ FamilyOf(req[p].arg) \in F)]
  BY DEF Close
<1>7. \A p \in DOMAIN req :
        /\ req'[p] \in Request
        /\ req'[p].kind = req[p].kind /\ req'[p].arg = req[p].arg /\ req'[p].got = req[p].got
        /\ req'[p].step = IF p = q THEN s ELSE req[p].step
        /\ p # q => (req'[p].late <=>
             req[p].late \/ (Ends(p, "refresh") /\ FamilyOf(req[p].arg) \in F))
  <2> TAKE p \in DOMAIN req
  <2>1. req[p] \in Request /\ s \in Steps
    BY <1>2 DEF Steps
  <2>2. CASE p = q
    BY <1>6, <2>1, <2>2 DEF Request
  <2>3. CASE p # q
    <3> DEFINE mark == req[p].late \/ (Ends(p, "refresh") /\ FamilyOf(req[p].arg) \in F)
    <3>1. req'[p] = [req[p] EXCEPT !.late = mark] /\ mark \in BOOLEAN
      BY <1>6, <2>3
    <3> HIDE DEF mark
    <3>2. req'[p].late = mark
      BY <2>1, <3>1 DEF Request
    <3>3. /\ req'[p] \in Request /\ req'[p].kind = req[p].kind /\ req'[p].arg = req[p].arg
          /\ req'[p].got = req[p].got /\ req'[p].step = req[p].step
      BY <2>1, <3>1 DEF Request
    <3> QED
      BY <2>3, <3>2, <3>3 DEF mark
  <2> QED
    BY <2>2, <2>3
<1>8. req' \in Seq(Request) /\ DOMAIN req' = DOMAIN req
  BY <1>1, <1>6, <1>7, InPlace
<1>9. closed' = closed \cup F
  BY DEF Close
<1>10. F \subseteq Nat /\ \A G \in F : G <= Len(row)
  BY <1>2 DEF Families, FamilyOf, Token, ServerInv, Named
<1>11. ServerTypes'
  BY <1>1, <1>5, <1>8, <1>9, <1>10 DEF ServerTypes
<1>12. Named'
  BY <1>4, <1>5, <1>9, <1>10 DEF ServerInv, Named, FamilyOf
<1>13. \A p \in DOMAIN req : Presented(req[p])'
  BY <1>5, <1>7 DEF ServerInv, RequestsOK, Presented
<1>14. ASSUME NEW p \in DOMAIN req PROVE Overtaken(req[p])'
  <2>1. Overtaken(req[p]) /\ Presented(req[p])
    BY DEF ServerInv, RequestsOK
  <2>2. p # q /\ req[p].kind = "refresh" /\ req[p].step = "read" => Ends(p, "refresh") /\ req[p].arg \in DOMAIN row
    BY <2>1 DEF Ends, Presented
  <2> QED
    BY <1>4, <1>7, <1>9, <2>1, <2>2 DEF Overtaken, FamilyOf
<1>15. RequestsOK'
  BY <1>8, <1>13, <1>14 DEF RequestsOK
<1>16. EndedStaysEnded'
  BY <1>4, <1>5, <1>9 DEF ServerInv, EndedStaysEnded, Live, FamilyOf
<1>17. Len(row) <= Len(row)
  BY <1>1, LenProperties
<1> QED
  BY <1>5, <1>7, <1>8, <1>11, <1>12, <1>15, <1>16, <1>17 DEF ServerInv, Kept

\* A request that is granted with a token.
GrantedTo(q, n) == [req[q] EXCEPT !.step = "granted", !.got = n]
\* It is a request of the same kind.
LEMMA Granted ==
  ASSUME req \in Seq(Request), NEW q \in DOMAIN req, NEW n \in Nat
  PROVE  /\ GrantedTo(q, n) \in Request
         /\ GrantedTo(q, n).kind = req[q].kind /\ GrantedTo(q, n).arg = req[q].arg
         /\ GrantedTo(q, n).step = "granted" /\ GrantedTo(q, n).got = n
<1>1. req[q] \in Request
  BY LenProperties
<1> DEFINE s == [req[q] EXCEPT !.step = "granted"]
<1>2. s \in Request /\ s.kind = req[q].kind /\ s.arg = req[q].arg /\ s.step = "granted"
  BY <1>1 DEF Request, Steps
<1>3. GrantedTo(q, n) = [s EXCEPT !.got = n]
  BY DEF GrantedTo
<1> HIDE DEF s
<1> QED
  BY <1>2, <1>3 DEF Request

\* A sign-in starts a family of its own.
LEMMA LoginKeeps ==
  ASSUME ServerInv, NEW q \in DOMAIN req, Login(q), row' # row
  PROVE  ServerInv' /\ Kept
<1> DEFINE e == NewToken(Len(row) + 1, FALSE)
           r == GrantedTo(q, Len(row) + 1)
<1>1. row \in Seq(Token) /\ req \in Seq(Request) /\ Len(row) \in Nat
  BY LenProperties DEF ServerInv, ServerTypes
<1>2. e \in Token /\ e.family = Len(row) + 1
  BY <1>1 DEF NewToken, Token
<1>3. row' = Append(row, e)
  BY DEF Login
<1>5. /\ r \in Request /\ r.kind = "login" /\ r.kind = req[q].kind /\ r.step = "granted"
      /\ r.got = Len(row) + 1
  <2>1. Len(row) + 1 \in Nat
    BY <1>1
  <2>2. req[q].kind = "login"
    BY DEF Login, Takes
  <2> QED BY <1>1, <2>1, <2>2, Granted
<1>6. req' = [req EXCEPT ![q] = r]
  BY DEF Login, GrantedTo
<1>13. closed' = closed /\ link' = link /\ verified' = verified
  BY DEF Login
<1> HIDE DEF e, r
<1>4. /\ row' \in Seq(Token) /\ Len(row') = Len(row) + 1
      /\ DOMAIN row = 1 .. Len(row) /\ DOMAIN row' = 1 .. Len(row) + 1
      /\ \A i \in DOMAIN row : row'[i] = row[i]
      /\ row'[Len(row) + 1] = e
  BY <1>1, <1>2, <1>3, OneMore
<1>7. /\ req' \in Seq(Request) /\ DOMAIN req' = DOMAIN req
      /\ req'[q] = r /\ \A p \in DOMAIN req : p # q => req'[p] = req[p]
      /\ \A p \in DOMAIN req : req'[p].kind = req[p].kind
  BY <1>5, <1>6, OneRequest
<1>12. (\A i \in DOMAIN row : row[i] \in Token /\ row[i].family \in Nat)
       /\ \A F \in closed : F \in Nat /\ F <= Len(row)
  <2>1. \A i \in DOMAIN row : row[i] \in Token
    BY <1>1, LenProperties
  <2> QED BY <2>1 DEF ServerInv, ServerTypes, Named, Token
<1>8. ServerTypes'
  BY <1>4, <1>7, <1>13 DEF ServerInv, ServerTypes
<1>9. Named'
  BY <1>1, <1>2, <1>4, <1>12, <1>13 DEF ServerInv, Named, FamilyOf
<1>10. RequestsOK'
  <2> SUFFICES ASSUME NEW p \in DOMAIN req PROVE Presented(req[p])' /\ Overtaken(req[p])'
    BY <1>7 DEF RequestsOK
  <2>1. Presented(req[p]) /\ Overtaken(req[p])
    BY DEF ServerInv, RequestsOK
  <2>2. CASE p = q
    BY <1>1, <1>4, <1>5, <1>7, <1>13, <2>2 DEF Presented, Overtaken
  <2>3. CASE p # q
    <3>1. Presented(req[p])'
      BY <1>1, <1>4, <1>7, <1>13, <2>1, <2>3 DEF Presented
    <3>2. Overtaken(req[p])'
      BY <1>1, <1>4, <1>7, <1>13, <2>1, <2>3 DEF Presented, Overtaken, FamilyOf
    <3> QED BY <3>1, <3>2
  <2> QED BY <2>2, <2>3
<1>11. EndedStaysEnded'
  BY <1>1, <1>2, <1>4, <1>12, <1>13 DEF ServerInv, Named, EndedStaysEnded, Live, FamilyOf
<1> QED
  BY <1>1, <1>4, <1>7, <1>8, <1>9, <1>10, <1>11 DEF ServerInv, Kept

\* A rotation in a session that was ended since leaves a token that is marked.
LEMMA RotateKeeps ==
  ASSUME ServerInv, NEW q \in DOMAIN req, Rotate(q)
  PROVE  ServerInv' /\ Kept
<1> DEFINE k == req[q].arg
           late == req[q].late \/ row[k].late
           e == NewToken(FamilyOf(k), late)
           old == [row EXCEPT ![k].revoked = TRUE, ![k].by = @ \cup {q}]
           r == GrantedTo(q, Len(row) + 1)
<1>1. row \in Seq(Token) /\ req \in Seq(Request) /\ Len(row) \in Nat /\ DOMAIN row = 1 .. Len(row)
  BY LenProperties DEF ServerInv, ServerTypes
<1>2. req[q] \in Request /\ req[q].kind = "refresh" /\ req[q].step = "read" /\ q \in Nat
  BY <1>1, LenProperties DEF Rotate, Ends
<1>3. k \in DOMAIN row /\ row[k] \in Token
  BY <1>1, <1>2, LenProperties DEF ServerInv, RequestsOK, Presented
<1>4. /\ e \in Token /\ e.family = row[k].family /\ e.late = late
  <2>1. late \in BOOLEAN
    BY DEF late
  <2> HIDE DEF late
  <2> QED BY <1>3, <2>1 DEF NewToken, Token, FamilyOf
<1>5. old \in Seq(Token) /\ Len(old) = Len(row) /\ DOMAIN old = DOMAIN row
      /\ \A i \in DOMAIN row :
           old[i] \in Token /\ old[i].family = row[i].family /\ old[i].late = row[i].late
           /\ (~old[i].revoked => ~row[i].revoked)
  <2>1. \A i \in DOMAIN row : row[i] \in Token
    BY <1>1, LenProperties
  <2>2. \A i \in DOMAIN row :
           old[i] = IF i = k THEN [row[i] EXCEPT !.revoked = TRUE, !.by = @ \cup {q}] ELSE row[i]
    BY <1>3
  <2>3. ASSUME NEW i \in DOMAIN row
        PROVE  old[i] \in Token /\ old[i].family = row[i].family /\ old[i].late = row[i].late
               /\ (~old[i].revoked => ~row[i].revoked)
    BY <1>2, <2>1, <2>2 DEF Token
  <2>4. old = [i \in DOMAIN row |-> old[i]]
    BY <1>1
  <2> HIDE DEF old
  <2> QED BY <1>1, <2>3, <2>4, InPlace
<1>6. row' = Append(old, e)
  BY DEF Rotate
<1>7. /\ r \in Request /\ r.kind = "refresh" /\ r.kind = req[q].kind /\ r.step = "granted"
      /\ r.got = Len(row) + 1 /\ r.arg = k
  <2>1. Len(row) + 1 \in Nat
    BY <1>1
  <2> QED BY <1>1, <1>2, <2>1, Granted
<1>8. req' = [req EXCEPT ![q] = r]
  BY DEF Rotate, GrantedTo
<1>9. closed' = closed /\ link' = link /\ verified' = verified
  BY DEF Rotate
<1>10. e.family \in closed => e.late
  BY <1>2, <1>4 DEF ServerInv, RequestsOK, Overtaken, FamilyOf
<1> HIDE DEF k, late, e, old, r
<1>11. /\ row' \in Seq(Token) /\ Len(row') = Len(row) + 1
       /\ DOMAIN row' = 1 .. Len(row) + 1
       /\ \A i \in DOMAIN row : row'[i] = old[i]
       /\ row'[Len(row) + 1] = e
  BY <1>4, <1>5, <1>6, OneMore
<1>12. /\ req' \in Seq(Request) /\ DOMAIN req' = DOMAIN req
       /\ req'[q] = r /\ \A p \in DOMAIN req : p # q => req'[p] = req[p]
       /\ \A p \in DOMAIN req : req'[p].kind = req[p].kind
  BY <1>7, <1>8, OneRequest
<1>13. ServerTypes'
  BY <1>9, <1>11, <1>12 DEF ServerInv, ServerTypes
<1>14. Named'
  <2>1. e.family <= Len(row) /\ e.family \in Nat
    BY <1>3, <1>4 DEF ServerInv, Named, FamilyOf, Token
  <2>2. \A i \in DOMAIN row : row'[i].family <= Len(row) /\ row'[i].family \in Nat
    BY <1>1, <1>5, <1>11 DEF ServerInv, Named, FamilyOf, Token
  <2>3. \A i \in DOMAIN row' : row'[i].family <= Len(row) /\ row'[i].family \in Nat
    BY <1>1, <1>11, <2>1, <2>2
  <2>4. \A F \in closed' : F \in Nat /\ F <= Len(row)
    BY <1>9 DEF ServerInv, ServerTypes, Named
  <2> QED
    BY <1>1, <1>11, <2>3, <2>4 DEF Named, FamilyOf
<1>15. RequestsOK'
  <2> SUFFICES ASSUME NEW p \in DOMAIN req PROVE Presented(req[p])' /\ Overtaken(req[p])'
    BY <1>12 DEF RequestsOK
  <2>1. Presented(req[p]) /\ Overtaken(req[p])
    BY DEF ServerInv, RequestsOK
  <2>2. CASE p = q
    BY <1>1, <1>3, <1>7, <1>11, <1>12, <2>2 DEF Presented, Overtaken
  <2>3. CASE p # q
    <3>1. req'[p] = req[p]
      BY <1>12, <2>3
    <3>2. Presented(req[p])'
      BY <1>1, <1>9, <1>11, <2>1, <3>1 DEF Presented
    <3>3. Overtaken(req[p])'
      BY <1>1, <1>5, <1>9, <1>11, <2>1, <3>1 DEF Presented, Overtaken, FamilyOf
    <3> QED BY <3>2, <3>3
  <2> QED BY <2>2, <2>3
<1>16. EndedStaysEnded'
  <2> SUFFICES ASSUME NEW i \in DOMAIN row', ~row'[i].revoked, row'[i].family \in closed
               PROVE  row'[i].late
    BY <1>9 DEF EndedStaysEnded, Live, FamilyOf
  <2>1. CASE i = Len(row) + 1
    BY <1>10, <1>11, <2>1
  <2>2. CASE i \in DOMAIN row
    BY <1>5, <1>11, <2>2 DEF ServerInv, EndedStaysEnded, Live, FamilyOf
  <2> QED BY <1>1, <1>11, <2>1, <2>2
<1> QED
  BY <1>1, <1>11, <1>12, <1>13, <1>14, <1>15, <1>16 DEF ServerInv, Kept

\* A request goes on to another step, and nothing else that the invariant sees
\* changes, but that links may come.
SteppedTo(q, step) == [req[q] EXCEPT !.step = step]
\* Such a step keeps the invariant of the server.
LEMMA ToKeeps ==
  ASSUME ServerInv, NEW q \in DOMAIN req, NEW s \in Steps, req' = To(q, s),
         req[q].kind \in {"login", "refresh"} => s # "granted",
         req[q].kind = "refresh" /\ s = "read" => Live(req[q].arg),
         UNCHANGED <<row, closed>>,
         link' \in Seq(Link), DOMAIN link \subseteq DOMAIN link', verified' \in BOOLEAN
  PROVE  ServerInv' /\ Kept
<1> DEFINE r == SteppedTo(q, s)
<1>1. req[q] \in Request /\ Presented(req[q])
  BY LenProperties DEF ServerInv, ServerTypes, RequestsOK
<1>2. /\ r \in Request /\ r.kind = req[q].kind /\ r.arg = req[q].arg /\ r.step = s
  BY <1>1 DEF SteppedTo, Request
<1>3. req' = [req EXCEPT ![q] = r]
  BY DEF To, SteppedTo
<1> HIDE DEF r
<1>4. Presented(r)
  BY <1>1, <1>2 DEF Presented
<1>5. Overtaken(r)
  BY <1>1, <1>2 DEF Overtaken, Presented, ServerInv, EndedStaysEnded
<1> QED
  BY <1>2, <1>3, <1>4, <1>5, OnlyARequest

\* Older links are retired, and stay where they are.
LEMMA Retirement ==
  ASSUME ServerInv, NEW q \in DOMAIN req
  PROVE  /\ Retired(q) \in Seq(Link) /\ Len(Retired(q)) = Len(link)
         /\ DOMAIN Retired(q) = DOMAIN link
         /\ \A i \in DOMAIN link :
              /\ Retired(q)[i].purpose = link[i].purpose /\ Retired(q)[i].seen = link[i].seen
              /\ ~Retired(q)[i].used =>
                   ~link[i].used /\ ~(i <= req[q].got /\ link[i].purpose = Purpose(q))
<1>1. link \in Seq(Link) /\ \A i \in DOMAIN link : link[i] \in Link
  BY LenProperties DEF ServerInv, ServerTypes
<1>2. ASSUME NEW i \in DOMAIN link
      PROVE  /\ Retired(q)[i] \in Link
             /\ Retired(q)[i].purpose = link[i].purpose /\ Retired(q)[i].seen = link[i].seen
             /\ ~Retired(q)[i].used =>
                  ~link[i].used /\ ~(i <= req[q].got /\ link[i].purpose = Purpose(q))
  <2> DEFINE used == link[i].used \/ (i <= req[q].got /\ link[i].purpose = Purpose(q))
  <2>1. Retired(q)[i] = [link[i] EXCEPT !.used = used] /\ used \in BOOLEAN
    BY DEF Retired
  <2> HIDE DEF used
  <2>2. Retired(q)[i].used = used
    BY <1>1, <2>1 DEF Link
  <2>3. Retired(q)[i] \in Link /\ Retired(q)[i].purpose = link[i].purpose /\ Retired(q)[i].seen = link[i].seen
    BY <1>1, <2>1 DEF Link
  <2> QED BY <2>2, <2>3 DEF used
<1>3. Retired(q) = [i \in DOMAIN link |-> Retired(q)[i]]
  BY DEF Retired
<1> QED
  BY <1>1, <1>2, <1>3, InPlace

\* A link is used up.
LEMMA Confirmation ==
  ASSUME ServerInv, NEW q \in DOMAIN req, Confirm(q), req[q].kind \in {"verify", "reset"}
  PROVE  /\ link' \in Seq(Link) /\ DOMAIN link' = DOMAIN link /\ verified' \in BOOLEAN
         /\ \A i \in DOMAIN link :
              /\ link'[i].purpose = link[i].purpose /\ link'[i].seen = link[i].seen
              /\ ~link'[i].used => ~link[i].used
<1>1. link \in Seq(Link) /\ \A i \in DOMAIN link : link[i] \in Link
  BY LenProperties DEF ServerInv, ServerTypes
<1>2. req[q].arg \in DOMAIN link
  BY DEF ServerInv, RequestsOK, Presented
<1>3. \A i \in DOMAIN link :
        link'[i] = IF i = req[q].arg THEN [link[i] EXCEPT !.used = TRUE] ELSE link[i]
  BY <1>2 DEF Confirm
<1>4. \A i \in DOMAIN link :
        /\ link'[i] \in Link
        /\ link'[i].purpose = link[i].purpose /\ link'[i].seen = link[i].seen
        /\ ~link'[i].used => ~link[i].used
  BY <1>1, <1>3 DEF Link
<1>5. link' = [i \in DOMAIN link |-> link'[i]]
  BY DEF Confirm
<1>6. link' \in Seq(Link) /\ DOMAIN link' = DOMAIN link
  BY <1>1, <1>4, <1>5, InPlace
<1>7. verified' \in BOOLEAN
  BY DEF Confirm
<1> QED
  BY <1>4, <1>6, <1>7

\* Every step of the server keeps what the server knows.
LEMMA ServerStepKeeps ==
  ASSUME SessionsInv, NEW q \in DOMAIN req, ServerStep(q)
  PROVE  ServerInv' /\ Kept /\ UNCHANGED client
<1>0. /\ ServerInv /\ req \in Seq(Request) /\ link \in Seq(Link) /\ verified \in BOOLEAN
      /\ Presented(req[q]) /\ req[q] \in Request
  BY LenProperties DEF SessionsInv, ServerInv, ServerTypes, RequestsOK
<1>1. CASE Login(q)
  <2>1. CASE row' # row
    BY <1>0, <1>1, <2>1, LoginKeeps DEF Login
  <2>2. CASE row' = row
    <3>1. Append(row, NewToken(Len(row) + 1, FALSE)) # row
      <4>1. row \in Seq(Token) /\ Len(row) \in Nat
        BY <1>0, LenProperties DEF ServerInv, ServerTypes
      <4> DEFINE e == NewToken(Len(row) + 1, FALSE)
      <4>2. e \in Token
        BY <4>1 DEF NewToken, Token
      <4> HIDE DEF e
      <4>3. Len(Append(row, e)) = Len(row) + 1
        BY <4>1, <4>2, AppendProperties
      <4>4. Append(row, e) # row
        BY <4>1, <4>3
      <4> QED BY <4>4 DEF e
    <3>2. req' = To(q, "refused") /\ UNCHANGED <<closed, link, verified, client>>
      BY <1>1, <2>2, <3>1 DEF Login
    <3> QED BY <1>0, <2>2, <3>2, ToKeeps DEF Steps
  <2> QED BY <2>1, <2>2
<1>2. CASE ReadToken(q)
  BY <1>0, <1>2, ToKeeps DEF ReadToken, server, Steps
<1>3. CASE RefuseExpired(q)
  BY <1>0, <1>3, ToKeeps DEF RefuseExpired, server, Steps
<1>4. CASE Replay(q)
  <2>1. {FamilyOf(req[q].arg)} \in SUBSET Families
    BY <1>0, <1>4 DEF Replay, Takes, Presented, Families
  <2> QED BY <1>0, <1>4, <2>1, CloseKeeps DEF Replay
<1>5. CASE Rotate(q)
  BY <1>0, <1>5, RotateKeeps DEF Rotate
<1>6. CASE Logout(q)
  <2>1. {FamilyOf(req[q].arg)} \in SUBSET Families
    BY <1>0, <1>6 DEF Logout, Takes, Presented, Families
  <2> QED BY <1>0, <1>6, <2>1, CloseKeeps DEF Logout, Takes
<1>7. CASE LogoutAll(q)
  BY <1>0, <1>7, CloseKeeps DEF LogoutAll, Takes
<1>8. CASE Retire(q)
  <2> DEFINE s == [req[q] EXCEPT !.step = "read"]
             r == [s EXCEPT !.got = Len(link)]
  <2>1. s \in Request /\ s.kind = req[q].kind /\ s.arg = req[q].arg /\ s.step = "read"
    BY <1>0 DEF Request, Steps
  <2>2. req' = [req EXCEPT ![q] = r] /\ req[q].kind \in {"forgot", "resend"}
    BY <1>8 DEF Retire, Takes
  <2> HIDE DEF s
  <2>3. r \in Request /\ r.kind = req[q].kind /\ r.arg = req[q].arg /\ r.step = "read"
    BY <1>0, <2>1, LenProperties DEF Request
  <2> HIDE DEF r
  <2>4. Presented(r) /\ Overtaken(r)
    BY <2>2, <2>3 DEF Presented, Overtaken
  <2>5. UNCHANGED <<row, closed, link, verified, client>>
    BY <1>8 DEF Retire, server
  <2> QED BY <1>0, <2>2, <2>3, <2>4, <2>5, OnlyARequest
<1>9. CASE NoLinkNeeded(q)
  <2>1. req' = To(q, "granted") \/ req' = To(q, "refused")
    BY <1>9 DEF NoLinkNeeded
  <2>2. req[q].kind = "resend" /\ UNCHANGED <<row, closed, link, verified, client>>
    BY <1>9 DEF NoLinkNeeded, Takes, server
  <2> QED BY <1>0, <2>1, <2>2, ToKeeps DEF Steps
<1>10. CASE IssueLink(q)
  <2> DEFINE e == [purpose |-> Purpose(q), used |-> FALSE, seen |-> req[q].got]
  <2>1. e \in Link /\ link' = Append(Retired(q), e)
    BY <1>0, <1>10 DEF IssueLink, Link, Purpose, Request
  <2> HIDE DEF e
  <2>2. link' \in Seq(Link) /\ DOMAIN link \subseteq DOMAIN link'
    BY <1>0, <2>1, Retirement, OneMore
  <2>3. /\ req' = To(q, "granted") /\ req[q].kind \in {"forgot", "resend"}
        /\ UNCHANGED <<row, closed, verified, client>>
    BY <1>10 DEF IssueLink, Ends
  <2> QED BY <1>0, <2>2, <2>3, ToKeeps DEF Steps
<1>11. CASE ReadLink(q)
  <2>1. req' = To(q, "read") \/ req' = To(q, "refused")
    BY <1>11 DEF ReadLink
  <2>2. req[q].kind \in {"verify", "reset"} /\ UNCHANGED <<row, closed, link, verified, client>>
    BY <1>11 DEF ReadLink, Takes, server
  <2> QED BY <1>0, <2>1, <2>2, ToKeeps DEF Steps
<1>12. CASE VerifyEmail(q)
  <2>1. /\ req' = To(q, "granted") /\ req[q].kind = "verify" /\ Confirm(q)
        /\ UNCHANGED <<row, closed, client>>
    BY <1>12 DEF VerifyEmail, Ends
  <2> QED BY <1>0, <2>1, Confirmation, ToKeeps DEF Steps
<1>13. CASE ResetPassword(q)
  <2>1. req[q].kind = "reset" /\ Confirm(q) /\ Close(Families, q, "granted") /\ UNCHANGED client
    BY <1>13 DEF ResetPassword, Ends
  <2> QED BY <1>0, <2>1, Confirmation, CloseKeeps
<1>14. CASE HandlerFails(q)
  BY <1>0, <1>14, ToKeeps DEF HandlerFails, server, Steps
<1> QED
  BY <1>1, <1>2, <1>3, <1>4, <1>5, <1>6, <1>7, <1>8, <1>9, <1>10, <1>11, <1>12, <1>13, <1>14
     DEF ServerStep

-----------------------------------------------------------------------------
(* Steps of the client. *)

\* A request is sent.
LEMMA SendKeeps ==
  ASSUME ServerInv, NEW kind \in Kinds, NEW t \in Tabs \cup {Nobody}, NEW arg \in Nat,
         Send(kind, t, arg), UNCHANGED server,
         kind \in {"refresh", "logout"} => arg \in DOMAIN row,
         kind \in {"verify", "reset"} => arg \in DOMAIN link
  PROVE  /\ ServerInv' /\ Kept
         /\ Len(req) + 1 \in DOMAIN req' /\ req'[Len(req) + 1].kind = kind
<1> DEFINE r == [kind |-> kind, tab |-> t, arg |-> arg, step |-> "sent",
                 got |-> 0, late |-> FALSE, gone |-> FALSE]
<1>1. r \in Request /\ r.kind = kind /\ r.arg = arg /\ r.step = "sent"
  BY DEF Request, Steps
<1>2. req' = Append(req, r)
  BY DEF Send
<1> HIDE DEF r
<1>3. req \in Seq(Request) /\ Len(row) \in Nat
  BY LenProperties DEF ServerInv, ServerTypes
<1>4. /\ req' \in Seq(Request) /\ Len(req) \in Nat
      /\ DOMAIN req = 1 .. Len(req) /\ DOMAIN req' = 1 .. Len(req) + 1
      /\ \A i \in DOMAIN req : req'[i] = req[i]
      /\ req'[Len(req) + 1] = r
  BY <1>1, <1>2, <1>3, OneMore
<1>5. Presented(r) /\ Overtaken(r)
  BY <1>1 DEF Presented, Overtaken
<1>6. \A p \in DOMAIN req' : Presented(req'[p]) /\ Overtaken(req'[p])
  BY <1>4, <1>5 DEF ServerInv, RequestsOK
<1>7. UNCHANGED <<row, closed, link, verified>>
  BY DEF server
<1>8. RequestsOK'
  BY <1>6, <1>7 DEF RequestsOK, Presented, Overtaken, FamilyOf
<1>9. ServerTypes' /\ Named' /\ EndedStaysEnded'
  BY <1>4, <1>7 DEF ServerInv, ServerTypes, Named, EndedStaysEnded, Live, FamilyOf
<1> QED
  BY <1>1, <1>3, <1>4, <1>7, <1>8, <1>9 DEF ServerInv, Kept

\* Tabs hear of requests, or stop waiting for them.
Heard ==
  /\ req' \in Seq(Request) /\ DOMAIN req' = DOMAIN req
  /\ \A p \in DOMAIN req :
       /\ req'[p].kind = req[p].kind /\ req'[p].arg = req[p].arg /\ req'[p].got = req[p].got
       /\ req'[p].late = req[p].late
       /\ req'[p].step \in {req[p].step, "done"}
\* What tabs hear keeps the invariant of the server.
LEMMA HeardKeeps ==
  ASSUME ServerInv, Heard, UNCHANGED server
  PROVE  ServerInv' /\ Kept
<1>1. UNCHANGED <<row, closed, link, verified>> /\ Len(row) \in Nat
  BY LenProperties DEF server, ServerInv, ServerTypes
<1>2. \A p \in DOMAIN req : Presented(req'[p]) /\ Overtaken(req'[p])
  BY DEF ServerInv, RequestsOK, Heard, Presented, Overtaken
<1>3. RequestsOK'
  BY <1>1, <1>2 DEF Heard, RequestsOK, Presented, Overtaken, FamilyOf
<1> QED
  BY <1>1, <1>3 DEF ServerInv, ServerTypes, Named, EndedStaysEnded, Live, FamilyOf, Heard, Kept

\* An answer, or none.
LEMMA Hearing ==
  ASSUME ServerInv, NEW q \in DOMAIN req,
         NoAnswer(q) \/ \E step \in Steps : Answered(q, step)
  PROVE  Heard
<1>1. req[q] \in Request /\ req \in Seq(Request)
  BY LenProperties DEF ServerInv, ServerTypes
<1>2. ASSUME NEW r \in Request, req' = [req EXCEPT ![q] = r],
             r.kind = req[q].kind, r.arg = req[q].arg, r.got = req[q].got,
             r.late = req[q].late, r.step \in {req[q].step, "done"}
      PROVE  Heard
  <2>1. /\ req' \in Seq(Request) /\ DOMAIN req' = DOMAIN req
        /\ req'[q] = r /\ \A p \in DOMAIN req : p # q => req'[p] = req[p]
    BY <1>2, OneRequest
  <2> QED BY <1>2, <2>1 DEF Heard
<1>3. CASE req' = [req EXCEPT ![q].step = "done"]
  <2> DEFINE r == [req[q] EXCEPT !.step = "done"]
  <2>1. /\ r \in Request /\ r.kind = req[q].kind /\ r.arg = req[q].arg /\ r.got = req[q].got
        /\ r.late = req[q].late /\ r.step = "done"
    BY <1>1 DEF Request, Steps
  <2>2. req' = [req EXCEPT ![q] = r]
    BY <1>3
  <2> HIDE DEF r
  <2> QED BY <1>2, <2>1, <2>2
<1>4. CASE req' = [req EXCEPT ![q].gone = TRUE]
  <2> DEFINE r == [req[q] EXCEPT !.gone = TRUE]
  <2>1. /\ r \in Request /\ r.kind = req[q].kind /\ r.arg = req[q].arg /\ r.got = req[q].got
        /\ r.late = req[q].late /\ r.step = req[q].step
    BY <1>1 DEF Request
  <2>2. req' = [req EXCEPT ![q] = r]
    BY <1>4
  <2> HIDE DEF r
  <2> QED BY <1>2, <2>1, <2>2
<1> QED
  BY <1>3, <1>4 DEF NoAnswer, Answered

\* A browser stores a token that there is, or none, and tabs stop waiting.
LEMMA StoreKeeps ==
  ASSUME ClientTypes, Held, Kept, NEW t \in Tabs, NEW k \in {0} \cup DOMAIN row,
         DOMAIN row \subseteq Nat, NEW unattended \in BOOLEAN, Store(BrowserOf[t], k, unattended),
         NEW what \in {"checking", "authenticated", "anonymous"}, Show(t, what),
         flight' \in {flight, [flight EXCEPT ![t] = 0]},
         busy' \in {busy, [busy EXCEPT ![t] = 0]}
  PROVE  ClientTypes' /\ Held'
<1>1. BrowserOf[t] \in Browsers
  BY SessionsAssumption
<1>2. stray' \in [Browsers -> BOOLEAN]
  BY <1>1 DEF Store, ClientTypes
<1>3. storage' \in [Browsers -> Nat]
  BY <1>1 DEF Store, ClientTypes
<1>4. /\ flight' \in [Tabs -> Nat] /\ busy' \in [Tabs -> Nat]
      /\ screen' \in [Tabs -> {"checking", "authenticated", "anonymous"}]
  BY DEF Show, ClientTypes
<1>5. Held'
  BY <1>1, ZenonT(60) DEF Held, Kept, Store, ClientTypes
<1> QED
  BY <1>2, <1>3, <1>4, <1>5 DEF ClientTypes


\* Every step of a tab, and every call from outside, keeps the invariant.
LEMMA ClientStepKeeps ==
  ASSUME SessionsInv, NEW t \in Tabs,
         Refresh(t) \/ CheckFails(t) \/ SignIn(t) \/ SignOut(t) \/ Settle(t) \/ Reload(t)
  PROVE  SessionsInv'
<1>0. /\ ServerInv /\ ClientTypes /\ Held /\ req \in Seq(Request)
      /\ DOMAIN row \subseteq Nat /\ Len(row) \in Nat
      /\ BrowserOf[t] \in Browsers
      /\ t \in Tabs \cup {Nobody} /\ 0 \in Nat
  BY SessionsAssumption, LenProperties DEF SessionsInv, ServerInv, ServerTypes
<1>00. /\ storage[BrowserOf[t]] \in {0} \cup DOMAIN row /\ storage[BrowserOf[t]] \in Nat
       /\ flight[t] # 0 => flight[t] \in DOMAIN req /\ req[flight[t]].kind = "refresh"
       /\ busy[t] # 0 => busy[t] \in DOMAIN req /\ req[busy[t]].kind \in {"login", "logout"}
       /\ screen[t] \in {"checking", "authenticated", "anonymous"}
  BY <1>0 DEF Held, ClientTypes
<1>1. CASE Refresh(t)
  <2>1. /\ storage[BrowserOf[t]] # 0 /\ Send("refresh", t, storage[BrowserOf[t]])
        /\ flight' = [flight EXCEPT ![t] = Len(req) + 1]
        /\ UNCHANGED server /\ UNCHANGED <<storage, busy, screen, stray>>
    BY <1>1 DEF Refresh, MayRefresh
  <2>2. /\ ServerInv' /\ Kept /\ Len(req) + 1 \in DOMAIN req'
        /\ req'[Len(req) + 1].kind = "refresh"
    BY <1>0, <1>00, <2>1, SendKeeps DEF Kinds
  <2>3. Len(req) + 1 \in Nat
    BY <1>0, LenProperties
  <2> QED BY <1>0, <2>1, <2>2, <2>3 DEF SessionsInv, ClientTypes, Held, Kept
<1>2. CASE CheckFails(t)
  <2>1. /\ Store(BrowserOf[t], 0, FALSE) /\ Show(t, "anonymous")
        /\ UNCHANGED server /\ UNCHANGED <<req, flight, busy>>
    BY <1>2 DEF CheckFails, Clear
  <2>2. Heard
    BY <1>0, <2>1 DEF Heard
  <2>3. ServerInv' /\ Kept
    BY <1>0, <2>1, <2>2, HeardKeeps
  <2> QED BY <1>0, <2>1, <2>3, StoreKeeps DEF SessionsInv
<1>3. CASE SignIn(t)
  <2>1. /\ Send("login", t, 0) /\ busy' = [busy EXCEPT ![t] = Len(req) + 1]
        /\ UNCHANGED server /\ UNCHANGED <<storage, flight, screen, stray>>
    BY <1>3 DEF SignIn
  <2>2. /\ ServerInv' /\ Kept /\ Len(req) + 1 \in DOMAIN req'
        /\ req'[Len(req) + 1].kind = "login"
    BY <1>0, <2>1, SendKeeps DEF Kinds
  <2>3. Len(req) + 1 \in Nat
    BY <1>0, LenProperties
  <2> QED BY <1>0, <2>1, <2>2, <2>3 DEF SessionsInv, ClientTypes, Held, Kept
<1>4. CASE SignOut(t)
  <2>1. CASE storage[BrowserOf[t]] # 0
    <3>1. /\ Send("logout", t, storage[BrowserOf[t]])
          /\ busy' = [busy EXCEPT ![t] = Len(req) + 1]
          /\ UNCHANGED server /\ UNCHANGED <<storage, flight, screen, stray>>
      BY <1>4, <2>1 DEF SignOut
    <3>2. /\ ServerInv' /\ Kept /\ Len(req) + 1 \in DOMAIN req'
          /\ req'[Len(req) + 1].kind = "logout"
      BY <1>0, <1>00, <2>1, <3>1, SendKeeps DEF Kinds
    <3>3. Len(req) + 1 \in Nat
      BY <1>0, LenProperties
    <3> QED BY <1>0, <3>1, <3>2, <3>3 DEF SessionsInv, ClientTypes, Held, Kept
  <2>2. CASE storage[BrowserOf[t]] = 0
    <3>1. /\ Store(BrowserOf[t], 0, FALSE) /\ Show(t, "anonymous")
          /\ UNCHANGED server /\ UNCHANGED <<req, flight, busy>>
      BY <1>4, <2>2 DEF SignOut, Clear
    <3>2. Heard
      BY <1>0, <3>1 DEF Heard
    <3>3. ServerInv' /\ Kept
      BY <1>0, <3>1, <3>2, HeardKeeps
    <3> QED BY <1>0, <3>1, <3>3, StoreKeeps DEF SessionsInv
  <2> QED BY <2>1, <2>2
<1>5. CASE RefreshAnswered(t)
  <2> DEFINE k == req[flight[t]].got
             what == IF screen[t] = "checking" THEN "authenticated" ELSE screen[t]
  <2>1. /\ flight[t] # 0 /\ Answered(flight[t], "granted")
        /\ Store(BrowserOf[t], k, screen[t] = "anonymous") /\ Show(t, what)
        /\ flight' = [flight EXCEPT ![t] = 0] /\ UNCHANGED server /\ UNCHANGED busy
    BY <1>5 DEF RefreshAnswered
  <2>2. k \in DOMAIN row
    BY <1>0, <1>00, <2>1 DEF Answered, ServerInv, RequestsOK, Presented
  <2>3. what \in {"checking", "authenticated", "anonymous"}
    BY <1>00
  <2>4. Heard
    BY <1>0, <1>00, <2>1, Hearing DEF Steps
  <2>5. ServerInv' /\ Kept
    BY <1>0, <2>1, <2>4, HeardKeeps
  <2> HIDE DEF k, what
  <2> QED BY <1>0, <2>1, <2>2, <2>3, <2>5, StoreKeeps DEF SessionsInv
<1>6. CASE RefreshFails(t)
  <2>1. /\ flight[t] # 0 /\ NoAnswer(flight[t])
        /\ Store(BrowserOf[t], 0, FALSE) /\ Show(t, "anonymous")
        /\ flight' = [flight EXCEPT ![t] = 0] /\ UNCHANGED server /\ UNCHANGED busy
    BY <1>6 DEF RefreshFails, Clear
  <2>2. Heard
    BY <1>0, <1>00, <2>1, Hearing
  <2>3. ServerInv' /\ Kept
    BY <1>0, <2>1, <2>2, HeardKeeps
  <2> QED BY <1>0, <2>1, <2>3, StoreKeeps DEF SessionsInv
<1>7. CASE SignInAnswered(t)
  <2> DEFINE k == req[busy[t]].got
  <2>1. /\ busy[t] # 0 /\ req[busy[t]].kind = "login" /\ Answered(busy[t], "granted")
        /\ Store(BrowserOf[t], k, FALSE) /\ Show(t, "authenticated")
        /\ busy' = [busy EXCEPT ![t] = 0] /\ UNCHANGED server /\ UNCHANGED flight
    BY <1>7 DEF SignInAnswered, Waits
  <2>2. k \in DOMAIN row
    BY <1>0, <1>00, <2>1 DEF Answered, ServerInv, RequestsOK, Presented
  <2>3. Heard
    BY <1>0, <1>00, <2>1, Hearing DEF Steps
  <2>4. ServerInv' /\ Kept
    BY <1>0, <2>1, <2>3, HeardKeeps
  <2> HIDE DEF k
  <2> QED BY <1>0, <2>1, <2>2, <2>4, StoreKeeps DEF SessionsInv
<1>8. CASE SignInFails(t)
  <2>1. /\ busy[t] # 0 /\ NoAnswer(busy[t])
        /\ busy' = [busy EXCEPT ![t] = 0] /\ UNCHANGED server
        /\ UNCHANGED <<storage, flight, screen, stray>>
    BY <1>8 DEF SignInFails, Waits
  <2>2. Heard
    BY <1>0, <1>00, <2>1, Hearing
  <2>3. ServerInv' /\ Kept
    BY <1>0, <2>1, <2>2, HeardKeeps
  <2> QED BY <1>0, <2>1, <2>3 DEF SessionsInv, ClientTypes, Held, Kept
<1>9. CASE SignOutEnds(t)
  <2>1. /\ busy[t] # 0 /\ (Answered(busy[t], "granted") \/ NoAnswer(busy[t]))
        /\ Store(BrowserOf[t], 0, FALSE) /\ Show(t, "anonymous")
        /\ busy' = [busy EXCEPT ![t] = 0] /\ UNCHANGED server /\ UNCHANGED flight
    BY <1>9 DEF SignOutEnds, Clear, Waits
  <2>2. Heard
    BY <1>0, <1>00, <2>1, Hearing DEF Steps
  <2>3. ServerInv' /\ Kept
    BY <1>0, <2>1, <2>2, HeardKeeps
  <2> QED BY <1>0, <2>1, <2>3, StoreKeeps DEF SessionsInv
<1>10. CASE Reload(t)
  <2>1. /\ req' = [q \in DOMAIN req |->
                    [req[q] EXCEPT !.gone = @ \/ q \in {flight[t], busy[t]}]]
        /\ flight' = [flight EXCEPT ![t] = 0] /\ busy' = [busy EXCEPT ![t] = 0]
        /\ UNCHANGED server /\ UNCHANGED <<storage, stray>>
        /\ \E what \in {"checking", "anonymous"} : Show(t, what)
    BY <1>10 DEF Reload
  <2>2. ASSUME NEW q \in DOMAIN req
        PROVE  /\ req'[q] \in Request
               /\ req'[q].kind = req[q].kind /\ req'[q].arg = req[q].arg
               /\ req'[q].got = req[q].got /\ req'[q].late = req[q].late
               /\ req'[q].step = req[q].step
    <3> DEFINE g == req[q].gone \/ q \in {flight[t], busy[t]}
    <3>1. req'[q] = [req[q] EXCEPT !.gone = g] /\ g \in BOOLEAN
      BY <2>1
    <3> HIDE DEF g
    <3>2. req[q] \in Request
      BY <1>0, LenProperties
    <3> QED BY <3>1, <3>2 DEF Request
  <2>3. req' = [q \in DOMAIN req |-> req'[q]]
    BY <2>1
  <2>4. req' \in Seq(Request) /\ DOMAIN req' = DOMAIN req
    BY <1>0, <2>2, <2>3, InPlace
  <2>5. Heard
    BY <2>2, <2>4 DEF Heard
  <2>6. ServerInv' /\ Kept
    BY <1>0, <2>1, <2>5, HeardKeeps
  <2> QED BY <1>0, <2>1, <2>6 DEF SessionsInv, ClientTypes, Held, Kept, Show
<1> QED
  BY <1>1, <1>2, <1>3, <1>4, <1>5, <1>6, <1>7, <1>8, <1>9, <1>10 DEF Settle

\* Every step keeps the invariant.
LEMMA StepInv == SessionsInv /\ [Next]_vars => SessionsInv'
<1> SUFFICES ASSUME SessionsInv, [Next]_vars PROVE SessionsInv'
  OBVIOUS
<1>0. ServerInv /\ ClientTypes /\ Held /\ DOMAIN link \subseteq Nat
  BY LenProperties DEF SessionsInv, ServerInv, ServerTypes
<1>1. CASE \E q \in DOMAIN req : ServerStep(q)
  BY <1>0, <1>1, ServerStepKeeps, BrowsersKept DEF SessionsInv
<1>2. CASE \E t \in Tabs : \/ Refresh(t) \/ CheckFails(t) \/ SignIn(t) \/ SignOut(t)
                           \/ Settle(t) \/ Reload(t)
  BY <1>2, ClientStepKeeps
<1>3. CASE Ask
  <2>1. UNCHANGED server /\ UNCHANGED client
    BY <1>3 DEF Ask
  <2>2. ServerInv' /\ Kept
    <3>1. CASE \E kind \in {"logoutAll", "forgot", "resend"} : Send(kind, Nobody, 0)
      BY <1>0, <2>1, <3>1, SendKeeps DEF Kinds
    <3>2. CASE \E i \in DOMAIN link : Send(link[i].purpose, Nobody, i)
      <4>1. PICK i \in DOMAIN link : Send(link[i].purpose, Nobody, i)
        BY <3>2
      <4>2. link[i] \in Link
        BY <1>0, LenProperties DEF ServerInv, ServerTypes
      <4>3. link[i].purpose \in {"reset", "verify"} /\ i \in Nat
        BY <1>0, <4>2 DEF Link
      <4> QED BY <1>0, <2>1, <4>1, <4>3, SendKeeps DEF Kinds
    <3> QED BY <1>3, <3>1, <3>2 DEF Ask
  <2> QED BY <1>0, <2>1, <2>2, BrowsersKept DEF SessionsInv
<1>4. CASE UNCHANGED vars
  BY <1>4 DEF vars, server, client, SessionsInv, ServerInv, ServerTypes, Named, RequestsOK,
     EndedStaysEnded, ClientTypes, Held, Presented, Overtaken, Live, FamilyOf
<1> QED
  BY <1>1, <1>2, <1>3, <1>4 DEF Next

\* In every reachable state.
LEMMA AlwaysInv == Spec => []SessionsInv
BY InitInv, StepInv, PTL DEF Spec

\* Every variable of the sessions has its type.
THEOREM TypeOKHolds == Spec => []TypeOK
<1>1. SessionsInv => TypeOK
  BY Types DEF SessionsInv, ServerInv
<1> QED BY <1>1, AlwaysInv, PTL

\* A session that was ended stays ended (routes/auth.py:96-151, account.py:180-185),
\* whatever refreshes were on their way: each of them leaves at most a marked token.
THEOREM EndedStaysEndedHolds == Spec => []EndedStaysEnded
<1>1. SessionsInv => EndedStaysEnded
  BY DEF SessionsInv, ServerInv
<1> QED BY <1>1, AlwaysInv, PTL

-----------------------------------------------------------------------------
(* The invariants that need the types and no more of the strengthening. *)

\* The browsers of a tab that stores, and of the others.
LEMMA StoredAt ==
  ASSUME ClientTypes, NEW t \in Tabs, NEW k, NEW unattended \in BOOLEAN,
         Store(BrowserOf[t], k, unattended), NEW what, Show(t, what), NothingLeftBehind,
         what = "anonymous" => k = 0 \/ unattended
  PROVE  NothingLeftBehind'
<1> SUFFICES ASSUME NEW b \in Browsers,
                    \A u \in Tabs : BrowserOf[u] = b => screen'[u] = "anonymous"
             PROVE  storage'[b] = 0 \/ stray'[b]
  BY DEF NothingLeftBehind
<1>1. BrowserOf[t] \in Browsers
  BY SessionsAssumption
<1>2. CASE b = BrowserOf[t]
  BY <1>1, <1>2 DEF ClientTypes, Store, Show
<1>3. CASE b # BrowserOf[t]
  <2>1. \A u \in Tabs : BrowserOf[u] = b => u # t /\ screen[u] = "anonymous"
    BY <1>3 DEF ClientTypes, Show
  <2>2. storage'[b] = storage[b] /\ stray'[b] = stray[b]
    BY <1>1, <1>3 DEF ClientTypes, Store
  <2> QED BY <2>1, <2>2 DEF NothingLeftBehind
<1> QED BY <1>2, <1>3

\* Where nobody is signed in no token is left behind, except by a refresh that was
\* answered after its tab had signed out (api/auth.ts:105-128).
THEOREM NothingLeftBehindHolds == Spec => []NothingLeftBehind
<1>1. Init => NothingLeftBehind
  BY SessionsAssumption DEF Init, NothingLeftBehind
<1>2. ASSUME SessionsInv, NothingLeftBehind, [Next]_vars PROVE NothingLeftBehind'
  <2>0. ClientTypes
    BY <1>2 DEF SessionsInv
  <2>1. CASE UNCHANGED <<storage, stray, screen>>
    BY <1>2, <2>1 DEF NothingLeftBehind
  <2>2. ASSUME NEW q \in DOMAIN req, ServerStep(q)
        PROVE  UNCHANGED <<storage, stray, screen>>
    BY <1>2, <2>2, ServerStepKeeps DEF client
  <2>3. ASSUME NEW t \in Tabs,
               Refresh(t) \/ CheckFails(t) \/ SignIn(t) \/ SignOut(t) \/ Settle(t) \/ Reload(t)
        PROVE  NothingLeftBehind'
    <3>0. BrowserOf[t] \in Browsers /\ screen[t] \in {"checking", "authenticated", "anonymous"}
      BY <2>0, SessionsAssumption DEF ClientTypes
    <3>1. CASE Refresh(t) \/ SignIn(t) \/ SignInFails(t)
      BY <2>1, <3>1 DEF Refresh, SignIn, SignInFails
    <3>2. CASE CheckFails(t) \/ RefreshFails(t) \/ SignOutEnds(t)
      <4>1. Store(BrowserOf[t], 0, FALSE) /\ Show(t, "anonymous")
        BY <3>2 DEF CheckFails, RefreshFails, SignOutEnds, Clear
      <4> QED BY <1>2, <2>0, <4>1, StoredAt
    <3>3. CASE SignOut(t)
      <4>1. CASE storage[BrowserOf[t]] # 0
        BY <2>1, <3>3, <4>1 DEF SignOut
      <4>2. CASE storage[BrowserOf[t]] = 0
        <5>1. Store(BrowserOf[t], 0, FALSE) /\ Show(t, "anonymous")
          BY <3>3, <4>2 DEF SignOut, Clear
        <5> QED BY <1>2, <2>0, <5>1, StoredAt
      <4> QED BY <4>1, <4>2
    <3>4. CASE RefreshAnswered(t)
      <4> DEFINE k == req[flight[t]].got
                 away == screen[t] = "anonymous"
                 what == IF screen[t] = "checking" THEN "authenticated" ELSE screen[t]
      <4>1. Store(BrowserOf[t], k, away) /\ Show(t, what)
        BY <3>4 DEF RefreshAnswered
      <4>2. away \in BOOLEAN /\ (what = "anonymous" => away)
        OBVIOUS
      <4> HIDE DEF k, away, what
      <4> QED BY <1>2, <2>0, <4>1, <4>2, StoredAt
    <3>5. CASE SignInAnswered(t)
      <4> DEFINE k == req[busy[t]].got
      <4>1. Store(BrowserOf[t], k, FALSE) /\ Show(t, "authenticated")
        BY <3>5 DEF SignInAnswered
      <4>2. "authenticated" = "anonymous" => k = 0 \/ FALSE
        OBVIOUS
      <4>3. FALSE \in BOOLEAN
        OBVIOUS
      <4> HIDE DEF k
      <4> QED BY <1>2, <2>0, <4>1, <4>2, <4>3, StoredAt
    <3>6. CASE Reload(t)
      <4> SUFFICES ASSUME NEW b \in Browsers,
                          \A u \in Tabs : BrowserOf[u] = b => screen'[u] = "anonymous"
                   PROVE  storage[b] = 0 \/ stray[b]
        BY <3>6 DEF NothingLeftBehind, Reload
      <4>1. CASE b = BrowserOf[t]
        BY <2>0, <3>6, <4>1 DEF Reload, Show, ClientTypes
      <4>2. CASE b # BrowserOf[t]
        <5>1. \A u \in Tabs : BrowserOf[u] = b => screen[u] = "anonymous"
          BY <2>0, <3>6, <4>2 DEF Reload, Show, ClientTypes
        <5> QED BY <1>2, <5>1 DEF NothingLeftBehind
      <4> QED BY <4>1, <4>2
    <3> QED BY <2>3, <3>1, <3>2, <3>3, <3>4, <3>5, <3>6 DEF Settle
  <2>4. CASE Ask \/ UNCHANGED vars
    BY <2>1, <2>4 DEF Ask, vars, client
  <2> QED BY <1>2, <2>1, <2>2, <2>3, <2>4 DEF Next
<1> QED BY <1>1, <1>2, AlwaysInv, PTL DEF Spec

\* The newest link is the only one that works, unless it was asked for before the
\* older one was committed (account.py:36-62, 118-140).
THEOREM OneWorkingLinkHolds == Spec => []OneWorkingLink
<1>1. Init => OneWorkingLink
  BY DEF Init, OneWorkingLink
<1>2. ASSUME SessionsInv, OneWorkingLink, [Next]_vars PROVE OneWorkingLink'
  <2>0. ServerInv /\ link \in Seq(Link) /\ req \in Seq(Request) /\ DOMAIN link = 1 .. Len(link) /\ Len(link) \in Nat
    BY <1>2, LenProperties DEF SessionsInv, ServerInv, ServerTypes
  <2>1. CASE UNCHANGED link
    BY <1>2, <2>1 DEF OneWorkingLink
  <2>2. ASSUME NEW q \in DOMAIN req, Confirm(q), req[q].kind \in {"verify", "reset"}
        PROVE  OneWorkingLink'
    <3>1. /\ DOMAIN link' = DOMAIN link
          /\ \A i \in DOMAIN link :
               /\ link'[i].purpose = link[i].purpose /\ link'[i].seen = link[i].seen
               /\ ~link'[i].used => ~link[i].used
      BY <2>0, <2>2, Confirmation
    <3> QED BY <1>2, <3>1 DEF OneWorkingLink
  <2>3. ASSUME NEW q \in DOMAIN req, IssueLink(q) PROVE OneWorkingLink'
    <3> DEFINE e == [purpose |-> Purpose(q), used |-> FALSE, seen |-> req[q].got]
               old == Retired(q)
    <3>1. req[q] \in Request
      BY <2>0, LenProperties
    <3>2. /\ e \in Link /\ e.purpose = Purpose(q) /\ e.seen = req[q].got /\ req[q].got \in Nat
      BY <3>1 DEF Link, Purpose, Request
    <3>3. link' = Append(old, e)
      BY <2>3 DEF IssueLink
    <3>4. /\ old \in Seq(Link) /\ Len(old) = Len(link) /\ DOMAIN old = DOMAIN link
          /\ \A i \in DOMAIN link :
               /\ old[i].purpose = link[i].purpose /\ old[i].seen = link[i].seen
               /\ ~old[i].used =>
                    ~link[i].used /\ ~(i <= req[q].got /\ link[i].purpose = Purpose(q))
      BY <2>0, Retirement
    <3> HIDE DEF e, old
    <3>5. /\ DOMAIN link' = 1 .. Len(link) + 1 /\ link'[Len(link) + 1] = e
          /\ \A i \in DOMAIN link : link'[i] = old[i]
      BY <2>0, <3>2, <3>3, <3>4, OneMore
    <3> SUFFICES ASSUME NEW i \in DOMAIN link', NEW j \in DOMAIN link', i < j,
                        link'[i].purpose = link'[j].purpose, ~link'[i].used, ~link'[j].used
                 PROVE  link'[j].seen < i
      BY DEF OneWorkingLink
    <3>6. i \in DOMAIN link
      BY <2>0, <3>5
    <3>7. CASE j \in DOMAIN link
      BY <1>2, <3>4, <3>5, <3>6, <3>7 DEF OneWorkingLink
    <3>8. CASE j = Len(link) + 1
      <4>1. link[i].purpose = Purpose(q) /\ ~old[i].used
        BY <3>2, <3>4, <3>5, <3>6, <3>8
      <4>2. ~(i <= req[q].got)
        BY <3>4, <3>6, <4>1
      <4> QED BY <2>0, <3>2, <3>5, <3>6, <3>8, <4>2
    <3> QED BY <2>0, <3>5, <3>7, <3>8
  <2>4. ASSUME NEW q \in DOMAIN req, ServerStep(q) PROVE OneWorkingLink'
    <3>1. CASE IssueLink(q)
      BY <2>3, <3>1
    <3>2. CASE VerifyEmail(q) \/ ResetPassword(q)
      BY <2>2, <3>2 DEF VerifyEmail, ResetPassword, Ends
    <3>3. CASE \/ Login(q) \/ ReadToken(q) \/ RefuseExpired(q) \/ Replay(q) \/ Rotate(q)
               \/ Logout(q) \/ LogoutAll(q) \/ Retire(q) \/ NoLinkNeeded(q) \/ ReadLink(q)
               \/ HandlerFails(q)
      BY <2>1, <3>3 DEF Login, ReadToken, RefuseExpired, Replay, Rotate, Logout, LogoutAll,
         Retire, NoLinkNeeded, ReadLink, HandlerFails, server
    <3> QED BY <2>4, <3>1, <3>2, <3>3 DEF ServerStep
  <2>5. ASSUME NEW t \in Tabs,
               Refresh(t) \/ CheckFails(t) \/ SignIn(t) \/ SignOut(t) \/ Settle(t) \/ Reload(t)
        PROVE  OneWorkingLink'
    BY <2>1, <2>5 DEF Refresh, CheckFails, SignIn, SignOut, Settle, Reload, RefreshAnswered,
       RefreshFails, SignInAnswered, SignInFails, SignOutEnds, server
  <2>6. CASE Ask \/ UNCHANGED vars
    BY <2>1, <2>6 DEF Ask, vars, server
  <2> QED BY <1>2, <2>4, <2>5, <2>6 DEF Next
<1> QED BY <1>1, <1>2, AlwaysInv, PTL DEF Spec

-----------------------------------------------------------------------------
(* A tab is not taken for a replay of itself. *)

\* A token that was granted, and nobody has stored or presented yet.
Granting(p) == req[p].kind \in {"login", "refresh"} /\ req[p].step = "granted"
Untaken(k) ==
  /\ \A b \in Browsers : storage[b] # k
  /\ \A p \in DOMAIN req : req[p].kind = "refresh" => req[p].arg # k

\* Why a token is revoked, and by whom it was rotated.
Revocations ==
  \A k \in DOMAIN row :
    /\ row[k].revoked => FamilyOf(k) \in closed \/ row[k].by # {}
    /\ \A p \in row[k].by :
         /\ p \in DOMAIN req /\ req[p].kind = "refresh" /\ req[p].arg = k
         /\ req[p].step \in {"granted", "done"}
Grants ==
  \A p \in DOMAIN req : Granting(p) =>
    /\ Untaken(req[p].got)
    /\ \A q \in DOMAIN req : Granting(q) /\ q # p => req[q].got # req[p].got
Flights ==
  /\ \A t \in Tabs : flight[t] # 0 => req[flight[t]].tab = t
  /\ \A p \in DOMAIN req : req[p].kind = "refresh" =>
       /\ req[p].tab \in Tabs
       /\ ~req[p].gone /\ req[p].step # "done" => flight[req[p].tab] = p
\* The token that a tab has heard to be rotated is not in its browser any more, and
\* the tab does not present it.
Forgotten ==
  \A k \in DOMAIN row : \A p \in row[k].by :
    req[p].step = "done" /\ ~req[p].gone =>
      /\ storage[BrowserOf[req[p].tab]] # k
      /\ flight[req[p].tab] # 0 => req[flight[req[p].tab]].arg # k
ReplayInv == Revocations /\ Grants /\ Flights /\ Forgotten

\* The strengthening explains every replay.
LEMMA ReplaySafe == SessionsInv /\ ReplayInv => ReplayExplained
<1> SUFFICES ASSUME SessionsInv, ReplayInv, NEW t \in Tabs, flight[t] # 0,
                    Takes(flight[t], "refresh"), ~Live(req[flight[t]].arg),
                    FamilyOf(req[flight[t]].arg) \notin closed
             PROVE  RotatedUnheard(flight[t])
  BY DEF ReplayExplained
<1> DEFINE q == flight[t]
           k == req[q].arg
<1>1. q \in DOMAIN req /\ k \in DOMAIN row /\ req[q].tab = t
  BY DEF SessionsInv, ServerInv, RequestsOK, Presented, Held, Takes, ReplayInv, Flights
<1>2. PICK p \in row[k].by : TRUE
  BY <1>1 DEF Live, ReplayInv, Revocations
<1>3. /\ p \in DOMAIN req /\ req[p].kind = "refresh" /\ req[p].step \in {"granted", "done"}
  BY <1>1, <1>2 DEF ReplayInv, Revocations
<1> SUFFICES ASSUME req[p].tab = t, ~req[p].gone PROVE FALSE
  BY <1>1, <1>2 DEF RotatedUnheard
<1>4. CASE req[p].step = "done"
  BY <1>1, <1>2, <1>4 DEF ReplayInv, Forgotten
<1>5. CASE req[p].step = "granted"
  <2>1. flight[t] = p
    BY <1>3, <1>5 DEF ReplayInv, Flights
  <2> QED BY <1>5, <2>1 DEF Takes
<1> QED BY <1>3, <1>4, <1>5

\* The server grants no token and forgets no rotation.
Quiet ==
  /\ UNCHANGED client
  /\ DOMAIN row' = DOMAIN row /\ closed \subseteq closed'
  /\ \A k \in DOMAIN row :
       /\ row'[k].by = row[k].by /\ row'[k].family = row[k].family
       /\ row'[k].revoked => row[k].revoked \/ row[k].family \in closed'
  /\ DOMAIN req' = DOMAIN req
  /\ \A p \in DOMAIN req :
       /\ req'[p].kind = req[p].kind /\ req'[p].tab = req[p].tab
       /\ req'[p].arg = req[p].arg /\ req'[p].gone = req[p].gone
       /\ req[p].step \in {"granted", "done"} => req'[p].step = req[p].step
       /\ req'[p].step = "done" => req[p].step = "done"
       /\ Granting(p)' => Granting(p) /\ req'[p].got = req[p].got
\* Such a step keeps the explanations.
LEMMA QuietKeeps ==
  ASSUME SessionsInv, ReplayInv, Quiet
  PROVE  ReplayInv'
<1>1. UNCHANGED <<storage, flight>>
  BY DEF Quiet, client
<1>2. Revocations'
  BY DEF ReplayInv, Revocations, Quiet, FamilyOf
<1>3. Grants'
  <2>1. \A k : Untaken(k) => Untaken(k)'
    BY <1>1 DEF Quiet, Untaken
  <2> QED BY <2>1 DEF ReplayInv, Grants, Quiet
<1>4. Flights'
  BY <1>1 DEF ReplayInv, Flights, Quiet, SessionsInv, Held
<1>5. Forgotten'
  BY <1>1 DEF ReplayInv, Revocations, Flights, Forgotten, Quiet, SessionsInv, Held
<1> QED BY <1>2, <1>3, <1>4, <1>5 DEF ReplayInv

\* A request goes on to a step that is not the client's and grants it no token.
LEMMA ToQuiet ==
  ASSUME SessionsInv, NEW q \in DOMAIN req, NEW s \in {"read", "granted", "refused"},
         req' = To(q, s), req[q].step \in {"sent", "read"},
         req[q].kind \in {"login", "refresh"} => s # "granted",
         UNCHANGED <<row, closed, client>>
  PROVE  Quiet
<1>1. req[q] \in Request /\ req \in Seq(Request)
  BY LenProperties DEF SessionsInv, ServerInv, ServerTypes
<1> DEFINE r == SteppedTo(q, s)
<1>2. /\ r.kind = req[q].kind /\ r.tab = req[q].tab /\ r.arg = req[q].arg
      /\ r.gone = req[q].gone /\ r.step = s
  BY <1>1 DEF SteppedTo, Request
<1>3. req' = [req EXCEPT ![q] = r]
  BY DEF To, SteppedTo
<1> HIDE DEF r
<1>4. DOMAIN req' = DOMAIN req /\ req'[q] = r /\ \A p \in DOMAIN req : p # q => req'[p] = req[p]
  BY <1>3
<1> QED BY <1>2, <1>4 DEF Quiet, Granting


\* Ending sessions revokes tokens of families that are closed from then on.
LEMMA CloseQuiet ==
  ASSUME SessionsInv, NEW q \in DOMAIN req, NEW F, NEW s \in {"granted", "refused"}, Close(F, q, s),
         req[q].step \in {"sent", "read"}, UNCHANGED client,
         req[q].kind \in {"login", "refresh"} => s # "granted"
  PROVE  Quiet
<1>1. /\ \A k \in DOMAIN row : row[k] \in Token
      /\ \A p \in DOMAIN req : req[p] \in Request
  BY LenProperties DEF SessionsInv, ServerInv, ServerTypes
<1>2. /\ DOMAIN row' = DOMAIN row /\ closed' = closed \cup F
      /\ \A k \in DOMAIN row :
           row'[k] = [row[k] EXCEPT !.revoked = @ \/ FamilyOf(k) \in F]
  BY DEF Close
<1>3. ASSUME NEW k \in DOMAIN row
      PROVE  /\ row'[k].by = row[k].by /\ row'[k].family = row[k].family
             /\ row'[k].revoked => row[k].revoked \/ row[k].family \in closed'
  <2> DEFINE v == row[k].revoked \/ FamilyOf(k) \in F
  <2>1. row'[k] = [row[k] EXCEPT !.revoked = v] /\ row[k] \in Token
    BY <1>1, <1>2
  <2> HIDE DEF v
  <2>2. row'[k].revoked = v /\ row'[k].by = row[k].by /\ row'[k].family = row[k].family
    BY <2>1 DEF Token
  <2> QED BY <1>2, <2>2 DEF v, FamilyOf
<1>4. /\ DOMAIN req' = DOMAIN req /\ req'[q] = [req[q] EXCEPT !.step = s]
      /\ \A p \in DOMAIN req : p # q =>
           \E l \in BOOLEAN : req'[p] = [req[p] EXCEPT !.late = l]
  <2> DEFINE mark(p) == req[p].late \/ (Ends(p, "refresh") /\ FamilyOf(req[p].arg) \in F)
  <2>1. \A p \in DOMAIN req : p # q => req'[p] = [req[p] EXCEPT !.late = mark(p)]
    BY DEF Close
  <2>2. \A p : mark(p) \in BOOLEAN
    OBVIOUS
  <2> HIDE DEF mark
  <2>3. DOMAIN req' = DOMAIN req /\ req'[q] = [req[q] EXCEPT !.step = s]
    BY DEF Close
  <2> QED BY <2>1, <2>2, <2>3
<1>5. ASSUME NEW p \in DOMAIN req
      PROVE  /\ req'[p].kind = req[p].kind /\ req'[p].tab = req[p].tab
             /\ req'[p].arg = req[p].arg /\ req'[p].gone = req[p].gone
             /\ req'[p].got = req[p].got
             /\ req'[p].step = IF p = q THEN s ELSE req[p].step
  <2>1. CASE p = q
    BY <1>1, <1>4, <2>1 DEF Request
  <2>2. CASE p # q
    BY <1>1, <1>4, <2>2 DEF Request
  <2> QED BY <2>1, <2>2
<1> QED BY <1>2, <1>3, <1>4, <1>5 DEF Quiet, Granting

\* A token is granted: it is nobody's before.
LEMMA GrantKeeps ==
  ASSUME SessionsInv, ReplayInv, SessionsInv', NEW q \in DOMAIN req, UNCHANGED client,
         req[q].kind \in {"login", "refresh"}, req[q].step \in {"sent", "read"},
         req' = [req EXCEPT ![q] = GrantedTo(q, Len(row) + 1)], closed' = closed,
         DOMAIN row' = 1 .. Len(row) + 1,
         row'[Len(row) + 1].revoked = FALSE /\ row'[Len(row) + 1].by = {},
         \A k \in DOMAIN row :
           \/ row'[k] = row[k]
           \/ /\ req[q].kind = "refresh" /\ k = req[q].arg
              /\ row'[k].by = row[k].by \cup {q}
  PROVE  ReplayInv'
<1> DEFINE n == Len(row) + 1
           r == GrantedTo(q, n)
<1>1. /\ Len(row) \in Nat /\ DOMAIN row = 1 .. Len(row) /\ req \in Seq(Request)
  BY LenProperties DEF SessionsInv, ServerInv, ServerTypes
<1>2. /\ r.kind = req[q].kind /\ r.arg = req[q].arg /\ r.step = "granted" /\ r.got = n
  <2>1. n \in Nat
    BY <1>1
  <2> QED BY <1>1, <2>1, Granted
<1>3. r.tab = req[q].tab /\ r.gone = req[q].gone
  <2>1. req[q] \in Request
    BY <1>1, LenProperties
  <2> DEFINE s == [req[q] EXCEPT !.step = "granted"]
  <2>2. s \in Request /\ s.tab = req[q].tab /\ s.gone = req[q].gone
    BY <2>1 DEF Request, Steps
  <2>3. r = [s EXCEPT !.got = n]
    BY DEF GrantedTo
  <2> HIDE DEF s
  <2> QED BY <2>2, <2>3 DEF Request
<1>4. DOMAIN req' = DOMAIN req /\ req'[q] = r /\ \A p \in DOMAIN req : p # q => req'[p] = req[p]
  OBVIOUS
<1> HIDE DEF r
<1>5. \A p \in DOMAIN req :
        /\ req'[p].kind = req[p].kind /\ req'[p].arg = req[p].arg
        /\ req'[p].tab = req[p].tab /\ req'[p].gone = req[p].gone
        /\ req'[p].step = IF p = q THEN "granted" ELSE req[p].step
        /\ req'[p].got = IF p = q THEN n ELSE req[p].got
  BY <1>2, <1>3, <1>4
<1>6. UNCHANGED <<storage, flight>>
  BY DEF client
<1>7. Untaken(n)
  <2>1. n \notin DOMAIN row /\ n # 0
    BY <1>1
  <2> QED BY <2>1 DEF Untaken, SessionsInv, ServerInv, RequestsOK, Presented, Held
<1>8. \A k : Untaken(k) => Untaken(k)'
  BY <1>4, <1>5, <1>6 DEF Untaken
<1>9. \A p \in DOMAIN req : Granting(p) => req[p].got # n
  <2>1. n \notin DOMAIN row
    BY <1>1
  <2> QED BY <2>1 DEF Granting, SessionsInv, ServerInv, RequestsOK, Presented
<1>10. Grants'
  BY <1>4, <1>5, <1>7, <1>8, <1>9 DEF ReplayInv, Grants, Granting
<1>11. \A k \in DOMAIN row' : k \in DOMAIN row \/ (k = n /\ row'[k].by = {})
  BY <1>1
<1>12. ASSUME NEW k \in DOMAIN row'
       PROVE  /\ row'[k].revoked => row'[k].family \in closed' \/ row'[k].by # {}
              /\ \A p \in row'[k].by :
                   /\ p \in DOMAIN req' /\ req'[p].kind = "refresh" /\ req'[p].arg = k
                   /\ req'[p].step \in {"granted", "done"}
  <2>1. CASE k = n
    BY <1>11, <2>1
  <2>2. CASE k \in DOMAIN row /\ row'[k] = row[k]
    BY <1>4, <1>5, <2>2 DEF ReplayInv, Revocations, FamilyOf
  <2>3. CASE k \in DOMAIN row /\ req[q].kind = "refresh" /\ k = req[q].arg /\ row'[k].by = row[k].by \cup {q}
    BY <1>4, <1>5, <2>3 DEF ReplayInv, Revocations
  <2> QED BY <1>11, <2>1, <2>2, <2>3
<1>13. Revocations'
  BY <1>12 DEF Revocations, FamilyOf
<1>14. Flights'
  BY <1>4, <1>5, <1>6 DEF ReplayInv, Flights, SessionsInv, Held
<1>15. Forgotten'
  <2> SUFFICES ASSUME NEW k \in DOMAIN row', NEW p \in row'[k].by,
                      req'[p].step = "done", ~req'[p].gone
               PROVE  /\ storage[BrowserOf[req'[p].tab]] # k
                      /\ flight[req'[p].tab] # 0 => req'[flight[req'[p].tab]].arg # k
    BY <1>6 DEF Forgotten
  <2>1. p \in DOMAIN req /\ req[p].kind = "refresh"
    BY <1>4, <1>5, <1>12
  <2>2. p # q /\ req[p].step = "done" /\ ~req[p].gone /\ req'[p].tab = req[p].tab
    BY <1>5, <2>1
  <2>3. k \in DOMAIN row /\ p \in row[k].by
    BY <1>11, <2>2
  <2>4. req[p].tab \in Tabs
    BY <2>1 DEF ReplayInv, Flights
  <2>5. flight[req[p].tab] # 0 => req'[flight[req[p].tab]].arg = req[flight[req[p].tab]].arg
    BY <1>5, <2>4 DEF SessionsInv, Held
  <2> QED BY <2>2, <2>3, <2>5 DEF ReplayInv, Forgotten
<1> QED BY <1>10, <1>13, <1>14, <1>15 DEF ReplayInv


\* Every step of the server keeps the explanations.
LEMMA ServerStepExplained ==
  ASSUME SessionsInv, ReplayInv, SessionsInv', NEW q \in DOMAIN req, ServerStep(q)
  PROVE  ReplayInv'
<1>0. /\ row \in Seq(Token) /\ req \in Seq(Request) /\ req[q] \in Request
      /\ Len(row) \in Nat /\ DOMAIN row = 1 .. Len(row)
      /\ \A k \in DOMAIN row : row[k] \in Token
      /\ UNCHANGED client
  BY LenProperties, ServerStepKeeps DEF SessionsInv, ServerInv, ServerTypes
<1>1. CASE Login(q) /\ req' = To(q, "refused") /\ UNCHANGED row
  <2>1. Quiet
    BY <1>0, <1>1, ToQuiet DEF Login, Takes
  <2> QED BY <2>1, QuietKeeps
<1>2. CASE Login(q) /\ row' = Append(row, NewToken(Len(row) + 1, FALSE))
  <2> DEFINE e == NewToken(Len(row) + 1, FALSE)
  <2>1. e \in Token /\ e.revoked = FALSE /\ e.by = {}
    BY <1>0 DEF NewToken, Token
  <2>2. row' = Append(row, e)
    BY <1>2
  <2> HIDE DEF e
  <2>3. /\ DOMAIN row' = 1 .. Len(row) + 1 /\ row'[Len(row) + 1] = e
        /\ \A k \in DOMAIN row : row'[k] = row[k]
    BY <1>0, <2>1, <2>2, OneMore
  <2>4. row' # row
    BY <1>0, <2>3
  <2>5. req' = [req EXCEPT ![q] = GrantedTo(q, Len(row) + 1)]
    BY <1>2, <2>4 DEF Login, GrantedTo
  <2>6. /\ req[q].kind \in {"login", "refresh"} /\ req[q].step \in {"sent", "read"}
        /\ closed' = closed
    BY <1>2 DEF Login, Takes
  <2> QED BY <1>0, <2>1, <2>3, <2>5, <2>6, GrantKeeps
<1>3. CASE Rotate(q)
  <2> DEFINE k == req[q].arg
             late == req[q].late \/ row[k].late
             e == NewToken(FamilyOf(k), late)
             old == [row EXCEPT ![k].revoked = TRUE, ![k].by = @ \cup {q}]
  <2>1. k \in DOMAIN row /\ q \in Nat
    BY <1>0, <1>3, LenProperties DEF Rotate, Ends, SessionsInv, ServerInv, RequestsOK, Presented
  <2>2. late \in BOOLEAN
    BY DEF late
  <2>3. e \in Token /\ e.revoked = FALSE /\ e.by = {}
    <3>1. FamilyOf(k) \in Nat
      BY <1>0, <2>1 DEF FamilyOf, Token
    <3> HIDE DEF late
    <3> QED BY <2>2, <3>1 DEF NewToken, Token
  <2>4. /\ old \in Seq(Token) /\ Len(old) = Len(row) /\ DOMAIN old = DOMAIN row
        /\ \A i \in DOMAIN row : i # k => old[i] = row[i]
        /\ old[k].by = row[k].by \cup {q}
    <3> DEFINE s == [row[k] EXCEPT !.revoked = TRUE]
               u == [s EXCEPT !.by = s.by \cup {q}]
    <3>1. s \in Token /\ s.by = row[k].by
      BY <1>0, <2>1 DEF Token
    <3> HIDE DEF s
    <3>2. u \in Token /\ u.by = row[k].by \cup {q}
      BY <2>1, <3>1 DEF Token
    <3>3. old = [row EXCEPT ![k] = u]
      BY <3>1 DEF s
    <3> HIDE DEF u
    <3>4. \A i \in DOMAIN row : old[i] = IF i = k THEN u ELSE row[i]
      BY <3>3
    <3>5. old = [i \in DOMAIN row |-> old[i]] /\ \A i \in DOMAIN row : old[i] \in Token
      BY <1>0, <3>2, <3>4
    <3> HIDE DEF old
    <3>6. old \in Seq(Token) /\ Len(old) = Len(row) /\ DOMAIN old = DOMAIN row
      BY <1>0, <3>5, InPlace
    <3> QED BY <2>1, <3>2, <3>4, <3>6
  <2>5. row' = Append(old, e)
    BY <1>3 DEF Rotate
  <2> HIDE DEF e, old
  <2>6. /\ DOMAIN row' = 1 .. Len(row) + 1 /\ row'[Len(row) + 1] = e
        /\ \A i \in DOMAIN row : row'[i] = old[i]
    BY <1>0, <2>3, <2>4, <2>5, OneMore
  <2>7. req' = [req EXCEPT ![q] = GrantedTo(q, Len(row) + 1)]
    BY <1>3 DEF Rotate, GrantedTo
  <2>8. /\ req[q].kind = "refresh" /\ req[q].step = "read" /\ closed' = closed
    BY <1>3 DEF Rotate, Ends
  <2>9. \A i \in DOMAIN row :
          \/ row'[i] = row[i]
          \/ req[q].kind = "refresh" /\ i = req[q].arg /\ row'[i].by = row[i].by \cup {q}
    BY <2>4, <2>6, <2>8
  <2> QED BY <1>0, <2>3, <2>6, <2>7, <2>8, <2>9, GrantKeeps
<1>4. CASE Replay(q) \/ Logout(q) \/ LogoutAll(q) \/ ResetPassword(q)
  <2>1. Quiet
    BY <1>0, <1>4, CloseQuiet DEF Replay, Logout, LogoutAll, ResetPassword, Takes, Ends
  <2> QED BY <2>1, QuietKeeps
<1>5. CASE ReadToken(q) \/ RefuseExpired(q) \/ HandlerFails(q) \/ NoLinkNeeded(q)
           \/ IssueLink(q) \/ ReadLink(q) \/ VerifyEmail(q)
  <2>1. /\ UNCHANGED <<row, closed>> /\ req[q].step \in {"sent", "read"}
        /\ \E s \in {"read", "granted", "refused"} :
             /\ req' = To(q, s)
             /\ req[q].kind \in {"login", "refresh"} => s # "granted"
    BY <1>5 DEF ReadToken, RefuseExpired, HandlerFails, NoLinkNeeded, IssueLink, ReadLink,
       VerifyEmail, Takes, Ends, server
  <2>2. Quiet
    BY <1>0, <2>1, ToQuiet
  <2> QED BY <2>2, QuietKeeps
<1>6. CASE Retire(q)
  <2> DEFINE s == [req[q] EXCEPT !.step = "read"]
             r == [s EXCEPT !.got = Len(link)]
  <2>1. /\ s \in Request /\ s.kind = req[q].kind /\ s.arg = req[q].arg /\ s.step = "read"
        /\ s.tab = req[q].tab /\ s.gone = req[q].gone
    BY <1>0 DEF Request, Steps
  <2>2. /\ req' = [req EXCEPT ![q] = r] /\ req[q].kind \in {"forgot", "resend"}
        /\ req[q].step = "sent" /\ UNCHANGED <<row, closed>>
    BY <1>6 DEF Retire, Takes, server
  <2> HIDE DEF s
  <2>3. /\ r.kind = req[q].kind /\ r.arg = req[q].arg /\ r.step = "read"
        /\ r.tab = req[q].tab /\ r.gone = req[q].gone
    BY <2>1 DEF Request
  <2> HIDE DEF r
  <2>4. DOMAIN req' = DOMAIN req /\ req'[q] = r /\ \A p \in DOMAIN req : p # q => req'[p] = req[p]
    BY <2>2
  <2>5. Quiet
    BY <1>0, <2>2, <2>3, <2>4 DEF Quiet, Granting
  <2> QED BY <2>5, QuietKeeps
<1> QED BY <1>1, <1>2, <1>3, <1>4, <1>5, <1>6 DEF ServerStep, Login

\* The tabs hear, store what was granted, forget, or stop waiting.
Heeded ==
  /\ UNCHANGED <<row, closed>> /\ DOMAIN req' = DOMAIN req
  /\ \A p \in DOMAIN req :
       /\ req'[p].kind = req[p].kind /\ req'[p].tab = req[p].tab
       /\ req'[p].arg = req[p].arg /\ req'[p].got = req[p].got
       /\ req'[p].step \in {req[p].step, "done"}
       /\ req[p].gone => req'[p].gone
  /\ \A b \in Browsers :
       \/ storage'[b] \in {storage[b], 0}
       \/ \E p \in DOMAIN req : Granting(p) /\ ~Granting(p)' /\ storage'[b] = req[p].got
  /\ \A t \in Tabs :
       \/ flight'[t] = flight[t]
       \/ /\ flight[t] # 0 /\ flight'[t] = 0
          /\ req'[flight[t]].step = "done" \/ req'[flight[t]].gone
  /\ \A p \in DOMAIN req :
       req[p].kind = "refresh" /\ req[p].step = "granted" /\ req'[p].step = "done" =>
         storage'[BrowserOf[req[p].tab]] = req[p].got /\ flight'[req[p].tab] = 0
\* Hearing keeps the explanations.
LEMMA HeededKeeps ==
  ASSUME SessionsInv, ReplayInv, Heeded
  PROVE  ReplayInv'
<1>1. \A p \in DOMAIN req : Granting(p)' => Granting(p)
  BY DEF Heeded, Granting
<1>2. \A p \in DOMAIN req : Granting(p) => req[p].got # 0 /\ Untaken(req[p].got)
  BY LenProperties DEF SessionsInv, ServerInv, ServerTypes, RequestsOK, Presented, Granting, ReplayInv, Grants
<1>3. ASSUME NEW p \in DOMAIN req, Granting(p)' PROVE Untaken(req[p].got)'
  <2>1. Untaken(req[p].got) /\ req[p].got # 0 /\ req'[p].got = req[p].got
    BY <1>1, <1>2, <1>3 DEF Heeded
  <2>2. \A b \in Browsers : storage'[b] # req[p].got
    BY <1>1, <1>3, <2>1 DEF Heeded, Untaken, ReplayInv, Grants
  <2> QED BY <2>1, <2>2 DEF Heeded, Untaken
<1>4. Grants'
  BY <1>1, <1>3 DEF Heeded, ReplayInv, Grants
<1>5. Revocations'
  BY DEF Heeded, ReplayInv, Revocations, FamilyOf
<1>6. Flights'
  BY DEF Heeded, ReplayInv, Flights, SessionsInv, Held
<1>7. Forgotten'
  <2> SUFFICES ASSUME NEW k \in DOMAIN row, NEW p \in row[k].by, req'[p].step = "done", ~req'[p].gone
               PROVE  /\ storage'[BrowserOf[req'[p].tab]] # k
                      /\ flight'[req'[p].tab] # 0 => req'[flight'[req'[p].tab]].arg # k
    BY DEF Heeded, Forgotten
  <2>1. /\ p \in DOMAIN req /\ req[p].kind = "refresh" /\ req[p].arg = k
        /\ req[p].step \in {"granted", "done"} /\ k # 0
    BY LenProperties DEF ReplayInv, Revocations, SessionsInv, ServerInv, ServerTypes
  <2>2. /\ ~req[p].gone /\ req'[p].tab = req[p].tab /\ req[p].tab \in Tabs
        /\ BrowserOf[req[p].tab] \in Browsers
    BY <2>1, SessionsAssumption DEF Heeded, ReplayInv, Flights
  <2>3. \A q \in DOMAIN req : Granting(q) => req[q].got # k
    BY <1>2, <2>1 DEF Untaken
  <2>4. CASE req[p].step = "granted"
    BY <2>1, <2>2, <2>3, <2>4 DEF Heeded, Granting
  <2>5. CASE req[p].step = "done"
    <3>1. storage[BrowserOf[req[p].tab]] # k /\ (flight[req[p].tab] # 0 => req[flight[req[p].tab]].arg # k)
      BY <2>1, <2>2, <2>5 DEF ReplayInv, Forgotten
    <3>2. storage'[BrowserOf[req[p].tab]] # k
      BY <2>1, <2>2, <2>3, <3>1 DEF Heeded
    <3>3. flight'[req[p].tab] # 0 => flight'[req[p].tab] = flight[req[p].tab] /\ flight[req[p].tab] \in DOMAIN req
      BY <2>2 DEF Heeded, SessionsInv, Held
    <3> QED BY <2>2, <3>1, <3>2, <3>3 DEF Heeded
  <2> QED BY <2>1, <2>4, <2>5
<1> QED BY <1>4, <1>5, <1>6, <1>7 DEF ReplayInv


\* What a tab hears of one request.
LEMMA HearingOne ==
  ASSUME SessionsInv, NEW q \in DOMAIN req,
         NoAnswer(q) \/ Answered(q, "granted")
  PROVE  /\ DOMAIN req' = DOMAIN req /\ \A p \in DOMAIN req : p # q => req'[p] = req[p]
         /\ req'[q].kind = req[q].kind /\ req'[q].tab = req[q].tab
         /\ req'[q].arg = req[q].arg /\ req'[q].got = req[q].got
         /\ req'[q].step \in {req[q].step, "done"}
         /\ req[q].gone => req'[q].gone
         /\ req'[q].step = "done" \/ req'[q].gone
         /\ req[q].step = "granted" /\ req'[q].step = "done" => Answered(q, "granted")
<1>1. req[q] \in Request
  BY LenProperties DEF SessionsInv, ServerInv, ServerTypes
<1>2. ASSUME NEW s, Answered(q, s)
      PROVE  /\ req'[q].kind = req[q].kind /\ req'[q].tab = req[q].tab
             /\ req'[q].arg = req[q].arg /\ req'[q].got = req[q].got
             /\ req'[q].step = "done" /\ req'[q].gone = req[q].gone
             /\ req[q].step = s
             /\ DOMAIN req' = DOMAIN req /\ \A p \in DOMAIN req : p # q => req'[p] = req[p]
  <2> DEFINE r == [req[q] EXCEPT !.step = "done"]
  <2>1. /\ r.kind = req[q].kind /\ r.tab = req[q].tab /\ r.arg = req[q].arg /\ r.got = req[q].got
        /\ r.step = "done" /\ r.gone = req[q].gone
    BY <1>1 DEF Request
  <2>2. req' = [req EXCEPT ![q] = r] /\ req[q].step = s
    BY <1>2 DEF Answered
  <2> HIDE DEF r
  <2> QED BY <2>1, <2>2
<1>3. CASE Answered(q, "granted")
  BY <1>2, <1>3
<1>4. CASE Answered(q, "refused")
  BY <1>2, <1>4
<1>5. CASE req' = [req EXCEPT ![q].gone = TRUE]
  <2> DEFINE r == [req[q] EXCEPT !.gone = TRUE]
  <2>1. /\ r.kind = req[q].kind /\ r.tab = req[q].tab /\ r.arg = req[q].arg /\ r.got = req[q].got
        /\ r.step = req[q].step /\ r.gone = TRUE
    BY <1>1 DEF Request
  <2>2. req' = [req EXCEPT ![q] = r]
    BY <1>5
  <2> HIDE DEF r
  <2> QED BY <2>1, <2>2
<1> QED BY <1>3, <1>4, <1>5 DEF NoAnswer

\* A request that is not a refresh is sent.
LEMMA SendExplained ==
  ASSUME SessionsInv, ReplayInv, NEW kind \in Kinds, kind # "refresh",
         NEW t, NEW arg, Send(kind, t, arg), UNCHANGED <<row, closed, storage, flight>>
  PROVE  ReplayInv'
<1> DEFINE r == [kind |-> kind, tab |-> t, arg |-> arg, step |-> "sent",
                 got |-> 0, late |-> FALSE, gone |-> FALSE]
<1>1. r.kind = kind /\ r.step = "sent"
  OBVIOUS
<1>2. req' = Append(req, r)
  BY DEF Send
<1> HIDE DEF r
<1>3. /\ req \in Seq(Request) /\ Len(req) \in Nat /\ DOMAIN req = 1 .. Len(req)
  BY LenProperties DEF SessionsInv, ServerInv, ServerTypes
<1>4. /\ DOMAIN req' = 1 .. Len(req) + 1 /\ req'[Len(req) + 1] = r
      /\ \A p \in DOMAIN req : req'[p] = req[p]
  BY <1>2, <1>3
<1>5. \A p \in DOMAIN req' : Granting(p)' => p \in DOMAIN req /\ Granting(p)
  BY <1>1, <1>3, <1>4 DEF Granting
<1>6. \A k : Untaken(k) => Untaken(k)'
  BY <1>1, <1>3, <1>4 DEF Untaken
<1>7. Grants'
  BY <1>4, <1>5, <1>6 DEF ReplayInv, Grants
<1>8. Revocations'
  BY <1>3, <1>4 DEF ReplayInv, Revocations, FamilyOf
<1>9. Flights'
  BY <1>1, <1>3, <1>4 DEF ReplayInv, Flights, SessionsInv, Held
<1>10. Forgotten'
  BY <1>3, <1>4 DEF ReplayInv, Revocations, Flights, Forgotten, SessionsInv, Held
<1> QED BY <1>7, <1>8, <1>9, <1>10 DEF ReplayInv

\* A tab refreshes with what its browser stores, once at a time.
LEMMA RefreshExplained ==
  ASSUME SessionsInv, ReplayInv, NEW t \in Tabs, Refresh(t)
  PROVE  ReplayInv'
<1> DEFINE k == storage[BrowserOf[t]]
           n == Len(req) + 1
           r == [kind |-> "refresh", tab |-> t, arg |-> k, step |-> "sent",
                 got |-> 0, late |-> FALSE, gone |-> FALSE]
<1>1. r.kind = "refresh" /\ r.step = "sent" /\ r.tab = t /\ r.arg = k /\ r.gone = FALSE
  OBVIOUS
<1>2. /\ req' = Append(req, r) /\ flight[t] = 0 /\ flight' = [flight EXCEPT ![t] = n]
      /\ UNCHANGED <<row, closed, storage>>
  BY DEF Refresh, MayRefresh, Send, server
<1> HIDE DEF r
<1>3. /\ req \in Seq(Request) /\ Len(req) \in Nat /\ DOMAIN req = 1 .. Len(req)
      /\ BrowserOf[t] \in Browsers /\ flight \in [Tabs -> Nat]
  BY LenProperties, SessionsAssumption DEF SessionsInv, ServerInv, ServerTypes, ClientTypes
<1>4. /\ DOMAIN req' = 1 .. n /\ req'[n] = r
      /\ \A p \in DOMAIN req : req'[p] = req[p]
  BY <1>2, <1>3
<1>5. \A p \in DOMAIN req' : Granting(p)' => p \in DOMAIN req /\ Granting(p)
  BY <1>1, <1>3, <1>4 DEF Granting
<1>6. \A i : Untaken(i) => Untaken(i)'
  BY <1>1, <1>2, <1>3, <1>4 DEF Untaken
<1>7. Grants'
  BY <1>4, <1>5, <1>6 DEF ReplayInv, Grants
<1>8. Revocations'
  BY <1>2, <1>3, <1>4 DEF ReplayInv, Revocations, FamilyOf
<1>9. \A u \in Tabs : flight'[u] = IF u = t THEN n ELSE flight[u]
  BY <1>2, <1>3
<1>10. Flights'
  <2>1. \A u \in Tabs : flight'[u] # 0 => req'[flight'[u]].tab = u
    BY <1>1, <1>4, <1>9 DEF ReplayInv, Flights, SessionsInv, Held
  <2>2. ASSUME NEW p \in DOMAIN req', req'[p].kind = "refresh"
        PROVE  /\ req'[p].tab \in Tabs
               /\ ~req'[p].gone /\ req'[p].step # "done" => flight'[req'[p].tab] = p
    <3>1. CASE p = n
      BY <1>1, <1>4, <1>9, <3>1
    <3>2. CASE p \in DOMAIN req
      <4>1. p # 0
        BY <1>3, <3>2
      <4> QED BY <1>2, <1>4, <1>9, <2>2, <3>2, <4>1 DEF ReplayInv, Flights
    <3> QED BY <1>3, <1>4, <3>1, <3>2
  <2> QED BY <2>1, <2>2 DEF Flights
<1>11. Forgotten'
  <2> SUFFICES ASSUME NEW i \in DOMAIN row, NEW p \in row[i].by, req'[p].step = "done", ~req'[p].gone
               PROVE  /\ storage[BrowserOf[req'[p].tab]] # i
                      /\ flight'[req'[p].tab] # 0 => req'[flight'[req'[p].tab]].arg # i
    BY <1>2 DEF Forgotten
  <2>1. p \in DOMAIN req /\ req[p].kind = "refresh" /\ req'[p] = req[p] /\ req[p].tab \in Tabs
    BY <1>4 DEF ReplayInv, Revocations, Flights
  <2>2. storage[BrowserOf[req[p].tab]] # i /\ (flight[req[p].tab] # 0 => req[flight[req[p].tab]].arg # i)
    BY <2>1 DEF ReplayInv, Forgotten
  <2>3. CASE req[p].tab = t
    BY <1>1, <1>4, <1>9, <2>1, <2>2, <2>3
  <2>4. CASE req[p].tab # t
    BY <1>4, <1>9, <2>1, <2>2, <2>4 DEF SessionsInv, Held
  <2> QED BY <2>3, <2>4
<1> QED BY <1>7, <1>8, <1>10, <1>11 DEF ReplayInv

\* Every other step of a tab is heeded or sends something else.
LEMMA ClientStepExplained ==
  ASSUME SessionsInv, ReplayInv, NEW t \in Tabs,
         Refresh(t) \/ CheckFails(t) \/ SignIn(t) \/ SignOut(t) \/ Settle(t) \/ Reload(t)
  PROVE  ReplayInv'
<1>0. /\ BrowserOf[t] \in Browsers
      /\ storage \in [Browsers -> Nat] /\ flight \in [Tabs -> Nat] /\ busy \in [Tabs -> Nat]
      /\ flight[t] # 0 => flight[t] \in DOMAIN req /\ req[flight[t]].kind = "refresh"
                          /\ req[flight[t]].tab = t
      /\ busy[t] # 0 => busy[t] \in DOMAIN req /\ req[busy[t]].kind \in {"login", "logout"}
  BY SessionsAssumption DEF SessionsInv, ClientTypes, Held, ReplayInv, Flights
<1>1. CASE Refresh(t)
  BY <1>1, RefreshExplained
<1>2. CASE SignIn(t)
  BY <1>2, SendExplained DEF SignIn, server, Kinds
<1>3. CASE SignOut(t) /\ storage[BrowserOf[t]] # 0
  BY <1>3, SendExplained DEF SignOut, server, Kinds
<1>4. CASE CheckFails(t) \/ (SignOut(t) /\ storage[BrowserOf[t]] = 0)
  <2>1. /\ storage' = [storage EXCEPT ![BrowserOf[t]] = 0]
        /\ UNCHANGED <<row, closed, req, flight>>
    BY <1>4 DEF CheckFails, SignOut, Clear, Store, server
  <2>2. Heeded
    BY <1>0, <2>1 DEF Heeded
  <2> QED BY <2>2, HeededKeeps
<1>5. CASE RefreshAnswered(t) \/ RefreshFails(t)
  <2>0. PICK q \in Nat : q = flight[t]
    BY <1>0
  <2>1. /\ q # 0 /\ UNCHANGED <<row, closed>> /\ flight' = [flight EXCEPT ![t] = 0]
        /\ \/ /\ Answered(q, "granted") /\ storage' = [storage EXCEPT ![BrowserOf[t]] = req[q].got]
           \/ /\ NoAnswer(q) /\ storage' = [storage EXCEPT ![BrowserOf[t]] = 0]
    BY <1>5, <2>0 DEF RefreshAnswered, RefreshFails, Clear, Store, server
  <2>2. q \in DOMAIN req /\ req[q].kind = "refresh" /\ req[q].tab = t
    BY <1>0, <2>0, <2>1
  <2>3. /\ DOMAIN req' = DOMAIN req /\ \A p \in DOMAIN req : p # q => req'[p] = req[p]
        /\ req'[q].kind = req[q].kind /\ req'[q].tab = req[q].tab
        /\ req'[q].arg = req[q].arg /\ req'[q].got = req[q].got
        /\ req'[q].step \in {req[q].step, "done"}
        /\ req[q].gone => req'[q].gone
        /\ req'[q].step = "done" \/ req'[q].gone
        /\ req[q].step = "granted" /\ req'[q].step = "done" => Answered(q, "granted")
    BY <2>1, <2>2, HearingOne
  <2>4. Answered(q, "granted") => req[q].step = "granted" /\ req'[q].step = "done"
    <3>1. Answered(q, "granted") => req[q].step = "granted" /\ req'[q] = [req[q] EXCEPT !.step = "done"]
      BY <2>2 DEF Answered
    <3>2. req[q] \in Request
      BY <2>2, LenProperties DEF SessionsInv, ServerInv, ServerTypes
    <3> QED BY <3>1, <3>2 DEF Request
  <2>5. Answered(q, "granted") /\ NoAnswer(q) => ~(req'[q].step = "done")
    <3>1. NoAnswer(q) => Answered(q, "refused") \/ req' = [req EXCEPT ![q].gone = TRUE]
      BY DEF NoAnswer
    <3>2. req[q] \in Request
      BY <2>2, LenProperties DEF SessionsInv, ServerInv, ServerTypes
    <3>3. req' = [req EXCEPT ![q].gone = TRUE] => req'[q].step = req[q].step
      BY <2>2, <3>2 DEF Request
    <3> QED BY <3>1, <3>3 DEF Answered
  <2>6. Heeded
    <3>1. \A u \in Tabs : flight'[u] = IF u = t THEN 0 ELSE flight[u]
      BY <1>0, <2>1
    <3>2. \A b \in Browsers : storage'[b] = storage[b] \/ storage'[b] = 0
             \/ (Granting(q) /\ ~Granting(q)' /\ storage'[b] = req[q].got)
      BY <1>0, <2>1, <2>2, <2>3, <2>4 DEF Granting
    <3>3. \A p \in DOMAIN req :
            req[p].kind = "refresh" /\ req[p].step = "granted" /\ req'[p].step = "done" =>
              storage'[BrowserOf[req[p].tab]] = req[p].got /\ flight'[req[p].tab] = 0
      BY <1>0, <2>1, <2>2, <2>3, <2>5, <3>1
    <3> QED BY <2>0, <2>1, <2>2, <2>3, <3>1, <3>2, <3>3 DEF Heeded
  <2> QED BY <2>6, HeededKeeps
<1>6. CASE SignInAnswered(t) \/ SignInFails(t) \/ SignOutEnds(t)
  <2>0. PICK q \in Nat : q = busy[t]
    BY <1>0
  <2>1. /\ q # 0 /\ UNCHANGED <<row, closed, flight>>
        /\ \/ /\ Answered(q, "granted") /\ req[q].kind = "login"
              /\ storage' = [storage EXCEPT ![BrowserOf[t]] = req[q].got]
           \/ /\ NoAnswer(q) \/ Answered(q, "granted")
              /\ storage' = storage \/ storage' = [storage EXCEPT ![BrowserOf[t]] = 0]
    BY <1>6, <2>0 DEF SignInAnswered, SignInFails, SignOutEnds, Waits, Clear, Store, server
  <2>2. q \in DOMAIN req /\ req[q].kind # "refresh"
    BY <1>0, <2>0, <2>1
  <2>3. /\ DOMAIN req' = DOMAIN req /\ \A p \in DOMAIN req : p # q => req'[p] = req[p]
        /\ req'[q].kind = req[q].kind /\ req'[q].tab = req[q].tab
        /\ req'[q].arg = req[q].arg /\ req'[q].got = req[q].got
        /\ req'[q].step \in {req[q].step, "done"}
        /\ req[q].gone => req'[q].gone
    BY <2>1, <2>2, HearingOne
  <2>4. Answered(q, "granted") => req[q].step = "granted" /\ req'[q].step = "done"
    <3>1. Answered(q, "granted") => req[q].step = "granted" /\ req'[q] = [req[q] EXCEPT !.step = "done"]
      BY <2>2 DEF Answered
    <3>2. req[q] \in Request
      BY <2>2, LenProperties DEF SessionsInv, ServerInv, ServerTypes
    <3> QED BY <3>1, <3>2 DEF Request
  <2>5. \A b \in Browsers : storage'[b] = storage[b] \/ storage'[b] = 0
           \/ (Granting(q) /\ ~Granting(q)' /\ storage'[b] = req[q].got)
    BY <1>0, <2>1, <2>2, <2>3, <2>4 DEF Granting
  <2>6. Heeded
    BY <2>1, <2>2, <2>3, <2>5 DEF Heeded
  <2> QED BY <2>6, HeededKeeps
<1>7. CASE Reload(t)
  <2>1. /\ req' = [q \in DOMAIN req |->
                    [req[q] EXCEPT !.gone = @ \/ q \in {flight[t], busy[t]}]]
        /\ flight' = [flight EXCEPT ![t] = 0]
        /\ UNCHANGED <<row, closed, storage>>
    BY <1>7 DEF Reload, server
  <2>2. ASSUME NEW q \in DOMAIN req
        PROVE  /\ req'[q].kind = req[q].kind /\ req'[q].tab = req[q].tab
               /\ req'[q].arg = req[q].arg /\ req'[q].got = req[q].got
               /\ req'[q].step = req[q].step
               /\ req'[q].gone <=> req[q].gone \/ q \in {flight[t], busy[t]}
    <3> DEFINE g == req[q].gone \/ q \in {flight[t], busy[t]}
    <3>1. req'[q] = [req[q] EXCEPT !.gone = g]
      BY <2>1
    <3> HIDE DEF g
    <3>2. req[q] \in Request
      BY LenProperties DEF SessionsInv, ServerInv, ServerTypes
    <3>3. /\ req'[q].kind = req[q].kind /\ req'[q].tab = req[q].tab
          /\ req'[q].arg = req[q].arg /\ req'[q].got = req[q].got
          /\ req'[q].step = req[q].step /\ req'[q].gone = g
      BY <3>1, <3>2 DEF Request
    <3> QED BY <3>3 DEF g
  <2>3. DOMAIN req' = DOMAIN req /\ \A u \in Tabs : flight'[u] = IF u = t THEN 0 ELSE flight[u]
    BY <1>0, <2>1
  <2>4. Heeded
    BY <1>0, <2>1, <2>2, <2>3 DEF Heeded
  <2> QED BY <2>4, HeededKeeps
<1> QED BY <1>1, <1>2, <1>3, <1>4, <1>5, <1>6, <1>7 DEF Settle

\* A tab that hears its answers is never taken for a replay of itself
\* (api/auth.ts:4-7, routes/auth.py:105-123).
THEOREM ReplayExplainedHolds == Spec => []ReplayExplained
<1>1. Init /\ SessionsInv => ReplayInv
  <2> SUFFICES ASSUME Init, SessionsInv PROVE ReplayInv
    OBVIOUS
  <2>1. DOMAIN req = {} /\ \A t \in Tabs : flight[t] = 0
    BY DEF Init
  <2>2. \A k \in DOMAIN row : row[k].revoked = FALSE /\ row[k].by = {}
    BY DEF Init, NewToken
  <2> QED BY <2>1, <2>2 DEF ReplayInv, Revocations, Grants, Flights, Forgotten
<1>2. ASSUME SessionsInv, SessionsInv', ReplayInv, [Next]_vars PROVE ReplayInv'
  <2>1. CASE \E q \in DOMAIN req : ServerStep(q)
    BY <1>2, <2>1, ServerStepExplained
  <2>2. CASE \E t \in Tabs : \/ Refresh(t) \/ CheckFails(t) \/ SignIn(t) \/ SignOut(t)
                             \/ Settle(t) \/ Reload(t)
    BY <1>2, <2>2, ClientStepExplained
  <2>3. CASE Ask
    <3>1. UNCHANGED <<row, closed, storage, flight>>
      BY <2>3 DEF Ask, server, client
    <3>2. CASE \E kind \in {"logoutAll", "forgot", "resend"} : Send(kind, Nobody, 0)
      BY <1>2, <3>1, <3>2, SendExplained DEF Kinds
    <3>3. CASE \E i \in DOMAIN link : Send(link[i].purpose, Nobody, i)
      <4>1. PICK i \in DOMAIN link : Send(link[i].purpose, Nobody, i)
        BY <3>3
      <4>2. link[i] \in Link
        BY <1>2, LenProperties DEF SessionsInv, ServerInv, ServerTypes
      <4>3. link[i].purpose \in Kinds /\ link[i].purpose # "refresh"
        BY <4>2 DEF Link, Kinds
      <4> QED BY <1>2, <3>1, <4>1, <4>3, SendExplained
    <3> QED BY <2>3, <3>2, <3>3 DEF Ask
  <2>4. CASE UNCHANGED vars
    BY <1>2, <2>4 DEF vars, server, client, ReplayInv, Revocations, Grants, Flights, Forgotten,
       Granting, Untaken, FamilyOf
  <2> QED BY <1>2, <2>1, <2>2, <2>3, <2>4 DEF Next
<1>3. Spec => []ReplayInv
  BY <1>1, <1>2, InitInv, AlwaysInv, PTL DEF Spec
<1> QED BY <1>3, AlwaysInv, ReplaySafe, PTL
=============================================================================
