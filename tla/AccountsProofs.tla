--------------------------- MODULE AccountsProofs ---------------------------
(***************************************************************************)
(* Who is who, for any number of people, tokens, requests and attempts:     *)
(* sessions, the admin's second factor, the contact e-mail, accounts and    *)
(* members, and the record of a client.                                     *)
(***************************************************************************)
EXTENDS Sessions, Members, SecondFactor, ContactEmail, Clients, FiniteSetTheorems, TLAPS

-----------------------------------------------------------------------------
(* Sessions *)

\* A table of sessions as every transaction finds and leaves it: a row is of its own table's kind, of
\* the password its person has and of a member, and one bound to a business session is of that
\* session's person.
RowsOK(r, s, m) ==
  /\ r \in [Tokens -> RowType]
  /\ \A t \in Tokens :
       /\ t \in BusinessTokens => r[t].kind \in {"none", "business"}
       /\ t \in AccountTokens => r[t].kind \in {"none", "account"}
       /\ t \in AdminTokens => r[t].kind \in {"none", "admin", "admin uncommitted"}
       /\ r[t].kind # "none" => r[t].person \in People
       /\ r[t].kind \in {"business", "account"} => r[t].version = s[r[t].person]
       /\ r[t].kind = "business" => r[t].person \in m
       /\ r[t].by # Nil =>
            /\ r[t].kind = "account" /\ r[t].by \in BusinessTokens
            /\ r[r[t].by].kind = "business" /\ r[r[t].by].person = r[t].person

\* The sessions behind two tokens, where both are live, are one person's.
OnePerson(r, b, a) ==
  b \in Tokens /\ a \in Tokens /\ r[b].kind # "none" /\ r[a].kind # "none" => r[b].person = r[a].person

\* The inductive invariant.  What the last two conjuncts add: an answer on its way is as good as the
\* cookies, so that it may arrive at any time.
SessionsIInv ==
  /\ SessionsTypeOK
  /\ RowsOK(rows, stored, members)
  /\ cookies.business \in BusinessTokens \cup {Nil} /\ cookies.account \in AccountTokens \cup {Nil}
  /\ request.business \in BusinessTokens \cup {Nil} /\ request.account \in AccountTokens \cup {Nil}
  /\ request.pc = "verified" => request.person \in People
  /\ OnePerson(rows, cookies.business, cookies.account)
  /\ request.pc = "answered" => OnePerson(rows, request.business, request.account)

\* Ending sessions leaves a table of sessions, in which each row is what it was or gone; and one that
\* was bound to a row that ended is gone with it.
LEMMA WithoutRows ==
  ASSUME RowsOK(rows, stored, members), NEW gone \in SUBSET Tokens
  PROVE  /\ RowsOK(Without(gone), stored, members)
         /\ \A t \in Tokens : Without(gone)[t] = rows[t] \/ Without(gone)[t] = NoRow
         /\ \A t \in gone : Without(gone)[t] = NoRow
         /\ \A t \in Tokens : rows[t].by \in gone => Without(gone)[t] = NoRow
<1> DEFINE w == Without(gone)
<1>1. NoRow \in RowType
  BY SessionsAssumption DEF NoRow, RowType
<1>2. \A t \in Tokens : w[t] = IF t \in gone \/ (rows[t].by \in gone /\ rows[rows[t].by].kind = "business")
                               THEN NoRow ELSE rows[t]
  BY DEF Without
<1>3. w \in [Tokens -> RowType]
  BY <1>1 DEF Without, RowsOK
<1>4. \A t \in Tokens : rows[t].by \in gone => w[t] = NoRow
  <2> SUFFICES ASSUME NEW t \in Tokens, rows[t].by \in gone PROVE w[t] = NoRow
    OBVIOUS
  <2>1. rows[t].by # Nil
    BY SessionsAssumption
  <2> QED
    BY <1>2, <2>1 DEF RowsOK
<1>5. \A t \in Tokens : w[t] = rows[t] \/ w[t] = NoRow
  BY <1>2
<1>6. \A t \in gone : w[t] = NoRow
  BY <1>2
<1>7. ASSUME NEW t \in Tokens, w[t] # NoRow, w[t].by # Nil
      PROVE  w[w[t].by] = rows[rows[t].by] /\ w[t] = rows[t]
  <2>1. w[t] = rows[t] /\ rows[t].by \notin gone /\ rows[t].by \in BusinessTokens
    BY <1>4, <1>5, <1>7 DEF RowsOK
  <2>2. rows[t].by \in Tokens /\ rows[rows[t].by].kind = "business"
    BY <1>7, <2>1 DEF RowsOK, Tokens
  <2>3. rows[rows[t].by].by = Nil
    BY <2>2 DEF RowsOK
  <2> QED
    BY <1>2, <2>1, <2>2, <2>3, SessionsAssumption
<1>8. RowsOK(w, stored, members)
  <2> SUFFICES ASSUME NEW t \in Tokens
               PROVE /\ t \in BusinessTokens => w[t].kind \in {"none", "business"}
                     /\ t \in AccountTokens => w[t].kind \in {"none", "account"}
                     /\ t \in AdminTokens => w[t].kind \in {"none", "admin", "admin uncommitted"}
                     /\ w[t].kind # "none" => w[t].person \in People
                     /\ w[t].kind \in {"business", "account"} => w[t].version = stored[w[t].person]
                     /\ w[t].kind = "business" => w[t].person \in members
                     /\ w[t].by # Nil =>
                          /\ w[t].kind = "account" /\ w[t].by \in BusinessTokens
                          /\ w[w[t].by].kind = "business" /\ w[w[t].by].person = w[t].person
    BY <1>3 DEF RowsOK
  <2>1. CASE w[t] = NoRow
    BY <2>1 DEF NoRow
  <2>2. CASE w[t] # NoRow
    BY <2>2, <1>5, <1>7 DEF RowsOK
  <2> QED
    BY <2>1, <2>2
<1> QED
  BY <1>4, <1>5, <1>6, <1>8

\* ... so two tokens that were one person's stay so.
LEMMA WithoutOnePerson ==
  ASSUME RowsOK(rows, stored, members), NEW gone \in SUBSET Tokens, NEW b, NEW a,
         OnePerson(rows, b, a)
  PROVE  OnePerson(Without(gone), b, a)
<1>1. \A t \in Tokens : Without(gone)[t] = rows[t] \/ Without(gone)[t] = NoRow
  BY WithoutRows
<1> QED
  BY <1>1 DEF OnePerson, NoRow

\* The tokens of the three kinds of session are apart.
LEMMA SessionsTokens ==
  /\ Nil \notin Tokens /\ BusinessTokens \subseteq Tokens /\ AccountTokens \subseteq Tokens
  /\ AdminTokens \subseteq Tokens
  /\ \A t : t \in BusinessTokens => t \notin AccountTokens /\ t \notin AdminTokens
  /\ \A t : t \in AccountTokens => t \notin AdminTokens
BY SessionsAssumption DEF Tokens

\* The requests that carry no person are well formed.
LEMMA NoRequestType ==
  /\ NoRequest \in RequestType
  /\ [NoRequest EXCEPT !.pc = "account ended"] \in RequestType
  /\ [NoRequest EXCEPT !.pc = "leaving"] \in RequestType
<1>1. 0 \in 0 .. MaxPassword
  BY SessionsAssumption
<1> QED
  BY <1>1 DEF NoRequest, RequestType

\* The invariant holds at the start.
LEMMA SessionsInitOK == SessionsInit => SessionsIInv
<1> SUFFICES ASSUME SessionsInit PROVE SessionsIInv
  OBVIOUS
<1> USE SessionsAssumption DEF SessionsInit
<1>1. NoRow \in RowType
  BY DEF NoRow, RowType
<1>2. SessionsTypeOK
  BY <1>1 DEF SessionsTypeOK, NoRequest, RequestType
<1>3. RowsOK(rows, stored, members)
  BY <1>1 DEF RowsOK, NoRow
<1> QED
  BY <1>2, <1>3 DEF SessionsIInv, NoRequest, OnePerson

\* The actions that end sessions and start none: which cookies and which answer they leave decides.
LEMMA EndingKeepsRows ==
  ASSUME SessionsIInv, NEW gone \in SUBSET Tokens, rows' = Without(gone)
  PROVE  /\ RowsOK(rows', stored, members)
         /\ \A b, a : OnePerson(rows, b, a) => OnePerson(rows', b, a)
<1>1. RowsOK(rows, stored, members)
  BY DEF SessionsIInv
<1> QED
  BY <1>1, WithoutRows, WithoutOnePerson

\* CheckCredentials keeps the invariant.
LEMMA CheckCredentialsKeeps ==
  ASSUME SessionsIInv, NEW p \in People, NEW at \in {"business", "account"}, CheckCredentials(at, p)
  PROVE  SessionsIInv'
<1> USE SessionsTokens DEF CheckCredentials
<1>1. /\ RowsOK(rows', stored', members')
      /\ \A b, a : OnePerson(rows, b, a) => OnePerson(rows', b, a)
  BY EndingKeepsRows
<1>2. request' \in RequestType
  <2>1. stored[p] \in 0 .. MaxPassword
    BY SessionsAssumption DEF SessionsIInv, SessionsTypeOK
  <2> QED
    BY <2>1 DEF NoRequest, RequestType
<1>3. SessionsTypeOK'
  BY <1>1, <1>2 DEF SessionsIInv, SessionsTypeOK, RowsOK
<1> QED
  BY <1>1, <1>3 DEF SessionsIInv, NoRequest

\* StartBusiness keeps the invariant.
LEMMA StartBusinessKeeps ==
  ASSUME SessionsIInv, NEW t \in BusinessTokens, NEW a \in AccountTokens, StartBusiness(t, a)
  PROVE  SessionsIInv'
<1> DEFINE p == request.person
           gone == {cookies.business, cookies.account} \cap Tokens
           w == Without(gone)
           account == IF p \in platformAdmins THEN {} ELSE {a}
           brow == [kind |-> "business", person |-> p, version |-> request.version, by |-> Nil]
<1> USE SessionsTokens
<1>0. RowsOK(w, stored, members)
  BY WithoutRows DEF SessionsIInv
<1>1. /\ RowsOK(rows, stored, members)
      /\ \A x \in Tokens : w[x] = rows[x] \/ w[x] = NoRow
      /\ \A x \in gone : w[x] = NoRow
  BY WithoutRows DEF SessionsIInv
<1>2. /\ p \in People /\ p \in members /\ request.version = stored[p] /\ request.version \in 0 .. MaxPassword
  BY DEF SessionsIInv, StartBusiness, PasswordUnchanged, IsMember, SessionsTypeOK, RequestType
<1>3. /\ rows[t].kind = "none" /\ rows[a].kind = "none" /\ t # cookies.business /\ a # cookies.account
      /\ \A x \in Tokens : rows[x].by # t
  BY DEF StartBusiness, Fresh, Held
<1>4. rows' = [x \in Tokens |-> IF x = t THEN brow ELSE IF x \in account THEN AccountRow(p, t) ELSE w[x]]
  BY DEF StartBusiness
<1>5. brow \in RowType /\ AccountRow(p, t) \in RowType
  BY <1>2 DEF RowType, AccountRow
<1>6. rows' \in [Tokens -> RowType]
  BY <1>0, <1>4, <1>5 DEF RowsOK
<1>7. RowsOK(rows', stored, members)
  <2> SUFFICES ASSUME NEW x \in Tokens
               PROVE /\ x \in BusinessTokens => rows'[x].kind \in {"none", "business"}
                     /\ x \in AccountTokens => rows'[x].kind \in {"none", "account"}
                     /\ x \in AdminTokens => rows'[x].kind \in {"none", "admin", "admin uncommitted"}
                     /\ rows'[x].kind # "none" => rows'[x].person \in People
                     /\ rows'[x].kind \in {"business", "account"} => rows'[x].version = stored[rows'[x].person]
                     /\ rows'[x].kind = "business" => rows'[x].person \in members
                     /\ rows'[x].by # Nil =>
                          /\ rows'[x].kind = "account" /\ rows'[x].by \in BusinessTokens
                          /\ rows'[rows'[x].by].kind = "business"
                          /\ rows'[rows'[x].by].person = rows'[x].person
    BY <1>6 DEF RowsOK
  <2>1. CASE x = t
    BY <2>1, <1>2, <1>4
  <2>2. CASE x # t /\ x \in account
    <3>1. rows'[x] = AccountRow(p, t) /\ rows'[t] = brow /\ x = a
      BY <2>2, <1>4
    <3> QED
      BY <3>1, <1>2 DEF AccountRow
  <2>3. CASE x # t /\ x \notin account
    <3>1. rows'[x] = w[x]
      BY <2>3, <1>4
    <3>2. CASE w[x].by = Nil
      BY <3>1, <3>2, <1>0 DEF RowsOK
    <3>3. CASE w[x].by # Nil
      <4>0. w[x] = rows[x]
        BY <3>3, <1>1 DEF NoRow
      <4>1. w[x].by \in BusinessTokens /\ w[w[x].by].kind = "business" /\ w[x] = rows[x]
        BY <3>3, <1>0, <4>0 DEF RowsOK
      <4>2. w[x].by # t /\ w[x].by \notin account /\ w[x].by \in Tokens
        BY <4>1, <1>3
      <4>3. rows'[w[x].by] = w[w[x].by]
        BY <4>2, <1>4
      <4> HIDE DEF w, gone
      <4>4. /\ x \in BusinessTokens => w[x].kind \in {"none", "business"}
            /\ x \in AccountTokens => w[x].kind \in {"none", "account"}
            /\ x \in AdminTokens => w[x].kind \in {"none", "admin", "admin uncommitted"}
            /\ w[x].kind # "none" => w[x].person \in People
            /\ w[x].kind \in {"business", "account"} => w[x].version = stored[w[x].person]
            /\ w[x].kind = "business" => w[x].person \in members
            /\ w[x].kind = "account" /\ w[w[x].by].person = w[x].person
        BY <3>3, <1>0 DEF RowsOK
      <4> QED
        BY <3>1, <4>1, <4>3, <4>4
    <3> QED
      BY <3>2, <3>3
  <2> QED
    BY <2>1, <2>2, <2>3
<1>8. /\ cookies' = cookies /\ stored' = stored /\ members' = members /\ platformAdmins' = platformAdmins
      /\ request' = [request EXCEPT !.pc = "answered", !.business = t,
                                    !.account = IF account = {} THEN Nil ELSE a]
  BY DEF StartBusiness
<1>9. \A x \in gone : rows'[x] = NoRow
  <2> SUFFICES ASSUME NEW x \in gone PROVE rows'[x] = NoRow
    OBVIOUS
  <2>1. x # t /\ x # a
    BY <1>3 DEF SessionsIInv
  <2> QED
    BY <2>1, <1>1, <1>4
<1>10. OnePerson(rows', cookies.business, cookies.account)
  BY <1>9 DEF OnePerson, NoRow
<1>11. OnePerson(rows', request'.business, request'.account)
  <2>0. request \in RequestType
    BY DEF SessionsIInv, SessionsTypeOK
  <2>1. request'.business = t /\ request'.account = IF account = {} THEN Nil ELSE a
    BY <1>8, <2>0 DEF RequestType
  <2>2. CASE p \in platformAdmins
    BY <2>1, <2>2 DEF OnePerson
  <2>3. CASE p \notin platformAdmins
    <3>1. request'.account = a
      BY <2>1, <2>3
    <3>2. rows'[a] = AccountRow(p, t) /\ rows'[t] = brow
      BY <2>3, <1>4
    <3> QED
      BY <3>1, <3>2, <2>1 DEF OnePerson, AccountRow
  <2> QED
    BY <2>2, <2>3
<1>12. SessionsTypeOK'
  BY <1>6, <1>8 DEF SessionsIInv, SessionsTypeOK, RequestType
<1> QED
  <2>1. /\ request'.business \in BusinessTokens \cup {Nil} /\ request'.account \in AccountTokens \cup {Nil}
        /\ request'.pc = "answered"
    BY <1>8 DEF SessionsIInv, SessionsTypeOK, RequestType
  <2> QED
    BY <2>1, <1>7, <1>8, <1>10, <1>11, <1>12 DEF SessionsIInv

\* StartAccount keeps the invariant.
LEMMA StartAccountKeeps ==
  ASSUME SessionsIInv, NEW a \in AccountTokens, StartAccount(a)
  PROVE  SessionsIInv'
<1> DEFINE p == request.person
           gone == Others(p) \cup ({cookies.account} \cap Tokens)
           w == Without(gone)
<1> USE SessionsTokens
<1>1. gone \in SUBSET Tokens
  BY DEF Others
<1>2. RowsOK(rows, stored, members)
  BY DEF SessionsIInv
<1>3. RowsOK(w, stored, members)
  BY <1>1, <1>2, WithoutRows
<1>4. \A x \in gone : w[x] = NoRow
  BY <1>1, <1>2, WithoutRows
<1>5. \A x \in Tokens : w[x] = rows[x] \/ w[x] = NoRow
  BY <1>1, <1>2, WithoutRows
<1> HIDE DEF w, gone
<1>6. /\ p \in People /\ request.version = stored[p] /\ request.version \in 0 .. MaxPassword
  BY DEF SessionsIInv, StartAccount, PasswordUnchanged, SessionsTypeOK, RequestType
<1>7. /\ rows[a].kind = "none" /\ a # cookies.account
      /\ \A x \in Tokens : rows[x].by # a
  BY DEF StartAccount, Fresh, Held
<1>8. rows' = [w EXCEPT ![a] = AccountRow(p, Nil)]
  BY DEF StartAccount, w, gone
<1>9. AccountRow(p, Nil) \in RowType
  BY <1>6 DEF RowType, AccountRow
<1>10. /\ rows' \in [Tokens -> RowType] /\ rows'[a] = AccountRow(p, Nil)
       /\ \A x \in Tokens \ {a} : rows'[x] = w[x]
  BY <1>3, <1>8, <1>9 DEF RowsOK
<1>11. RowsOK(rows', stored, members)
  <2> SUFFICES ASSUME NEW x \in Tokens
               PROVE /\ x \in BusinessTokens => rows'[x].kind \in {"none", "business"}
                     /\ x \in AccountTokens => rows'[x].kind \in {"none", "account"}
                     /\ x \in AdminTokens => rows'[x].kind \in {"none", "admin", "admin uncommitted"}
                     /\ rows'[x].kind # "none" => rows'[x].person \in People
                     /\ rows'[x].kind \in {"business", "account"} => rows'[x].version = stored[rows'[x].person]
                     /\ rows'[x].kind = "business" => rows'[x].person \in members
                     /\ rows'[x].by # Nil =>
                          /\ rows'[x].kind = "account" /\ rows'[x].by \in BusinessTokens
                          /\ rows'[rows'[x].by].kind = "business"
                          /\ rows'[rows'[x].by].person = rows'[x].person
    BY <1>10 DEF RowsOK
  <2>1. CASE x = a
    BY <2>1, <1>6, <1>10 DEF AccountRow
  <2>2. CASE x # a
    <3>1. rows'[x] = w[x]
      BY <2>2, <1>10
    <3>2. w[x].by # Nil => w[x].by \in BusinessTokens
      BY <1>3 DEF RowsOK
    <3>3. w[x].by # Nil => rows'[w[x].by] = w[w[x].by]
      BY <3>2, <1>10
    <3>4. /\ x \in BusinessTokens => w[x].kind \in {"none", "business"}
          /\ x \in AccountTokens => w[x].kind \in {"none", "account"}
          /\ x \in AdminTokens => w[x].kind \in {"none", "admin", "admin uncommitted"}
          /\ w[x].kind # "none" => w[x].person \in People
          /\ w[x].kind \in {"business", "account"} => w[x].version = stored[w[x].person]
          /\ w[x].kind = "business" => w[x].person \in members
          /\ w[x].by # Nil =>
               /\ w[x].kind = "account" /\ w[x].by \in BusinessTokens
               /\ w[w[x].by].kind = "business" /\ w[w[x].by].person = w[x].person
      BY <1>3 DEF RowsOK
    <3> QED
      BY <3>1, <3>3, <3>4
  <2> QED
    BY <2>1, <2>2
<1>12. /\ cookies' = cookies /\ stored' = stored /\ members' = members /\ platformAdmins' = platformAdmins
       /\ request' = [request EXCEPT !.pc = "answered", !.account = a,
                                     !.business = IF Others(p) = {} THEN cookies.business ELSE Nil]
  BY DEF StartAccount
<1>13. OnePerson(rows', cookies.business, cookies.account)
  <2>1. cookies.account \in Tokens => rows'[cookies.account] = NoRow
    BY <1>4, <1>7, <1>10 DEF gone
  <2> QED
    BY <2>1 DEF OnePerson, NoRow
<1>14. /\ request'.account = a /\ request'.business = IF Others(p) = {} THEN cookies.business ELSE Nil
       /\ request'.pc = "answered"
  BY <1>12 DEF SessionsIInv, SessionsTypeOK, RequestType
<1>15. OnePerson(rows', request'.business, request'.account)
  <2> SUFFICES ASSUME request'.business \in Tokens, rows'[request'.business].kind # "none"
               PROVE  rows'[request'.business].person = p
    BY <1>10, <1>14 DEF OnePerson, AccountRow
  <2>1. Others(p) = {} /\ request'.business = cookies.business /\ cookies.business \in BusinessTokens
    BY <1>14 DEF SessionsIInv
  <2>2. rows'[cookies.business] = w[cookies.business] /\ w[cookies.business] = rows[cookies.business]
    <3>1. rows'[cookies.business] = w[cookies.business]
      BY <2>1, <1>10
    <3>2. w[cookies.business].kind # "none"
      BY <3>1, <2>1
    <3>3. NoRow.kind = "none"
      BY DEF NoRow
    <3> QED
      BY <3>1, <3>2, <3>3, <2>1, <1>5
  <2>3. rows[cookies.business].kind = "business"
    BY <2>1, <2>2, <1>2 DEF RowsOK
  <2> QED
    BY <2>1, <2>2, <2>3 DEF Others
<1>16. SessionsTypeOK'
  BY <1>10, <1>12 DEF SessionsIInv, SessionsTypeOK, RequestType
<1>17. request'.business \in BusinessTokens \cup {Nil} /\ request'.account \in AccountTokens \cup {Nil}
  BY <1>14 DEF SessionsIInv
<1> QED
  BY <1>11, <1>12, <1>13, <1>14, <1>15, <1>16, <1>17 DEF SessionsIInv

\* Refused keeps the invariant.
LEMMA RefusedKeeps ==
  ASSUME SessionsIInv, Refused
  PROVE  SessionsIInv'
<1> USE SessionsTokens DEF Refused
<1>1. SessionsTypeOK'
  BY NoRequestType DEF SessionsIInv, SessionsTypeOK
<1>2. cookies'.account = Nil /\ cookies'.business = cookies.business
  BY DEF SessionsIInv, SessionsTypeOK
<1> QED
  BY <1>1, <1>2 DEF SessionsIInv, NoRequest, OnePerson

\* Answer keeps the invariant.
LEMMA AnswerKeeps ==
  ASSUME SessionsIInv, Answer
  PROVE  SessionsIInv'
<1> USE SessionsTokens DEF Answer
<1>1. SessionsTypeOK'
  BY NoRequestType DEF SessionsIInv, SessionsTypeOK
<1> QED
  BY <1>1 DEF SessionsIInv, NoRequest

\* Lost keeps the invariant.
LEMMA LostKeeps ==
  ASSUME SessionsIInv, Lost
  PROVE  SessionsIInv'
<1> USE SessionsTokens DEF Lost
<1>1. SessionsTypeOK'
  BY NoRequestType DEF SessionsIInv, SessionsTypeOK
<1> QED
  BY <1>1 DEF SessionsIInv, NoRequest

\* EndAccountSession keeps the invariant.
LEMMA EndAccountSessionKeeps ==
  ASSUME SessionsIInv, EndAccountSession
  PROVE  SessionsIInv'
<1> USE SessionsTokens DEF EndAccountSession
<1>1. /\ RowsOK(rows', stored', members')
      /\ \A b, a : OnePerson(rows, b, a) => OnePerson(rows', b, a)
  BY EndingKeepsRows
<1>2. SessionsTypeOK'
  BY <1>1, NoRequestType DEF SessionsIInv, SessionsTypeOK, RowsOK
<1> QED
  BY <1>1, <1>2 DEF SessionsIInv, NoRequest

\* EndBusinessSession keeps the invariant.
LEMMA EndBusinessSessionKeeps ==
  ASSUME SessionsIInv, EndBusinessSession
  PROVE  SessionsIInv'
<1> USE SessionsTokens DEF EndBusinessSession
<1>1. RowsOK(rows', stored', members')
  BY EndingKeepsRows
<1>2. SessionsTypeOK'
  BY <1>1, NoRequestType DEF SessionsIInv, SessionsTypeOK, RowsOK
<1> QED
  BY <1>1, <1>2 DEF SessionsIInv, NoRequest, OnePerson

\* SignOutEverywhere keeps the invariant.
LEMMA SignOutEverywhereKeeps ==
  ASSUME SessionsIInv, NEW t \in Tokens, SignOutEverywhere(t)
  PROVE  SessionsIInv'
<1> USE SessionsTokens DEF SignOutEverywhere
<1>0. Of(rows[t].person, {"business", "account"}) \in SUBSET Tokens
  BY DEF Of
<1>1. RowsOK(rows', stored', members')
  BY <1>0, EndingKeepsRows
<1>2. SessionsTypeOK'
  BY <1>1 DEF SessionsIInv, SessionsTypeOK, RowsOK
<1> QED
  BY <1>1, <1>2 DEF SessionsIInv, OnePerson

\* ResetPassword keeps the invariant.
LEMMA ResetPasswordKeeps ==
  ASSUME SessionsIInv, NEW p \in People, NEW here \in BOOLEAN, ResetPassword(p, here)
  PROVE  SessionsIInv'
<1> DEFINE gone == Of(p, {"business", "account", "admin"})
           w == Without(gone)
<1> USE SessionsTokens
<1>1. gone \in SUBSET Tokens /\ rows' = w
  BY DEF Of, ResetPassword
<1>2. RowsOK(w, stored, members) /\ \A b, a : OnePerson(rows, b, a) => OnePerson(w, b, a)
  BY <1>1, EndingKeepsRows
<1>3. \A x \in gone : w[x] = NoRow
  BY <1>1, WithoutRows DEF SessionsIInv
<1>4. \A x \in Tokens : w[x] = rows[x] \/ w[x] = NoRow
  BY <1>1, WithoutRows DEF SessionsIInv
<1>5. \A x \in Tokens : w[x].kind \in {"business", "account"} => w[x].person # p
  BY <1>3, <1>4 DEF Of, NoRow
<1>6. stored' = [stored EXCEPT ![p] = @ + 1] /\ stored' \in [People -> 1 .. MaxPassword]
  BY SessionsAssumption DEF ResetPassword, SessionsIInv, SessionsTypeOK
<1>7. \A q \in People : q # p => stored'[q] = stored[q]
  BY <1>6 DEF SessionsIInv, SessionsTypeOK
<1>8. \A x \in Tokens : w[x].kind \in {"business", "account"} => w[x].version = stored'[w[x].person]
  BY <1>2, <1>5, <1>7 DEF RowsOK
<1>9. RowsOK(w, stored', members)
  BY <1>2, <1>8 DEF RowsOK
<1>10. /\ cookies' = cookies /\ members' = members /\ platformAdmins' = platformAdmins
       /\ request' = IF here THEN [NoRequest EXCEPT !.pc = "leaving"] ELSE request
  BY DEF ResetPassword
<1>11. SessionsTypeOK'
  BY <1>1, <1>6, <1>9, <1>10, NoRequestType DEF SessionsIInv, SessionsTypeOK, RowsOK
<1>12. CASE here
  BY <1>1, <1>2, <1>9, <1>10, <1>11, <1>12 DEF SessionsIInv, NoRequest
<1>13. CASE ~ here
  BY <1>1, <1>2, <1>9, <1>10, <1>11, <1>13 DEF SessionsIInv
<1> QED
  BY <1>12, <1>13

\* RemoveMember keeps the invariant.
LEMMA RemoveMemberKeeps ==
  ASSUME SessionsIInv, NEW p \in People, RemoveMember(p)
  PROVE  SessionsIInv'
<1> DEFINE gone == Of(p, {"business"})
           w == Without(gone)
<1> USE SessionsTokens
<1>1. gone \in SUBSET Tokens /\ rows' = w
  BY DEF Of, RemoveMember
<1>2. RowsOK(w, stored, members) /\ \A b, a : OnePerson(rows, b, a) => OnePerson(w, b, a)
  BY <1>1, EndingKeepsRows
<1>3. \A x \in gone : w[x] = NoRow
  BY <1>1, WithoutRows DEF SessionsIInv
<1>4. \A x \in Tokens : w[x] = rows[x] \/ w[x] = NoRow
  BY <1>1, WithoutRows DEF SessionsIInv
<1>5. \A x \in Tokens : w[x].kind = "business" => w[x].person \in members \ {p}
  <2>1. \A x \in Tokens : w[x].kind = "business" => w[x].person # p
    BY <1>3, <1>4 DEF Of, NoRow
  <2> QED
    BY <2>1, <1>2 DEF RowsOK
<1>6. RowsOK(w, stored, members \ {p})
  BY <1>2, <1>5 DEF RowsOK
<1>7. /\ cookies' = cookies /\ members' = members \ {p} /\ platformAdmins' = platformAdmins
      /\ request' = request /\ stored' = stored
  BY DEF RemoveMember
<1>8. SessionsTypeOK'
  BY <1>1, <1>6, <1>7 DEF SessionsIInv, SessionsTypeOK, RowsOK
<1> QED
  BY <1>1, <1>2, <1>6, <1>7, <1>8 DEF SessionsIInv

\* Revive keeps the invariant.
LEMMA ReviveKeeps ==
  ASSUME SessionsIInv, NEW p \in People, Revive(p)
  PROVE  SessionsIInv'
<1>1. RowsOK(rows, stored, members')
  BY DEF SessionsIInv, RowsOK, Revive
<1> QED
  BY <1>1 DEF SessionsIInv, SessionsTypeOK, Revive

\* GrantAdmin keeps the invariant.
LEMMA GrantAdminKeeps ==
  ASSUME SessionsIInv, NEW p \in People, GrantAdmin(p)
  PROVE  SessionsIInv'
<1> USE DEF GrantAdmin
<1>1. /\ RowsOK(rows', stored', members')
      /\ \A b, a : OnePerson(rows, b, a) => OnePerson(rows', b, a)
  BY EndingKeepsRows DEF Of
<1>2. SessionsTypeOK'
  BY <1>1 DEF SessionsIInv, SessionsTypeOK, RowsOK
<1> QED
  BY <1>1, <1>2 DEF SessionsIInv

\* Expire keeps the invariant.
LEMMA ExpireKeeps ==
  ASSUME SessionsIInv, NEW t \in Tokens, Expire(t)
  PROVE  SessionsIInv'
<1> USE DEF Expire
<1>1. /\ RowsOK(rows', stored', members')
      /\ \A b, a : OnePerson(rows, b, a) => OnePerson(rows', b, a)
  BY EndingKeepsRows
<1>2. SessionsTypeOK'
  BY <1>1 DEF SessionsIInv, SessionsTypeOK, RowsOK
<1> QED
  BY <1>1, <1>2 DEF SessionsIInv

\* An admin session: of a token neither cookie holds, and no business or account session.
LEMMA AdminRowKeeps ==
  ASSUME SessionsIInv, NEW t \in AdminTokens, NEW row \in RowType, row.person \in People,
         row.kind \in {"admin", "admin uncommitted"}, row.by = Nil,
         rows' = [rows EXCEPT ![t] = row],
         UNCHANGED <<stored, members, platformAdmins, cookies, request>>
  PROVE  SessionsIInv'
<1> USE SessionsTokens
<1>1. /\ rows' \in [Tokens -> RowType] /\ rows'[t] = row
      /\ \A x \in Tokens \ {t} : rows'[x] = rows[x]
  BY DEF SessionsIInv, SessionsTypeOK
<1>2. RowsOK(rows, stored, members)
  BY DEF SessionsIInv
<1>3. RowsOK(rows', stored, members)
  <2> SUFFICES ASSUME NEW x \in Tokens
               PROVE /\ x \in BusinessTokens => rows'[x].kind \in {"none", "business"}
                     /\ x \in AccountTokens => rows'[x].kind \in {"none", "account"}
                     /\ x \in AdminTokens => rows'[x].kind \in {"none", "admin", "admin uncommitted"}
                     /\ rows'[x].kind # "none" => rows'[x].person \in People
                     /\ rows'[x].kind \in {"business", "account"} => rows'[x].version = stored[rows'[x].person]
                     /\ rows'[x].kind = "business" => rows'[x].person \in members
                     /\ rows'[x].by # Nil =>
                          /\ rows'[x].kind = "account" /\ rows'[x].by \in BusinessTokens
                          /\ rows'[rows'[x].by].kind = "business"
                          /\ rows'[rows'[x].by].person = rows'[x].person
    BY <1>1 DEF RowsOK
  <2>1. CASE x = t
    BY <2>1, <1>1
  <2>2. CASE x # t
    <3>1. rows'[x] = rows[x]
      BY <2>2, <1>1
    <3>2. rows[x].by # Nil => rows'[rows[x].by] = rows[rows[x].by]
      BY <1>1, <1>2 DEF RowsOK
    <3> QED
      BY <3>1, <3>2, <1>2 DEF RowsOK
  <2> QED
    BY <2>1, <2>2
<1>4. \A b \in BusinessTokens \cup {Nil}, a \in AccountTokens \cup {Nil} :
        OnePerson(rows, b, a) => OnePerson(rows', b, a)
  <2>1. \A x \in BusinessTokens \cup AccountTokens : rows'[x] = rows[x]
    BY <1>1
  <2> QED
    BY <2>1 DEF OnePerson
<1>6. SessionsTypeOK'
  BY <1>1 DEF SessionsIInv, SessionsTypeOK
<1> QED
  BY <1>3, <1>4, <1>6 DEF SessionsIInv

\* InsertAdminSession keeps the invariant.
LEMMA InsertAdminSessionKeeps ==
  ASSUME SessionsIInv, NEW p \in People, NEW t \in AdminTokens, InsertAdminSession(p, t)
  PROVE  SessionsIInv'
<1> DEFINE row == [kind |-> "admin uncommitted", person |-> p, version |-> stored[p], by |-> Nil]
<1>1. stored[p] \in 0 .. MaxPassword
  BY SessionsAssumption DEF SessionsIInv, SessionsTypeOK
<1>2. row \in RowType
  BY <1>1 DEF RowType
<1> QED
  BY <1>2, AdminRowKeeps DEF InsertAdminSession

\* CommitAdminSession keeps the invariant.
LEMMA CommitAdminSessionKeeps ==
  ASSUME SessionsIInv, NEW t \in Tokens, CommitAdminSession(t)
  PROVE  SessionsIInv'
<1> DEFINE row == [rows[t] EXCEPT !.kind = "admin"]
<1>1. rows[t].kind = "admin uncommitted" /\ rows[t] \in RowType
  BY DEF CommitAdminSession, SessionsIInv, RowsOK
<1>2. t \in AdminTokens /\ rows[t].person \in People /\ rows[t].by = Nil
  BY <1>1 DEF SessionsIInv, RowsOK, Tokens
<1>3. row \in RowType /\ row.kind = "admin" /\ row.person = rows[t].person /\ row.by = rows[t].by
  BY <1>1 DEF RowType
<1>4. rows' = [rows EXCEPT ![t] = row]
  BY DEF CommitAdminSession
<1>5. UNCHANGED <<stored, members, platformAdmins, cookies, request>>
  BY DEF CommitAdminSession
<1> HIDE DEF row
<1> QED
  BY <1>2, <1>3, <1>4, <1>5, AdminRowKeeps

\* Every step keeps the invariant.
LEMMA SessionsNextKeeps ==
  ASSUME SessionsIInv, [SessionsNext]_sessionVars
  PROVE  SessionsIInv'
<1>1. CASE SessionsNext
  <2>1. CASE \E p \in People, at \in {"business", "account"} : CheckCredentials(at, p)
    BY <2>1, CheckCredentialsKeeps
  <2>2. CASE \E t \in BusinessTokens, a \in AccountTokens : StartBusiness(t, a)
    BY <2>2, StartBusinessKeeps
  <2>3. CASE \E a \in AccountTokens : StartAccount(a)
    BY <2>3, StartAccountKeeps
  <2>4. CASE \E t \in Tokens : SignOutEverywhere(t) \/ Expire(t) \/ CommitAdminSession(t)
    BY <2>4, SignOutEverywhereKeeps, ExpireKeeps, CommitAdminSessionKeeps
  <2>5. CASE BusinessRefused \/ AccountRefused
    BY <2>5, RefusedKeeps DEF BusinessRefused, AccountRefused
  <2>6. CASE Answer \/ Lost \/ EndAccountSession \/ EndBusinessSession
    BY <2>6, AnswerKeeps, LostKeeps, EndAccountSessionKeeps, EndBusinessSessionKeeps
  <2>7. CASE \E p \in People, here \in BOOLEAN : ResetPassword(p, here)
    BY <2>7, ResetPasswordKeeps
  <2>8. CASE \E p \in People : RemoveMember(p) \/ Revive(p) \/ GrantAdmin(p)
    BY <2>8, RemoveMemberKeeps, ReviveKeeps, GrantAdminKeeps
  <2>9. CASE \E p \in People, t \in AdminTokens : InsertAdminSession(p, t)
    BY <2>9, InsertAdminSessionKeeps
  <2> QED
    BY <1>1, <2>1, <2>2, <2>3, <2>4, <2>5, <2>6, <2>7, <2>8, <2>9 DEF SessionsNext
<1>2. CASE UNCHANGED sessionVars
  BY <1>2 DEF sessionVars, SessionsIInv, SessionsTypeOK
<1> QED
  BY <1>1, <1>2

\* The inductive invariant gives what the sessions promise.
LEMMA SessionsIInvImplies == SessionsIInv => SessionsInv
<1> SUFFICES ASSUME SessionsIInv PROVE SessionsInv
  OBVIOUS
<1> USE SessionsTokens
<1>1. RowsOK(rows, stored, members)
  BY DEF SessionsIInv
<1>2. NoSessionOutlivesReset
  BY <1>1 DEF NoSessionOutlivesReset, RowsOK
<1>3. OneBrowserOnePerson
  BY DEF SessionsIInv, OnePerson, OneBrowserOnePerson
<1>4. SessionsEndWithMembership
  BY <1>1 DEF SessionsEndWithMembership, RowsOK
<1> QED
  BY <1>2, <1>3, <1>4 DEF SessionsInv, SessionsIInv

\* However sign-ins race with resets, removals, grants, expiry and lost answers: no business or account
\* session outlives the password it was started with (password_unchanged, read in the transaction that
\* starts it), a browser's two cookies are one person's, and a console sign-in's account session is gone
\* with the membership (started_by's ON DELETE CASCADE).
THEOREM SessionsSound == SessionsSpec => []SessionsInv
BY SessionsInitOK, SessionsNextKeeps, SessionsIInvImplies, PTL DEF SessionsSpec

-----------------------------------------------------------------------------
(* The second factor *)

\* The types of the state, of the records in it and of the bounds, for the provers.
LEMMA FactorFacts ==
  ASSUME FactorInv
  PROVE  /\ admin \in BOOLEAN /\ sessions \in [AdminSessions -> SessionType] /\ factor \in FactorType
         /\ charges \subseteq Attempts /\ attempts \in [Attempts -> AttemptType] /\ step \in 1 .. MaxStep
         /\ tried \in [wrong : Nat, leaked : Nat] /\ tried.wrong \in Nat /\ tried.leaked \in Nat
         /\ factor.secret \in 0 .. MaxSecrets /\ factor.issued \in 0 .. MaxSecrets
         /\ factor.last_step \in 0 .. MaxStep + 1 /\ factor.failed \in 0 .. Lock
         /\ factor.due \in 0 .. MaxLeaks /\ factor.codes \in SUBSET RecoveryCodes
         /\ factor.confirmed \in BOOLEAN /\ factor.ticket \in BOOLEAN
         /\ \A s \in AdminSessions : sessions[s] \in SessionType
         /\ \A a \in Attempts : attempts[a] \in AttemptType /\ attempts[a].right \in 0 .. MaxStep + 1
         /\ IsFiniteSet(charges) /\ Cardinality(charges) \in Nat
         /\ Lock \in Nat \ {0} /\ MaxStep \in Nat \ {0} /\ MaxSecrets \in Nat /\ MaxLeaks \in Nat
<1>1. /\ admin \in BOOLEAN /\ sessions \in [AdminSessions -> SessionType] /\ factor \in FactorType
      /\ charges \subseteq Attempts /\ attempts \in [Attempts -> AttemptType] /\ step \in 1 .. MaxStep
      /\ tried \in [wrong : Nat, leaked : Nat]
  BY DEF FactorInv, FactorTypeOK
<1>2. /\ factor.secret \in 0 .. MaxSecrets /\ factor.issued \in 0 .. MaxSecrets
      /\ factor.last_step \in 0 .. MaxStep + 1 /\ factor.failed \in 0 .. Lock
      /\ factor.due \in 0 .. MaxLeaks /\ factor.codes \in SUBSET RecoveryCodes
      /\ factor.confirmed \in BOOLEAN /\ factor.ticket \in BOOLEAN
  BY <1>1 DEF FactorType
<1>3. \A a \in AttemptType : a.right \in 0 .. MaxStep + 1
  BY DEF AttemptType
<1>4. IsFiniteSet(charges) /\ Cardinality(charges) \in Nat
  BY <1>1, SecondFactorAssumption, FS_Subset, FS_CardinalityType
<1> QED
  BY <1>1, <1>2, <1>3, <1>4, SecondFactorAssumption

\* The bound on guesses follows from the count of them, so a step has three parts to account for.
LEMMA FactorHolds ==
  ASSUME FactorTypeOK', EveryGuessCounted', PassedUnderThisSecret'
  PROVE  FactorInv'
<1>1. factor'.failed \in 0 .. Lock /\ tried'.wrong \in Nat /\ tried'.leaked \in Nat
  BY DEF FactorTypeOK, FactorType
<1>2. Cardinality(charges') \in Nat
  BY SecondFactorAssumption, FS_Subset, FS_CardinalityType DEF FactorTypeOK
<1>3. GuessesAreBounded'
  BY <1>1, <1>2, SecondFactorAssumption DEF GuessesAreBounded, EveryGuessCounted
<1> QED
  BY <1>3 DEF FactorInv

\* Where the count stays, and nothing new is in flight.
LEMMA NothingTried ==
  ASSUME FactorInv, charges' \subseteq charges, UNCHANGED tried, factor'.failed = factor.failed
  PROVE  EveryGuessCounted'
<1>1. Cardinality(charges') \in Nat /\ Cardinality(charges') <= Cardinality(charges)
  BY FactorFacts, FS_Subset, FS_CardinalityType
<1> QED
  BY <1>1, FactorFacts DEF FactorInv, EveryGuessCounted

\* Where the secret stays, and the sessions are as they were or not past the factor.
LEMMA NobodyPasses ==
  ASSUME FactorInv, factor'.confirmed = factor.confirmed, factor'.secret = factor.secret,
         \A s \in AdminSessions : sessions'[s].under # 0 => sessions'[s] = sessions[s]
  PROVE  PassedUnderThisSecret'
BY DEF FactorInv, PassedUnderThisSecret

\* No session, and one that has not passed yet, are well formed.
LEMMA NoSessionType ==
  /\ NoSession \in SessionType /\ NoSession.under = 0
  /\ [live |-> TRUE, under |-> 0] \in SessionType
BY SecondFactorAssumption DEF NoSession, SessionType

\* An attempt that has not begun is well formed.
LEMMA IdleAttemptType == IdleAttempt \in AttemptType
BY SecondFactorAssumption DEF IdleAttempt, AttemptType

\* Nothing tried is a count of nothing.
LEMMA UntriedType == Untried \in [wrong : Nat, leaked : Nat] /\ Untried.wrong = 0 /\ Untried.leaked = 0
BY DEF Untried

\* Only the sessions change, and none is past the factor that was not.
LEMMA SessionsStep ==
  ASSUME FactorInv, admin' \in BOOLEAN, sessions' \in [AdminSessions -> SessionType],
         \A s \in AdminSessions : sessions'[s].under # 0 => sessions'[s] = sessions[s],
         UNCHANGED <<factor, charges, attempts, step, tried>>
  PROVE  FactorInv'
<1>1. FactorTypeOK'
  BY FactorFacts DEF FactorTypeOK
<1>2. EveryGuessCounted' /\ PassedUnderThisSecret'
  BY NothingTried, NobodyPasses
<1> QED
  BY <1>1, <1>2, FactorHolds

\* AdminSignIn keeps the invariant.
LEMMA AdminSignInOK ==
  ASSUME FactorInv, NEW s \in AdminSessions, NEW old \in SUBSET AdminSessions, AdminSignIn(s, old)
  PROVE  FactorInv'
<1>1. /\ sessions' = [x \in AdminSessions |->
                        IF x = s THEN [live |-> TRUE, under |-> 0]
                        ELSE IF x \in old THEN NoSession ELSE sessions[x]]
      /\ UNCHANGED <<admin, factor, charges, attempts, step, tried>>
  BY DEF AdminSignIn
<1>2. PICK fresh : fresh = [live |-> TRUE, under |-> 0] /\ fresh \in SessionType /\ fresh.under = 0
  BY NoSessionType
<1>3. \A x \in AdminSessions : sessions'[x] = IF x = s THEN fresh ELSE IF x \in old THEN NoSession ELSE sessions[x]
  BY <1>1, <1>2
<1>4. sessions' \in [AdminSessions -> SessionType]
  BY <1>1, <1>2, NoSessionType, FactorFacts
<1>5. \A x \in AdminSessions : sessions'[x].under # 0 => sessions'[x] = sessions[x]
  BY <1>2, <1>3, NoSessionType
<1> QED
  BY <1>1, <1>4, <1>5, FactorFacts, SessionsStep

\* EndSession keeps the invariant.
LEMMA EndSessionOK ==
  ASSUME FactorInv, NEW s \in AdminSessions, EndSession(s)
  PROVE  FactorInv'
<1>1. sessions' = [sessions EXCEPT ![s] = NoSession] /\ UNCHANGED <<admin, factor, charges, attempts, step, tried>>
  BY DEF EndSession
<1>2. /\ sessions' \in [AdminSessions -> SessionType]
      /\ \A x \in AdminSessions : sessions'[x].under # 0 => sessions'[x] = sessions[x]
  BY <1>1, NoSessionType, FactorFacts
<1> QED
  BY <1>1, <1>2, FactorFacts, SessionsStep

\* Where every admin session ends, nobody is past the second factor.
LEMMA AllSessionsEnd ==
  ASSUME sessions' = [s \in AdminSessions |-> NoSession]
  PROVE  /\ sessions' \in [AdminSessions -> SessionType] /\ PassedUnderThisSecret'
         /\ \A s \in AdminSessions : sessions'[s].under = 0
<1>1. \A s \in AdminSessions : sessions'[s] = NoSession
  OBVIOUS
<1> QED
  BY <1>1, NoSessionType DEF PassedUnderThisSecret

\* A password reset, a grant and a revocation end the sessions and keep the invariant.
LEMMA AdminOK ==
  ASSUME FactorInv, ResetSignsOut \/ Grant \/ Revoke
  PROVE  FactorInv'
<1>1. CASE Grant
  BY <1>1, FactorFacts, SessionsStep DEF Grant
<1>2. CASE ResetSignsOut \/ Revoke
  <2>1. sessions' = [s \in AdminSessions |-> NoSession] /\ UNCHANGED <<factor, charges, attempts, step, tried>>
    BY <1>2 DEF ResetSignsOut, Revoke
  <2>2. admin' \in BOOLEAN
    BY <1>2, FactorFacts DEF ResetSignsOut, Revoke
  <2> QED
    BY <2>1, <2>2, AllSessionsEnd, SessionsStep
<1> QED
  BY <1>1, <1>2

\* IssueTicket keeps the invariant.
LEMMA IssueTicketOK ==
  ASSUME FactorInv, IssueTicket
  PROVE  FactorInv'
<1>1. /\ factor' = [factor EXCEPT !.ticket = TRUE, !.secret = 0, !.confirmed = FALSE, !.last_step = 0,
                                  !.failed = 0, !.codes = {}]
      /\ charges' = {} /\ sessions' = [s \in AdminSessions |-> NoSession] /\ tried' = Untried
      /\ UNCHANGED <<admin, attempts, step>>
  BY DEF IssueTicket
<1>2. factor' \in FactorType /\ factor'.failed = 0
  <2>1. factor \in FactorType /\ 0 \in 0 .. MaxSecrets /\ 0 \in 0 .. MaxStep + 1 /\ 0 \in 0 .. Lock
    BY FactorFacts
  <2>2. factor' \in FactorType
    BY <1>1, <2>1 DEF FactorType
  <2>3. factor'.failed = 0
    BY <1>1, <2>1 DEF FactorType
  <2> QED
    BY <2>2, <2>3
<1>3. FactorTypeOK'
  BY <1>1, <1>2, AllSessionsEnd, UntriedType, FactorFacts DEF FactorTypeOK
<1>4. EveryGuessCounted'
  BY <1>1, <1>2, UntriedType, FS_EmptySet DEF EveryGuessCounted
<1> QED
  BY <1>1, <1>3, <1>4, AllSessionsEnd, FactorHolds

\* BeginEnrolment keeps the invariant.
LEMMA BeginEnrolmentOK ==
  ASSUME FactorInv, NEW s \in AdminSessions, BeginEnrolment(s)
  PROVE  FactorInv'
<1>1. /\ ~ factor.confirmed /\ factor.issued < MaxSecrets
      /\ factor' = [factor EXCEPT !.secret = factor.issued + 1, !.issued = @ + 1, !.last_step = 0]
      /\ charges' = {} /\ UNCHANGED <<admin, sessions, attempts, step, tried>>
  BY DEF BeginEnrolment
<1>2. PICK n : n = factor.issued + 1 /\ n \in 0 .. MaxSecrets
  BY <1>1, FactorFacts
<1>3. factor' = [factor EXCEPT !.secret = n, !.issued = n, !.last_step = 0] /\ 0 \in 0 .. MaxStep + 1
  BY <1>1, <1>2, FactorFacts
<1>4. factor' \in FactorType /\ factor'.failed = factor.failed
  BY <1>2, <1>3, FactorFacts DEF FactorType
<1>5. FactorTypeOK'
  BY <1>1, <1>4, FactorFacts DEF FactorTypeOK
<1>6. EveryGuessCounted'
  BY <1>1, <1>4, NothingTried
<1>7. PassedUnderThisSecret'
  BY <1>1 DEF FactorInv, PassedUnderThisSecret
<1> QED
  BY <1>5, <1>6, <1>7, FactorHolds

\* ReadSecret keeps the invariant.
LEMMA ReadSecretOK ==
  ASSUME FactorInv, NEW a \in Attempts, NEW s \in AdminSessions, NEW kind \in {"pass", "enrol"},
         NEW right \in 0 .. MaxStep + 1, ReadSecret(a, s, kind, right)
  PROVE  FactorInv'
<1>1. /\ attempts' = [attempts EXCEPT ![a] = [pc |-> "read", kind |-> kind, session |-> s,
                                              secret |-> factor.secret, right |-> right]]
      /\ UNCHANGED <<admin, sessions, factor, charges, step, tried>>
  BY DEF ReadSecret
<1>2. [pc |-> "read", kind |-> kind, session |-> s, secret |-> factor.secret, right |-> right] \in AttemptType
  BY FactorFacts DEF AttemptType
<1>3. FactorTypeOK'
  BY <1>1, <1>2, FactorFacts DEF FactorTypeOK
<1> QED
  BY <1>1, <1>3, NothingTried, NobodyPasses, FactorHolds

\* Charge keeps the invariant.
LEMMA ChargeOK ==
  ASSUME FactorInv, NEW a \in Attempts, Charge(a)
  PROVE  FactorInv'
<1>1. PICK n : n = Leaked(a)
  OBVIOUS
<1>2. n \in Nat /\ n <= factor.failed
  BY <1>1, FactorFacts DEF Leaked
<1>3. PICK failed, due : /\ failed = factor.failed - n + 1
                         /\ due = IF attempts[a].kind = "pass" THEN 0 ELSE factor.due
  OBVIOUS
<1>4. /\ factor' = [factor EXCEPT !.failed = failed, !.due = due]
      /\ charges' = charges \cup {a} /\ attempts' = [attempts EXCEPT ![a].pc = "charged"]
      /\ tried' = [tried EXCEPT !.leaked = @ + n] /\ UNCHANGED <<admin, sessions, step>>
      /\ factor.failed < Lock
  BY <1>1, <1>3 DEF Charge, Unlocked
<1>5. failed \in 0 .. Lock /\ due \in 0 .. MaxLeaks
  BY <1>2, <1>3, <1>4, FactorFacts
<1>6. factor' \in FactorType /\ factor'.failed = failed /\ factor'.confirmed = factor.confirmed
      /\ factor'.secret = factor.secret
  BY <1>4, <1>5, FactorFacts DEF FactorType
<1>7. tried' \in [wrong : Nat, leaked : Nat] /\ tried'.wrong = tried.wrong /\ tried'.leaked = tried.leaked + n
  BY <1>2, <1>4, FactorFacts
<1>8. attempts' \in [Attempts -> AttemptType]
  <2>1. [attempts[a] EXCEPT !.pc = "charged"] \in AttemptType
    BY FactorFacts DEF AttemptType
  <2> QED
    BY <1>4, <2>1, FactorFacts
<1>9. FactorTypeOK'
  BY <1>4, <1>6, <1>7, <1>8, FactorFacts DEF FactorTypeOK
<1>10. EveryGuessCounted'
  <2>1. Cardinality(charges') \in Nat /\ Cardinality(charges') <= Cardinality(charges) + 1
    <3>1. IsFiniteSet(charges) /\ Cardinality(charges) \in Nat
      BY FactorFacts
    <3>2. Cardinality(charges \cup {a}) = IF a \in charges THEN Cardinality(charges) ELSE Cardinality(charges) + 1
      BY <3>1, FS_AddElement
    <3> QED
      BY <1>4, <3>1, <3>2
  <2>2. tried.wrong + Cardinality(charges) <= factor.failed + tried.leaked
    BY DEF FactorInv, EveryGuessCounted
  <2> QED
    BY <1>2, <1>3, <1>6, <1>7, <2>1, <2>2, FactorFacts DEF EveryGuessCounted
<1> QED
  BY <1>4, <1>6, <1>9, <1>10, NobodyPasses, FactorHolds

\* An attempt that stops before its check, and a charge that lapses, keep the invariant.
LEMMA StopOK ==
  ASSUME FactorInv, NEW a \in Attempts, Stop(a) \/ ChargeExpires(a)
  PROVE  FactorInv'
<1>1. charges' = charges \ {a} /\ UNCHANGED <<admin, sessions, factor, step, tried>>
  BY DEF Stop, ChargeExpires
<1>2. attempts' \in [Attempts -> AttemptType]
  BY IdleAttemptType, FactorFacts DEF Stop, ChargeExpires
<1>3. FactorTypeOK'
  BY <1>1, <1>2, FactorFacts DEF FactorTypeOK
<1> QED
  BY <1>1, <1>3, NothingTried, NobodyPasses, FactorHolds

\* A charge that is taken away was counted once.
LEMMA OneLess ==
  ASSUME FactorInv, NEW a \in charges
  PROVE  /\ Cardinality(charges \ {a}) \in Nat /\ Cardinality(charges \ {a}) + 1 = Cardinality(charges)
<1>1. IsFiniteSet(charges)
  BY FactorFacts
<1>2. /\ Cardinality(charges \ {a}) = Cardinality(charges) - 1
      /\ Cardinality(charges \ {a}) \in Nat /\ Cardinality(charges) \in Nat
  BY <1>1, FS_RemoveElement, FS_CardinalityType
<1> QED
  BY <1>2

\* A session gets past the factor.
LEMMA SessionPasses ==
  ASSUME FactorInv, NEW s \in AdminSessions, sessions' = [sessions EXCEPT ![s].under = factor.secret]
  PROVE  /\ sessions' \in [AdminSessions -> SessionType]
         /\ \A x \in AdminSessions : sessions'[x].under \in {sessions[x].under, factor.secret}
<1>1. PICK passed : passed = [sessions[s] EXCEPT !.under = factor.secret]
  OBVIOUS
<1>2. passed \in SessionType /\ passed.under = factor.secret
  BY <1>1, FactorFacts DEF SessionType
<1>3. sessions' = [sessions EXCEPT ![s] = passed]
  BY <1>1
<1> QED
  BY <1>2, <1>3, FactorFacts

\* An attempt that ends is idle.
LEMMA FinishOK ==
  ASSUME FactorInv, NEW a \in Attempts, attempts' = [attempts EXCEPT ![a] = IdleAttempt]
  PROVE  attempts' \in [Attempts -> AttemptType]
BY IdleAttemptType, FactorFacts

\* Passes keeps the invariant.
LEMMA PassesOK ==
  ASSUME FactorInv, NEW a \in Attempts, Passes(a)
  PROVE  FactorInv'
<1>1. PICK failed : failed = IF factor.failed = 0 THEN 0 ELSE factor.failed - 1
  OBVIOUS
<1>2. /\ a \in charges /\ factor.confirmed /\ sessions[attempts[a].session].live
      /\ factor' = [factor EXCEPT !.last_step = attempts[a].right, !.failed = failed]
      /\ sessions' = [sessions EXCEPT ![attempts[a].session].under = factor.secret]
      /\ charges' = charges \ {a} /\ attempts' = [attempts EXCEPT ![a] = IdleAttempt]
      /\ UNCHANGED <<admin, step, tried>>
  BY <1>1 DEF Passes, AtCheck, Chargeable, Finish
<1>3. failed \in 0 .. Lock /\ factor.failed <= failed + 1
  BY <1>1, FactorFacts
<1>4. factor' \in FactorType /\ factor'.failed = failed /\ factor'.confirmed = factor.confirmed
      /\ factor'.secret = factor.secret
  BY <1>2, <1>3, FactorFacts DEF FactorType
<1>5. /\ sessions' \in [AdminSessions -> SessionType]
      /\ \A x \in AdminSessions : sessions'[x].under \in {sessions[x].under, factor.secret}
  <2>1. CASE attempts[a].session \in AdminSessions
    BY <1>2, <2>1, SessionPasses
  <2>2. CASE attempts[a].session \notin AdminSessions
    BY <1>2, <2>2, FactorFacts
  <2> QED
    BY <2>1, <2>2
<1>6. FactorTypeOK'
  BY <1>2, <1>4, <1>5, FinishOK, FactorFacts DEF FactorTypeOK
<1>7. EveryGuessCounted'
  BY <1>2, <1>3, <1>4, OneLess, FactorFacts DEF FactorInv, EveryGuessCounted
<1>8. PassedUnderThisSecret'
  BY <1>2, <1>4, <1>5 DEF FactorInv, PassedUnderThisSecret
<1> QED
  BY <1>6, <1>7, <1>8, FactorHolds

\* Enrols keeps the invariant.
LEMMA EnrolsOK ==
  ASSUME FactorInv, NEW a \in Attempts, Enrols(a)
  PROVE  FactorInv'
<1>1. /\ factor' = [factor EXCEPT !.confirmed = TRUE, !.last_step = attempts[a].right, !.failed = 0, !.due = 0,
                                  !.ticket = FALSE, !.codes = RecoveryCodes]
      /\ sessions' = [s \in AdminSessions |->
                        IF s = attempts[a].session
                        THEN [sessions[s] EXCEPT !.under = factor.secret] ELSE NoSession]
      /\ charges' = {} /\ attempts' = [attempts EXCEPT ![a] = IdleAttempt]
      /\ tried' = Untried /\ UNCHANGED <<admin, step>>
  BY DEF Enrols, EnrolledFactor
<1>2. /\ factor \in FactorType /\ 0 \in 0 .. Lock /\ 0 \in 0 .. MaxLeaks
      /\ attempts[a].right \in 0 .. MaxStep + 1
  BY FactorFacts
<1>3. factor' \in FactorType
  BY <1>1, <1>2 DEF FactorType
<1>4. factor'.failed = 0 /\ factor'.confirmed /\ factor'.secret = factor.secret
  BY <1>1, <1>2 DEF FactorType
<1>5. \A s \in AdminSessions : /\ [sessions[s] EXCEPT !.under = factor.secret] \in SessionType
                               /\ [sessions[s] EXCEPT !.under = factor.secret].under = factor.secret
  BY FactorFacts DEF SessionType
<1>6. sessions' \in [AdminSessions -> SessionType]
  BY <1>1, <1>5, NoSessionType
<1>7. \A s \in AdminSessions : sessions'[s].under \in {0, factor.secret}
  BY <1>1, <1>5, NoSessionType
<1>8. FactorTypeOK'
  BY <1>1, <1>3, <1>6, FinishOK, UntriedType, FactorFacts DEF FactorTypeOK
<1>9. EveryGuessCounted'
  BY <1>1, <1>4, UntriedType, FS_EmptySet DEF EveryGuessCounted
<1>10. PassedUnderThisSecret'
  BY <1>4, <1>7 DEF PassedUnderThisSecret
<1> QED
  BY <1>8, <1>9, <1>10, FactorHolds

\* Fails keeps the invariant.
LEMMA FailsOK ==
  ASSUME FactorInv, NEW a \in Attempts, Fails(a)
  PROVE  FactorInv'
<1>1. /\ a \in charges /\ charges' = charges \ {a} /\ attempts' = [attempts EXCEPT ![a] = IdleAttempt]
      /\ tried' = [tried EXCEPT !.wrong = @ + 1] /\ UNCHANGED <<admin, sessions, factor, step>>
  BY DEF Fails, AtCheck, Finish
<1>2. tried' \in [wrong : Nat, leaked : Nat] /\ tried'.wrong = tried.wrong + 1 /\ tried'.leaked = tried.leaked
  BY <1>1, FactorFacts
<1>3. FactorTypeOK'
  BY <1>1, <1>2, FinishOK, FactorFacts DEF FactorTypeOK
<1>4. EveryGuessCounted'
  BY <1>1, <1>2, OneLess, FactorFacts DEF FactorInv, EveryGuessCounted
<1> QED
  BY <1>1, <1>3, <1>4, NobodyPasses, FactorHolds

\* UseRecoveryCode keeps the invariant.
LEMMA UseRecoveryCodeOK ==
  ASSUME FactorInv, NEW s \in AdminSessions, NEW code \in RecoveryCodes, UseRecoveryCode(s, code)
  PROVE  FactorInv'
<1>1. PICK codes, failed, due :
        /\ codes = factor.codes \ {code} /\ failed = IF factor.failed = Lock THEN Lock - 1 ELSE factor.failed
        /\ due = IF factor.failed = Lock THEN 0 ELSE factor.due
  OBVIOUS
<1>2. /\ factor.confirmed /\ factor' = [factor EXCEPT !.codes = codes, !.failed = failed, !.due = due]
      /\ charges' = IF factor.failed = Lock THEN {} ELSE charges
      /\ tried' = IF factor.failed = Lock THEN [wrong |-> Lock - 1, leaked |-> 0] ELSE tried
      /\ sessions' = [sessions EXCEPT ![s].under = factor.secret]
      /\ UNCHANGED <<admin, attempts, step>>
  BY <1>1 DEF UseRecoveryCode, RecoveredFactor
<1>3. codes \in SUBSET RecoveryCodes /\ failed \in 0 .. Lock /\ due \in 0 .. MaxLeaks
  BY <1>1, FactorFacts
<1>4. factor' \in FactorType /\ factor'.failed = failed /\ factor'.confirmed = factor.confirmed
      /\ factor'.secret = factor.secret
  BY <1>2, <1>3, FactorFacts DEF FactorType
<1>5. /\ sessions' \in [AdminSessions -> SessionType]
      /\ \A x \in AdminSessions : sessions'[x].under \in {sessions[x].under, factor.secret}
  BY <1>2, SessionPasses
<1>6. PassedUnderThisSecret'
  BY <1>2, <1>4, <1>5 DEF FactorInv, PassedUnderThisSecret
<1>7. CASE factor.failed = Lock
  <2>1. tried' = [wrong |-> Lock - 1, leaked |-> 0] /\ charges' = {} /\ failed = Lock - 1
    BY <1>1, <1>2, <1>7
  <2>2. tried' \in [wrong : Nat, leaked : Nat] /\ tried'.wrong = Lock - 1 /\ tried'.leaked = 0
    BY <2>1, FactorFacts
  <2>3. FactorTypeOK'
    BY <1>2, <1>4, <1>5, <2>1, <2>2, FactorFacts DEF FactorTypeOK
  <2>4. EveryGuessCounted'
    BY <1>4, <2>1, <2>2, FactorFacts, FS_EmptySet DEF EveryGuessCounted
  <2> QED
    BY <1>6, <2>3, <2>4, FactorHolds
<1>8. CASE factor.failed # Lock
  <2>1. UNCHANGED <<tried, charges>> /\ factor'.failed = factor.failed
    BY <1>1, <1>2, <1>4, <1>8
  <2>2. FactorTypeOK'
    BY <1>2, <1>4, <1>5, <2>1, FactorFacts DEF FactorTypeOK
  <2> QED
    BY <1>6, <2>1, <2>2, NothingTried, FactorHolds
<1> QED
  BY <1>7, <1>8

\* Time passing, in each of its forms, keeps the invariant.
LEMMA FactorTimeOK ==
  ASSUME FactorInv, NextStep \/ TicketExpires \/ LeakDue
  PROVE  FactorInv'
<1>1. /\ UNCHANGED <<admin, sessions, charges, attempts, tried>> /\ step' \in 1 .. MaxStep
      /\ factor' \in FactorType /\ factor'.failed = factor.failed /\ factor'.confirmed = factor.confirmed
      /\ factor'.secret = factor.secret
  <2>1. CASE NextStep
    BY <2>1, FactorFacts DEF NextStep
  <2>2. CASE TicketExpires
    BY <2>2, FactorFacts DEF TicketExpires, FactorType
  <2>3. CASE LeakDue
    <3>1. PICK due : due = factor.due + 1
      OBVIOUS
    <3>2. due \in 0 .. MaxLeaks
      BY <2>3, <3>1, FactorFacts DEF LeakDue
    <3>3. factor' = [factor EXCEPT !.due = due]
      BY <2>3, <3>1 DEF LeakDue
    <3>4. UNCHANGED <<admin, sessions, charges, attempts, step, tried>>
      BY <2>3 DEF LeakDue
    <3> QED
      BY <3>2, <3>3, <3>4, FactorFacts DEF FactorType
  <2> QED
    BY <2>1, <2>2, <2>3
<1>2. FactorTypeOK'
  BY <1>1, FactorFacts DEF FactorTypeOK
<1> QED
  BY <1>1, <1>2, NothingTried, NobodyPasses, FactorHolds

\* The invariant holds at the start.
LEMMA FactorStart == FactorInit => FactorInv
<1> SUFFICES ASSUME FactorInit PROVE FactorInv
  OBVIOUS
<1>1. /\ admin = TRUE /\ sessions = [s \in AdminSessions |-> NoSession] /\ charges = {} /\ step = 1
      /\ attempts = [a \in Attempts |-> IdleAttempt] /\ tried = Untried
      /\ factor = [ticket |-> FALSE, secret |-> 0, issued |-> 0, confirmed |-> FALSE, last_step |-> 0,
                   failed |-> 0, due |-> 0, codes |-> {}]
  BY DEF FactorInit
<1>2. factor \in FactorType /\ factor.failed = 0
  BY <1>1, SecondFactorAssumption DEF FactorType
<1>3. admin \in BOOLEAN /\ charges \subseteq Attempts /\ sessions \in [AdminSessions -> SessionType]
  BY <1>1, NoSessionType
<1>4. attempts \in [Attempts -> AttemptType] /\ tried \in [wrong : Nat, leaked : Nat]
  BY <1>1, IdleAttemptType, UntriedType
<1>5. step \in 1 .. MaxStep
  BY <1>1, SecondFactorAssumption
<1>6. FactorTypeOK
  BY <1>2, <1>3, <1>4, <1>5 DEF FactorTypeOK
<1>7. EveryGuessCounted /\ GuessesAreBounded
  BY <1>1, <1>2, UntriedType, FS_EmptySet, SecondFactorAssumption DEF EveryGuessCounted, GuessesAreBounded
<1>8. PassedUnderThisSecret
  BY <1>1, NoSessionType DEF PassedUnderThisSecret
<1> QED
  BY <1>6, <1>7, <1>8 DEF FactorInv

\* Every step keeps the invariant.
LEMMA FactorPreserved == FactorInv /\ [FactorNext]_factorVars => FactorInv'
<1> SUFFICES ASSUME FactorInv, [FactorNext]_factorVars PROVE FactorInv'
  OBVIOUS
<1>1. CASE UNCHANGED factorVars
  BY <1>1, FactorFacts, SessionsStep DEF factorVars
<1>2. CASE FactorNext
  <2>1. ASSUME NEW a \in Attempts,
               Charge(a) \/ Stop(a) \/ ChargeExpires(a) \/ Passes(a) \/ Enrols(a) \/ Fails(a)
        PROVE  FactorInv'
    BY <2>1, ChargeOK, StopOK, PassesOK, EnrolsOK, FailsOK
  <2>2. ASSUME NEW s \in AdminSessions, NEW old \in SUBSET AdminSessions, AdminSignIn(s, old) PROVE FactorInv'
    BY <2>2, AdminSignInOK
  <2>3. ASSUME NEW s \in AdminSessions, EndSession(s) \/ BeginEnrolment(s) PROVE FactorInv'
    BY <2>3, EndSessionOK, BeginEnrolmentOK
  <2>4. ASSUME NEW s \in AdminSessions, NEW code \in RecoveryCodes, UseRecoveryCode(s, code) PROVE FactorInv'
    BY <2>4, UseRecoveryCodeOK
  <2>5. ASSUME NEW a \in Attempts, NEW s \in AdminSessions, NEW kind \in {"pass", "enrol"},
               NEW right \in 0 .. MaxStep + 1, ReadSecret(a, s, kind, right)
        PROVE  FactorInv'
    BY <2>5, ReadSecretOK
  <2> QED
    BY <1>2, <2>1, <2>2, <2>3, <2>4, <2>5, AdminOK, IssueTicketOK, FactorTimeOK DEF FactorNext
<1> QED
  BY <1>1, <1>2

\* However many codes are tried at once, cut off between the charge and the check, or left to expire, and
\* however often the operator wipes the factor or its enrolment is begun again (charge_second_factor,
\* check_second_factor, ISSUE_TICKET, begin_totp_enrolment): every guess is counted, so no more wrong codes
\* are looked at than the lock and the leaks allow, and who is past the factor passed it under the secret of now.
THEOREM FactorSound == FactorSpec => []FactorInv
BY FactorStart, FactorPreserved, PTL DEF FactorSpec

\* The step of the last code never goes back under a confirmed factor, and each pass moves it on.
LEMMA StepsGoForward ==
  FactorInv /\ [FactorNext]_factorVars =>
    [factor.confirmed /\ factor'.confirmed =>
       /\ factor'.last_step >= factor.last_step
       /\ (\E a \in Attempts : Passes(a)) => factor'.last_step > factor.last_step]_factorVars
<1> SUFFICES ASSUME FactorInv, FactorNext, factor.confirmed, factor'.confirmed
             PROVE  /\ factor'.last_step >= factor.last_step
                    /\ (\E a \in Attempts : Passes(a)) => factor'.last_step > factor.last_step
  OBVIOUS
<1>1. ASSUME NEW a \in Attempts, Passes(a) PROVE factor'.last_step > factor.last_step
  <2>1. factor'.last_step = attempts[a].right
    BY <1>1, FactorFacts DEF Passes, FactorType
  <2>2. attempts[a].right > factor.last_step
    BY <1>1 DEF Passes, GoodCode
  <2> QED
    BY <2>1, <2>2
<1>2. ASSUME \A a \in Attempts : ~ Passes(a) PROVE factor'.last_step = factor.last_step
  <2>1. CASE IssueTicket
    <3>1. ~ factor'.confirmed
      BY <2>1, FactorFacts DEF IssueTicket, FactorType
    <3> QED
      BY <3>1
  <2>2. ASSUME NEW s \in AdminSessions, NEW code \in RecoveryCodes, UseRecoveryCode(s, code)
        PROVE  factor'.last_step = factor.last_step
    BY <2>2, FactorFacts DEF UseRecoveryCode, RecoveredFactor, FactorType
  <2>3. ASSUME NEW a \in Attempts, Charge(a) PROVE factor'.last_step = factor.last_step
    <3>1. PICK failed, due : factor' = [factor EXCEPT !.failed = failed, !.due = due]
      BY <2>3 DEF Charge
    <3> QED
      BY <3>1, FactorFacts DEF FactorType
  <2>4. CASE TicketExpires \/ LeakDue
    BY <2>4, FactorFacts DEF TicketExpires, LeakDue, FactorType
  <2>5. ASSUME NEW a \in Attempts, Enrols(a) PROVE FALSE
    BY <2>5 DEF Enrols, AtCheck, Chargeable
  <2>6. ASSUME NEW s \in AdminSessions, BeginEnrolment(s) PROVE FALSE
    BY <2>6 DEF BeginEnrolment
  <2> QED
    BY <1>2, <2>1, <2>2, <2>3, <2>4, <2>5, <2>6
    DEF FactorNext, ResetSignsOut, Grant, Revoke, AdminSignIn, EndSession, ReadSecret, Stop, ChargeExpires,
        Fails, NextStep
<1>3. CASE \E a \in Attempts : Passes(a)
  <2>1. factor'.last_step > factor.last_step
    BY <1>1, <1>3
  <2>2. factor'.last_step \in 0 .. MaxStep + 1
    BY FactorPreserved DEF FactorInv, FactorTypeOK, FactorType
  <2>3. factor'.last_step >= factor.last_step
    BY <2>1, <2>2, FactorFacts
  <2> QED
    BY <2>1, <2>3
<1>4. CASE ~ \E a \in Attempts : Passes(a)
  <2>1. factor'.last_step = factor.last_step /\ factor.last_step >= factor.last_step
    BY <1>2, <1>4, FactorFacts
  <2> QED
    BY <1>4, <2>1
<1> QED
  BY <1>3, <1>4

\* A code passes once, and the step of the last one never goes back while the factor stands: whatever two
\* browsers, a recovery code or a leak do at the same time (check_second_factor's last_step).
THEOREM CodesPassOnce == FactorSpec => NoReplay
<1>1. FactorInv /\ [FactorNext]_factorVars =>
        [factor.confirmed /\ factor'.confirmed =>
           /\ factor'.last_step >= factor.last_step
           /\ (\E a \in Attempts : Passes(a)) => factor'.last_step > factor.last_step]_factorVars
  BY StepsGoForward
<1> QED
  BY <1>1, FactorSound, PTL DEF FactorSpec, NoReplay

-----------------------------------------------------------------------------
(* The contact e-mail *)

\* A business that queued a link has a place at the inbox, and the places are few.
PlacesOK ==
  \A a \in Addresses :
    /\ queued[a] \subseteq Senders(a) /\ IsFiniteSet(Senders(a))
    /\ Cardinality(Senders(a) \ exempted[a]) <= MaxSenders

\* What a save claims a place for is an address.
ClaimsOK ==
  \A x \in Saves : saves[x].pc = "claim" \/ saves[x].kind = "resend" => saves[x].email \in Addresses

\* The secret that works is the newest, and went to the address that waits.
WaitingOK ==
  /\ waiting.live => waiting.email \in Addresses
  /\ waiting.hash # 0 => waiting.hash = Len(mailed) /\ mailed[Len(mailed)] = waiting.email

ContactIInv == ContactTypeOK /\ PlacesOK /\ ClaimsOK /\ WaitingOK

Places == {"none", "claimed", "linked"}

\* The types of the state, of the records in it and of the bounds, for the provers.
LEMMA ContactFacts ==
  ASSUME ContactIInv
  PROVE  /\ contact \in Addresses \cup {NoAddress} /\ waiting \in WaitingType /\ confirmations \subseteq Addresses
         /\ senders \in [Addresses -> [Businesses -> Places]] /\ saves \in [Saves -> SaveType]
         /\ mailed \in Seq(Addresses) /\ Len(mailed) <= MaxMailed /\ Len(mailed) \in Nat
         /\ queued \in [Addresses -> SUBSET Businesses] /\ exempted \in [Addresses -> SUBSET Businesses]
         /\ waiting.email \in Addresses \cup {NoAddress} /\ waiting.hash \in 0 .. MaxMailed
         /\ \A x \in Saves : saves[x] \in SaveType /\ saves[x].email \in Addresses \cup {NoAddress}
         /\ MaxSenders \in Nat /\ MaxMailed \in Nat /\ This \in Businesses /\ NoAddress \notin Addresses
<1>1. /\ contact \in Addresses \cup {NoAddress} /\ waiting \in WaitingType /\ confirmations \subseteq Addresses
      /\ senders \in [Addresses -> [Businesses -> Places]] /\ saves \in [Saves -> SaveType]
      /\ mailed \in Seq(Addresses) /\ Len(mailed) <= MaxMailed
      /\ queued \in [Addresses -> SUBSET Businesses] /\ exempted \in [Addresses -> SUBSET Businesses]
  BY DEF ContactIInv, ContactTypeOK, Places
<1>2. waiting.email \in Addresses \cup {NoAddress} /\ waiting.hash \in 0 .. MaxMailed
  BY <1>1 DEF WaitingType
<1>3. \A x \in SaveType : x.email \in Addresses \cup {NoAddress}
  BY DEF SaveType
<1> QED
  BY <1>1, <1>2, <1>3, ContactEmailAssumption

\* The records of nothing waiting and of no save are well formed.
LEMMA ContactRecords ==
  /\ NotWaiting \in WaitingType /\ ~ NotWaiting.live /\ NotWaiting.hash = 0
  /\ IdleSave \in SaveType /\ IdleSave.pc = "idle" /\ IdleSave.kind = "change"
BY ContactEmailAssumption DEF NotWaiting, WaitingType, IdleSave, SaveType

\* A request just made waits for its address, and no secret of it works yet.
LEMMA NewRequestFields ==
  ASSUME NEW a \in Addresses
  PROVE  /\ NewRequest(a) \in WaitingType /\ NewRequest(a).email = a /\ NewRequest(a).hash = 0
BY ContactEmailAssumption DEF NewRequest, WaitingType

\* A save that ends claims nothing any more.
LEMMA SaveEndsOK ==
  ASSUME ContactIInv, NEW x \in Saves, saves' = [saves EXCEPT ![x] = IdleSave]
  PROVE  saves' \in [Saves -> SaveType] /\ ClaimsOK'
<1>1. saves' \in [Saves -> SaveType] /\ \A y \in Saves : saves'[y] = IdleSave \/ saves'[y] = saves[y]
  BY ContactRecords, ContactFacts
<1> QED
  BY <1>1, ContactRecords DEF ContactIInv, ClaimsOK

\* No place is taken or given up.
LEMMA PlacesStay ==
  ASSUME ContactIInv, UNCHANGED <<senders, queued, exempted>>
  PROVE  PlacesOK'
BY DEF ContactIInv, PlacesOK, Senders

\* A save that begins, of either kind, keeps the invariant.
LEMMA BeginSaveContactOK ==
  ASSUME ContactIInv, NEW x \in Saves,
         BeginResend(x) \/ \E a \in Addresses \cup {NoAddress} : BeginChange(x, a)
  PROVE  ContactIInv'
<1>1. UNCHANGED <<contact, waiting, confirmations, senders, mailed, queued, exempted>>
  BY DEF BeginResend, BeginChange
<1>2. PICK save \in SaveType :
        /\ saves' = [saves EXCEPT ![x] = save]
        /\ save.pc = "claim" \/ save.kind = "resend" => save.email \in Addresses
  <2>1. CASE BeginResend(x)
    <3>1. PICK save : save = [pc |-> "claim", kind |-> "resend", email |-> waiting.email, claimed |-> FALSE]
      OBVIOUS
    <3>2. waiting.email \in Addresses
      BY <2>1, ContactFacts DEF BeginResend
    <3>3. save \in SaveType /\ save.email \in Addresses
      BY <3>1, <3>2 DEF SaveType
    <3>4. saves' = [saves EXCEPT ![x] = save]
      BY <2>1, <3>1 DEF BeginResend
    <3> QED
      BY <3>3, <3>4
  <2>2. ASSUME NEW a \in Addresses \cup {NoAddress}, BeginChange(x, a)
        PROVE  \E save \in SaveType :
                 /\ saves' = [saves EXCEPT ![x] = save]
                 /\ save.pc = "claim" \/ save.kind = "resend" => save.email \in Addresses
    <3>1. PICK pc \in {"claim", "write"} : pc = IF WillSend(a) THEN "claim" ELSE "write"
      OBVIOUS
    <3>2. PICK save : save = [pc |-> pc, kind |-> "change", email |-> a, claimed |-> FALSE]
      OBVIOUS
    <3>3. save \in SaveType /\ save.email = a /\ save.pc = pc /\ save.kind = "change"
      BY <3>1, <3>2 DEF SaveType
    <3>4. saves' = [saves EXCEPT ![x] = save]
      BY <2>2, <3>1, <3>2 DEF BeginChange
    <3>5. save.pc = "claim" => save.email \in Addresses
      BY <3>1, <3>3 DEF WillSend
    <3> QED
      BY <3>3, <3>4, <3>5
  <2> QED
    BY <2>1, <2>2
<1>3. saves' \in [Saves -> SaveType] /\ \A y \in Saves : saves'[y] = IF y = x THEN save ELSE saves[y]
  BY <1>2, ContactFacts
<1>4. ClaimsOK'
  BY <1>2, <1>3 DEF ContactIInv, ClaimsOK
<1>5. ContactTypeOK'
  BY <1>1, <1>3, ContactFacts DEF ContactTypeOK, Places
<1>6. WaitingOK'
  BY <1>1 DEF ContactIInv, WaitingOK
<1> QED
  BY <1>1, <1>4, <1>5, <1>6, PlacesStay DEF ContactIInv

\* One business's place at one inbox is written.
LEMMA PlaceWritten ==
  ASSUME ContactIInv, NEW a \in Addresses, NEW b \in Businesses, NEW place \in Places,
         senders' = [senders EXCEPT ![a][b] = place]
  PROVE  /\ senders' \in [Addresses -> [Businesses -> Places]]
         /\ \A e \in Addresses : e # a => Senders(e)' = Senders(e)
         /\ place # "none" => Senders(a)' = Senders(a) \cup {b}
         /\ place = "none" => Senders(a)' = Senders(a) \ {b}
<1>1. PICK row : row = [senders[a] EXCEPT ![b] = place]
  OBVIOUS
<1>2. row \in [Businesses -> Places] /\ row[b] = place /\ \A c \in Businesses : c # b => row[c] = senders[a][c]
  BY <1>1, ContactFacts
<1>3. senders' = [senders EXCEPT ![a] = row]
  BY <1>1
<1>4. /\ senders' \in [Addresses -> [Businesses -> Places]] /\ senders'[a] = row
      /\ \A e \in Addresses : e # a => senders'[e] = senders[e]
  BY <1>2, <1>3, ContactFacts
<1> QED
  BY <1>2, <1>4 DEF Senders

\* Part of a finite set is no larger.
LEMMA FewerPlaces ==
  ASSUME NEW S, IsFiniteSet(S), NEW n \in Nat, Cardinality(S) <= n, NEW T \in SUBSET S
  PROVE  IsFiniteSet(T) /\ Cardinality(T) <= n
<1>1. IsFiniteSet(T) /\ Cardinality(T) <= Cardinality(S)
  BY FS_Subset
<1>2. Cardinality(T) \in Nat /\ Cardinality(S) \in Nat
  BY <1>1, FS_CardinalityType
<1> QED
  BY <1>1, <1>2

\* One more place where there was one free stays within the limit.
LEMMA PlaceTaken ==
  ASSUME NEW S, IsFiniteSet(S), NEW n \in Nat, Cardinality(S) < n, NEW b
  PROVE  Cardinality(S \cup {b}) <= n
<1>1. Cardinality(S) \in Nat /\ Cardinality(S \cup {b}) = IF b \in S THEN Cardinality(S) ELSE Cardinality(S) + 1
  BY FS_CardinalityType, FS_AddElement
<1> QED
  BY <1>1

\* ... and what is queued from it.
LEMMA PlaceStep ==
  ASSUME ContactIInv, NEW a \in Addresses, NEW b \in Businesses, NEW place \in Places,
         senders' = [senders EXCEPT ![a][b] = place],
         \A e \in Addresses : e # a => queued'[e] = queued[e] /\ exempted'[e] = exempted[e],
         queued'[a] \subseteq queued[a] \cup {b}, b \in queued'[a] => place # "none",
         Cardinality(Senders(a)' \ exempted'[a]) <= MaxSenders
  PROVE  PlacesOK'
<1>1. /\ \A e \in Addresses : e # a => Senders(e)' = Senders(e)
      /\ place # "none" => Senders(a)' = Senders(a) \cup {b}
      /\ place = "none" => Senders(a)' = Senders(a) \ {b}
  BY PlaceWritten
<1>2. queued[a] \subseteq Senders(a) /\ IsFiniteSet(Senders(a))
  BY DEF ContactIInv, PlacesOK
<1>3. IsFiniteSet(Senders(a) \cup {b}) /\ IsFiniteSet(Senders(a) \ {b})
  BY <1>2, FS_AddElement, FS_RemoveElement
<1>4. queued'[a] \subseteq Senders(a)' /\ IsFiniteSet(Senders(a)')
  BY <1>1, <1>2, <1>3
<1>5. ASSUME NEW e \in Addresses, e # a
      PROVE  /\ queued'[e] \subseteq Senders(e)' /\ IsFiniteSet(Senders(e)')
             /\ Cardinality(Senders(e)' \ exempted'[e]) <= MaxSenders
  BY <1>1, <1>5 DEF ContactIInv, PlacesOK
<1>6. \A e \in Addresses : /\ queued'[e] \subseteq Senders(e)' /\ IsFiniteSet(Senders(e)')
                           /\ Cardinality(Senders(e)' \ exempted'[e]) <= MaxSenders
  BY <1>4, <1>5
<1> QED
  BY <1>6 DEF PlacesOK

\* A business that has its place keeps it.
LEMMA PlaceKept ==
  ASSUME ContactIInv, NEW a \in Addresses, NEW b \in Senders(a), NEW exempt, exempted[a] \subseteq exempt
  PROVE  Senders(a) \cup {b} = Senders(a) /\ Cardinality(Senders(a) \ exempt) <= MaxSenders
<1>1. IsFiniteSet(Senders(a)) /\ Cardinality(Senders(a) \ exempted[a]) <= MaxSenders
  BY DEF ContactIInv, PlacesOK
<1>2. IsFiniteSet(Senders(a) \ exempted[a]) /\ Senders(a) \ exempt \subseteq Senders(a) \ exempted[a]
  BY <1>1, FS_Subset
<1> QED
  BY <1>1, <1>2, FewerPlaces, ContactFacts

\* Claim keeps the invariant.
LEMMA ClaimOK ==
  ASSUME ContactIInv, NEW x \in Saves, Claim(x)
  PROVE  ContactIInv'
<1>1. PICK a : a = saves[x].email
  OBVIOUS
<1>2. a \in Addresses
  BY <1>1 DEF Claim, ContactIInv, ClaimsOK
<1>3. PICK place \in {"claimed", "linked"} : place = IF senders[a][This] = "linked" THEN "linked" ELSE "claimed"
  OBVIOUS
<1>4. PICK exempt : exempt = IF Exempt(x) THEN exempted[a] \cup {This} ELSE exempted[a]
  OBVIOUS
<1>5. /\ Claimable(x) /\ UNCHANGED <<contact, waiting, confirmations, mailed, queued>>
      /\ saves' = [saves EXCEPT ![x].pc = "write", ![x].claimed = TRUE]
  BY DEF Claim
<1>6. senders' = [senders EXCEPT ![a][This] = place]
  <2>1. senders' = [senders EXCEPT ![a][This] = IF @ = "linked" THEN @ ELSE "claimed"]
    BY <1>1 DEF Claim
  <2> QED
    BY <1>3, <2>1
<1>7. /\ exempted' \in [Addresses -> SUBSET Businesses] /\ exempted'[a] = exempt
      /\ \A e \in Addresses : e # a => exempted'[e] = exempted[e]
  <2>1. exempted' = IF Exempt(x) THEN [exempted EXCEPT ![a] = @ \cup {This}] ELSE exempted
    BY <1>1 DEF Claim
  <2> QED
    BY <1>2, <1>4, <2>1, ContactFacts
<1>8. Claimable(x) =
        (senders[a][This] # "none" \/ Exempt(x) \/ Cardinality(Senders(a) \ {This}) < MaxSenders)
  BY <1>1 DEF Claimable
<1>9. place \in Places /\ place # "none" /\ This \in Businesses
  BY <1>3, ContactFacts DEF Places
<1>20. /\ senders' \in [Addresses -> [Businesses -> Places]]
      /\ Senders(a)' = Senders(a) \cup {This}
  BY <1>2, <1>6, <1>9, PlaceWritten
<1>21. Cardinality(Senders(a)' \ exempted'[a]) <= MaxSenders
  <2>1. IsFiniteSet(Senders(a)) /\ Cardinality(Senders(a) \ exempted[a]) <= MaxSenders /\ MaxSenders \in Nat
    BY <1>2, ContactFacts DEF ContactIInv, PlacesOK
  <2>2. exempted[a] \subseteq exempt
    BY <1>4
  <2>3. CASE senders[a][This] # "none"
    <3>1. This \in Senders(a)
      BY <1>9, <2>3 DEF Senders
    <3> QED
      BY <1>2, <1>7, <1>20, <2>2, <3>1, PlaceKept
  <2>4. CASE Exempt(x)
    <3>1. Senders(a)' \ exempted'[a] \subseteq Senders(a) \ exempted[a]
      BY <1>4, <1>7, <1>20, <2>4
    <3>2. IsFiniteSet(Senders(a) \ exempted[a])
      BY <2>1, FS_Subset
    <3> QED
      BY <2>1, <3>1, <3>2, FewerPlaces
  <2>5. CASE Cardinality(Senders(a) \ {This}) < MaxSenders
    <3>1. IsFiniteSet(Senders(a) \ {This})
      BY <2>1, FS_RemoveElement
    <3>2. Cardinality((Senders(a) \ {This}) \cup {This}) <= MaxSenders
      BY <2>1, <2>5, <3>1, PlaceTaken
    <3>3. IsFiniteSet((Senders(a) \ {This}) \cup {This})
      BY <3>1, FS_AddElement
    <3>4. Senders(a)' \ exempted'[a] \subseteq (Senders(a) \ {This}) \cup {This}
      BY <1>20
    <3> QED
      BY <2>1, <3>2, <3>3, <3>4, FewerPlaces
  <2> QED
    BY <1>5, <1>8, <2>3, <2>4, <2>5
<1>22. PlacesOK'
  <2>1. \A e \in Addresses : e # a => queued'[e] = queued[e] /\ exempted'[e] = exempted[e]
    BY <1>5, <1>7
  <2>2. queued'[a] \subseteq queued[a] \cup {This}
    BY <1>5
  <2> QED
    BY <1>2, <1>6, <1>9, <1>21, <2>1, <2>2, PlaceStep
<1>23. saves' \in [Saves -> SaveType] /\ ClaimsOK'
  <2>1. PICK save : save = [saves[x] EXCEPT !.pc = "write", !.claimed = TRUE]
    OBVIOUS
  <2>2. save \in SaveType /\ save.pc = "write" /\ save.kind = saves[x].kind /\ save.email = saves[x].email
    BY <2>1, ContactFacts DEF SaveType
  <2>3. saves' = [saves EXCEPT ![x] = save]
    BY <1>5, <2>1, ContactFacts
  <2>4. saves' \in [Saves -> SaveType] /\ \A y \in Saves : saves'[y] = IF y = x THEN save ELSE saves[y]
    BY <2>2, <2>3, ContactFacts
  <2> QED
    BY <2>2, <2>4 DEF ContactIInv, ClaimsOK
<1>24. ContactTypeOK'
  BY <1>5, <1>7, <1>20, <1>23, ContactFacts DEF ContactTypeOK, Places
<1>25. WaitingOK'
  BY <1>5 DEF ContactIInv, WaitingOK
<1> QED
  BY <1>22, <1>23, <1>24, <1>25 DEF ContactIInv

\* Refuse keeps the invariant.
LEMMA RefuseOK ==
  ASSUME ContactIInv, NEW x \in Saves, Refuse(x)
  PROVE  ContactIInv'
<1>1. /\ saves' = [saves EXCEPT ![x] = IdleSave]
      /\ UNCHANGED <<contact, waiting, confirmations, senders, mailed, queued, exempted>>
  BY DEF Refuse
<1>2. saves' \in [Saves -> SaveType] /\ ClaimsOK'
  BY <1>1, SaveEndsOK
<1>3. ContactTypeOK'
  BY <1>1, <1>2, ContactFacts DEF ContactTypeOK, Places
<1>4. WaitingOK'
  BY <1>1 DEF ContactIInv, WaitingOK
<1> QED
  BY <1>1, <1>2, <1>3, <1>4, PlacesStay DEF ContactIInv

\* A link is queued to the inbox that was claimed.
LEMMA LinkQueued ==
  ASSUME ContactIInv, NEW x \in Saves, saves[x].email \in Addresses, SendContactLink(x, saves[x].email),
         UNCHANGED exempted
  PROVE  /\ PlacesOK' /\ senders' \in [Addresses -> [Businesses -> Places]]
         /\ queued' \in [Addresses -> SUBSET Businesses]
<1>1. PICK a \in Addresses : a = saves[x].email
  OBVIOUS
<1>2. /\ senders[a][This] # "none" /\ senders' = [senders EXCEPT ![a][This] = "linked"]
      /\ queued' = [queued EXCEPT ![a] = @ \cup {This}]
  BY <1>1 DEF SendContactLink
<1>3. "linked" \in Places /\ "linked" # "none" /\ This \in Businesses
  BY ContactFacts DEF Places
<1>4. This \in Senders(a)
  BY <1>2, <1>3 DEF Senders
<1>5. Senders(a)' = Senders(a) \cup {This} /\ senders' \in [Addresses -> [Businesses -> Places]]
  BY <1>2, <1>3, PlaceWritten
<1>6. Cardinality(Senders(a)' \ exempted'[a]) <= MaxSenders
  BY <1>4, <1>5, PlaceKept
<1>7. /\ queued' \in [Addresses -> SUBSET Businesses] /\ queued'[a] \subseteq queued[a] \cup {This}
      /\ \A e \in Addresses : e # a => queued'[e] = queued[e] /\ exempted'[e] = exempted[e]
  BY <1>2, <1>3, ContactFacts
<1>8. PlacesOK'
  BY <1>2, <1>3, <1>6, <1>7, PlaceStep
<1> QED
  BY <1>5, <1>7, <1>8

\* The address waits, or no longer does.
LEMMA WaitingStep ==
  ASSUME NEW w, w \in WaitingType, w.live => w.email \in Addresses, w.hash = 0, waiting' = w
  PROVE  waiting' \in WaitingType /\ WaitingOK'
BY DEF WaitingOK

\* Change keeps the invariant.
LEMMA ChangeOK ==
  ASSUME ContactIInv, NEW x \in Saves, Change(x)
  PROVE  ContactIInv'
<1>1. PICK a : a = saves[x].email
  OBVIOUS
<1>2. a \in Addresses \cup {NoAddress} /\ NoAddress \notin Addresses
  BY <1>1, ContactFacts
<1>3. PICK outcome \in {"cleared", "kept", "unchanged", "requested"} : outcome = Outcome(a)
  BY DEF Outcome
<1>4. /\ contact' = IF outcome = "cleared" THEN NoAddress ELSE contact
      /\ waiting' = CASE outcome \in {"cleared", "kept"} -> NotWaiting
                      [] outcome = "requested" -> NewRequest(a)
                      [] OTHER -> waiting
      /\ saves' = [saves EXCEPT ![x] = IdleSave] /\ UNCHANGED <<confirmations, mailed, exempted>>
      /\ IF outcome = "requested" THEN SendContactLink(x, a) ELSE UNCHANGED <<senders, queued>>
  BY <1>1, <1>3 DEF Change
<1>5. outcome = "requested" => a \in Addresses
  BY <1>2, <1>3 DEF Outcome
<1>6. contact' \in Addresses \cup {NoAddress}
  BY <1>4, ContactFacts
<1>7. saves' \in [Saves -> SaveType] /\ ClaimsOK'
  BY <1>4, SaveEndsOK
<1>8. /\ PlacesOK' /\ senders' \in [Addresses -> [Businesses -> Places]]
      /\ queued' \in [Addresses -> SUBSET Businesses]
  <2>1. CASE outcome = "requested"
    BY <1>1, <1>4, <1>5, <2>1, LinkQueued
  <2>2. CASE outcome # "requested"
    BY <1>4, <2>2, PlacesStay, ContactFacts
  <2> QED
    BY <2>1, <2>2
<1>9. waiting' \in WaitingType /\ WaitingOK'
  <2>1. CASE outcome \in {"cleared", "kept"}
    <3>1. waiting' = NotWaiting
      BY <1>4, <2>1
    <3> QED
      BY <3>1, ContactRecords, WaitingStep
  <2>2. CASE outcome = "requested"
    <3>1. waiting' = NewRequest(a) /\ a \in Addresses
      BY <1>4, <1>5, <2>2
    <3> QED
      BY <3>1, NewRequestFields, WaitingStep
  <2>3. CASE outcome = "unchanged"
    <3>1. UNCHANGED <<waiting, mailed>>
      BY <1>4, <2>3
    <3> QED
      BY <3>1, ContactFacts DEF ContactIInv, WaitingOK
  <2> QED
    BY <2>1, <2>2, <2>3
<1>10. ContactTypeOK'
  BY <1>4, <1>6, <1>7, <1>8, <1>9, ContactFacts DEF ContactTypeOK, Places
<1> QED
  BY <1>7, <1>8, <1>9, <1>10 DEF ContactIInv

\* Resend keeps the invariant.
LEMMA ResendOK ==
  ASSUME ContactIInv, NEW x \in Saves, Resend(x)
  PROVE  ContactIInv'
<1>1. PICK a : a = saves[x].email
  OBVIOUS
<1>2. /\ a \in Addresses /\ waiting' = NewRequest(a) /\ SendContactLink(x, a)
      /\ saves' = [saves EXCEPT ![x] = IdleSave] /\ UNCHANGED <<contact, confirmations, mailed, exempted>>
  BY <1>1 DEF Resend, Resendable, ContactIInv, ClaimsOK
<1>3. saves' \in [Saves -> SaveType] /\ ClaimsOK'
  BY <1>2, SaveEndsOK
<1>4. /\ PlacesOK' /\ senders' \in [Addresses -> [Businesses -> Places]]
      /\ queued' \in [Addresses -> SUBSET Businesses]
  BY <1>1, <1>2, LinkQueued
<1>5. waiting' \in WaitingType /\ WaitingOK'
  BY <1>2, NewRequestFields, WaitingStep
<1>6. ContactTypeOK'
  BY <1>2, <1>3, <1>4, <1>5, ContactFacts DEF ContactTypeOK, Places
<1> QED
  BY <1>3, <1>4, <1>5, <1>6 DEF ContactIInv

\* Only the request, the address and what was mailed change.
LEMMA RequestStep ==
  ASSUME ContactIInv, contact' \in Addresses \cup {NoAddress}, waiting' \in WaitingType,
         confirmations' \subseteq Addresses, mailed' \in Seq(Addresses), Len(mailed') <= MaxMailed,
         WaitingOK', UNCHANGED <<senders, saves, queued, exempted>>
  PROVE  ContactIInv'
<1>1. ContactTypeOK'
  BY ContactFacts DEF ContactTypeOK, Places
<1>2. ClaimsOK'
  BY DEF ContactIInv, ClaimsOK
<1> QED
  BY <1>1, <1>2, PlacesStay DEF ContactIInv

\* CancelRequest keeps the invariant.
LEMMA CancelRequestOK ==
  ASSUME ContactIInv, CancelRequest
  PROVE  ContactIInv'
<1>1. waiting' = NotWaiting /\ UNCHANGED <<contact, confirmations, senders, saves, mailed, queued, exempted>>
  BY DEF CancelRequest
<1>2. waiting' \in WaitingType /\ WaitingOK'
  BY <1>1, ContactRecords, WaitingStep
<1> QED
  BY <1>1, <1>2, ContactFacts, RequestStep

\* MintContactLink keeps the invariant.
LEMMA MintContactLinkOK ==
  ASSUME ContactIInv, MintContactLink
  PROVE  ContactIInv'
<1>1. PICK n : n = Len(mailed) + 1
  OBVIOUS
<1>2. /\ waiting.live /\ Len(mailed) < MaxMailed /\ waiting' = [waiting EXCEPT !.hash = n]
      /\ mailed' = Append(mailed, waiting.email)
      /\ UNCHANGED <<contact, confirmations, senders, saves, queued, exempted>>
  BY <1>1 DEF MintContactLink
<1>3. waiting.email \in Addresses
  BY <1>2 DEF ContactIInv, WaitingOK
<1>4. n \in 0 .. MaxMailed
  BY <1>1, <1>2, ContactFacts
<1>5. /\ waiting' \in WaitingType /\ waiting'.hash = n /\ waiting'.email = waiting.email
  BY <1>2, <1>4, ContactFacts DEF WaitingType
<1>6. /\ mailed' \in Seq(Addresses) /\ Len(mailed') = n /\ mailed'[n] = waiting.email
  BY <1>1, <1>2, <1>3, ContactFacts
<1>7. WaitingOK'
  BY <1>3, <1>5, <1>6 DEF WaitingOK
<1>8. Len(mailed') <= MaxMailed
  BY <1>4, <1>6
<1> QED
  BY <1>2, <1>5, <1>6, <1>7, <1>8, ContactFacts, RequestStep

\* ConfirmContact keeps the invariant.
LEMMA ConfirmContactOK ==
  ASSUME ContactIInv, NEW n \in DOMAIN mailed, ConfirmContact(n)
  PROVE  ContactIInv'
<1>1. /\ waiting.live /\ contact' = waiting.email /\ waiting' = NotWaiting
      /\ confirmations' = confirmations \cup {waiting.email}
      /\ UNCHANGED <<senders, saves, mailed, queued, exempted>>
  BY DEF ConfirmContact
<1>2. waiting.email \in Addresses
  BY <1>1 DEF ContactIInv, WaitingOK
<1>3. waiting' \in WaitingType /\ WaitingOK'
  BY <1>1, ContactRecords, WaitingStep
<1>4. contact' \in Addresses \cup {NoAddress} /\ confirmations' \subseteq Addresses
  BY <1>1, <1>2, ContactFacts
<1> QED
  BY <1>1, <1>3, <1>4, ContactFacts, RequestStep

\* A link that runs out, or whose requester is another now, keeps the invariant.
LEMMA RequestAgesOK ==
  ASSUME ContactIInv, ContactLinkExpires \/ RequesterChanges
  PROVE  ContactIInv'
<1>1. UNCHANGED <<contact, confirmations, senders, saves, mailed, queued, exempted>>
  BY DEF ContactLinkExpires, RequesterChanges
<1>2. /\ waiting' \in WaitingType /\ waiting'.hash = waiting.hash /\ waiting'.email = waiting.email
      /\ waiting'.live => waiting.live
  BY ContactFacts DEF ContactLinkExpires, RequesterChanges, WaitingType
<1>3. WaitingOK'
  BY <1>1, <1>2 DEF ContactIInv, WaitingOK
<1> QED
  BY <1>1, <1>2, <1>3, ContactFacts, RequestStep

\* Only places at an inbox change.
LEMMA InboxStep ==
  ASSUME ContactIInv, PlacesOK', senders' \in [Addresses -> [Businesses -> Places]],
         queued' \in [Addresses -> SUBSET Businesses], exempted' \in [Addresses -> SUBSET Businesses],
         UNCHANGED <<contact, waiting, confirmations, saves, mailed>>
  PROVE  ContactIInv'
<1>1. ContactTypeOK'
  BY ContactFacts DEF ContactTypeOK, Places
<1>2. ClaimsOK' /\ WaitingOK'
  BY DEF ContactIInv, ClaimsOK, WaitingOK
<1> QED
  BY <1>1, <1>2 DEF ContactIInv

\* PlaceLapses keeps the invariant.
LEMMA PlaceLapsesOK ==
  ASSUME ContactIInv, NEW a \in Addresses, NEW b \in Businesses, PlaceLapses(a, b)
  PROVE  ContactIInv'
<1>1. PICK held \in BOOLEAN : held = \E x \in Saves : b = This /\ saves[x].claimed /\ saves[x].email = a
  OBVIOUS
<1>2. PICK place \in {"claimed", "none"} : place = IF held THEN "claimed" ELSE "none"
  OBVIOUS
<1>3. /\ senders[a][b] # "none" /\ senders' = [senders EXCEPT ![a][b] = place]
      /\ exempted' = IF held THEN exempted ELSE [exempted EXCEPT ![a] = @ \ {b}]
      /\ queued' = [queued EXCEPT ![a] = @ \ {b}]
      /\ UNCHANGED <<contact, waiting, confirmations, saves, mailed>>
  BY <1>1, <1>2 DEF PlaceLapses
<1>4. place \in Places /\ (held => place # "none") /\ (~ held => place = "none")
  BY <1>2 DEF Places
<1>5. /\ queued' \in [Addresses -> SUBSET Businesses] /\ queued'[a] \subseteq queued[a] /\ b \notin queued'[a]
      /\ \A e \in Addresses : e # a => queued'[e] = queued[e]
  BY <1>3, ContactFacts
<1>6. /\ exempted' \in [Addresses -> SUBSET Businesses] /\ exempted[a] \subseteq exempted'[a] \cup {b}
      /\ (held => exempted'[a] = exempted[a]) /\ \A e \in Addresses : e # a => exempted'[e] = exempted[e]
  BY <1>3, ContactFacts
<1>7. /\ senders' \in [Addresses -> [Businesses -> Places]]
      /\ place # "none" => Senders(a)' = Senders(a) \cup {b}
      /\ place = "none" => Senders(a)' = Senders(a) \ {b}
  BY <1>3, <1>4, PlaceWritten
<1>8. b \in Senders(a)
  BY <1>3 DEF Senders
<1>9. Senders(a)' \ exempted'[a] \subseteq Senders(a) \ exempted[a]
  BY <1>4, <1>6, <1>7, <1>8
<1>10. Cardinality(Senders(a)' \ exempted'[a]) <= MaxSenders
  <2>1. /\ IsFiniteSet(Senders(a)) /\ Cardinality(Senders(a) \ exempted[a]) <= MaxSenders /\ MaxSenders \in Nat
    BY ContactFacts DEF ContactIInv, PlacesOK
  <2>2. IsFiniteSet(Senders(a) \ exempted[a])
    BY <2>1, FS_Subset
  <2> QED
    BY <1>9, <2>1, <2>2, FewerPlaces
<1>11. PlacesOK'
  BY <1>3, <1>4, <1>5, <1>6, <1>10, PlaceStep
<1> QED
  BY <1>3, <1>5, <1>6, <1>7, <1>11, InboxStep

\* OtherClaims keeps the invariant.
LEMMA OtherClaimsOK ==
  ASSUME ContactIInv, NEW a \in Addresses, NEW b \in Businesses, OtherClaims(a, b)
  PROVE  ContactIInv'
<1>1. /\ Cardinality(Senders(a)) < MaxSenders /\ senders' = [senders EXCEPT ![a][b] = "claimed"]
      /\ UNCHANGED <<contact, waiting, confirmations, saves, mailed, queued, exempted>>
  BY DEF OtherClaims
<1>2. "claimed" \in Places /\ "claimed" # "none" /\ MaxSenders \in Nat
  BY ContactFacts DEF Places
<1>3. senders' \in [Addresses -> [Businesses -> Places]] /\ Senders(a)' = Senders(a) \cup {b}
  BY <1>1, <1>2, PlaceWritten
<1>4. IsFiniteSet(Senders(a))
  BY DEF ContactIInv, PlacesOK
<1>5. Cardinality(Senders(a) \cup {b}) <= MaxSenders /\ IsFiniteSet(Senders(a) \cup {b})
  BY <1>1, <1>2, <1>4, PlaceTaken, FS_AddElement
<1>6. Senders(a)' \ exempted'[a] \subseteq Senders(a) \cup {b}
  BY <1>3
<1>7. Cardinality(Senders(a)' \ exempted'[a]) <= MaxSenders
  BY <1>2, <1>5, <1>6, FewerPlaces
<1>8. PlacesOK'
  BY <1>1, <1>2, <1>7, PlaceStep
<1> QED
  BY <1>1, <1>3, <1>8, ContactFacts, InboxStep

\* OtherLinks keeps the invariant.
LEMMA OtherLinksOK ==
  ASSUME ContactIInv, NEW a \in Addresses, NEW b \in Businesses, OtherLinks(a, b)
  PROVE  ContactIInv'
<1>1. /\ senders[a][b] # "none" /\ senders' = [senders EXCEPT ![a][b] = "linked"]
      /\ queued' = [queued EXCEPT ![a] = @ \cup {b}]
      /\ UNCHANGED <<contact, waiting, confirmations, saves, mailed, exempted>>
  BY DEF OtherLinks
<1>2. "linked" \in Places /\ "linked" # "none"
  BY DEF Places
<1>3. senders' \in [Addresses -> [Businesses -> Places]] /\ Senders(a)' = Senders(a) \cup {b}
  BY <1>1, <1>2, PlaceWritten
<1>4. b \in Senders(a)
  BY <1>1 DEF Senders
<1>5. Cardinality(Senders(a)' \ exempted'[a]) <= MaxSenders
  BY <1>1, <1>3, <1>4, PlaceKept
<1>6. /\ queued' \in [Addresses -> SUBSET Businesses] /\ queued'[a] \subseteq queued[a] \cup {b}
      /\ \A e \in Addresses : e # a => queued'[e] = queued[e] /\ exempted'[e] = exempted[e]
  BY <1>1, ContactFacts
<1>7. PlacesOK'
  BY <1>1, <1>2, <1>5, <1>6, PlaceStep
<1> QED
  BY <1>1, <1>3, <1>6, <1>7, ContactFacts, InboxStep

\* The invariant holds at the start.
LEMMA ContactStart == ContactInit => ContactIInv
<1> SUFFICES ASSUME ContactInit PROVE ContactIInv
  OBVIOUS
<1>1. /\ contact = NoAddress /\ confirmations = {} /\ mailed = << >>
      /\ senders = [a \in Addresses |-> [b \in Businesses |-> "none"]] /\ saves = [x \in Saves |-> IdleSave]
      /\ queued = [a \in Addresses |-> {}] /\ exempted = [a \in Addresses |-> {}]
  BY DEF ContactInit
<1>2. PICK moved \in Addresses \cup {NoAddress} : waiting = [NotWaiting EXCEPT !.email = moved]
  BY DEF ContactInit
<1>3. waiting \in WaitingType /\ ~ waiting.live /\ waiting.hash = 0
  <2>1. waiting = [email |-> moved, live |-> FALSE, hash |-> 0, requester |-> "nobody"]
    BY <1>2 DEF NotWaiting
  <2>2. 0 \in 0 .. MaxMailed
    BY ContactEmailAssumption
  <2>3. waiting \in WaitingType
    BY <2>1, <2>2 DEF WaitingType
  <2> QED
    BY <2>1, <2>3
<1>4. senders \in [Addresses -> [Businesses -> {"none", "claimed", "linked"}]]
  BY <1>1
<1>5. saves \in [Saves -> SaveType]
  BY <1>1, ContactRecords
<1>6. mailed \in Seq(Addresses) /\ Len(mailed) <= MaxMailed
  BY <1>1, ContactEmailAssumption
<1>7. ContactTypeOK
  BY <1>1, <1>3, <1>4, <1>5, <1>6 DEF ContactTypeOK
<1>8. PlacesOK
  <2>1. \A a \in Addresses : Senders(a) = {} /\ queued[a] = {} /\ Senders(a) \ exempted[a] = {}
    BY <1>1 DEF Senders
  <2> QED
    BY <2>1, FS_EmptySet, ContactEmailAssumption DEF PlacesOK
<1>9. ClaimsOK
  BY <1>1, ContactRecords DEF ClaimsOK
<1>10. WaitingOK
  BY <1>3 DEF WaitingOK
<1> QED
  BY <1>7, <1>8, <1>9, <1>10 DEF ContactIInv

\* Every step keeps the invariant.
LEMMA ContactPreserved == ContactIInv /\ [ContactNext]_contactVars => ContactIInv'
<1> SUFFICES ASSUME ContactIInv, [ContactNext]_contactVars PROVE ContactIInv'
  OBVIOUS
<1>1. CASE UNCHANGED contactVars
  <2>1. UNCHANGED <<contact, waiting, confirmations, senders, saves, mailed, queued, exempted>>
    BY <1>1 DEF contactVars
  <2>2. WaitingOK'
    BY <2>1 DEF ContactIInv, WaitingOK
  <2> QED
    BY <2>1, <2>2, ContactFacts, RequestStep
<1>2. CASE ContactNext
  <2>1. ASSUME NEW x \in Saves, BeginResend(x) \/ Claim(x) \/ Refuse(x) \/ Change(x) \/ Resend(x)
        PROVE  ContactIInv'
    BY <2>1, BeginSaveContactOK, ClaimOK, RefuseOK, ChangeOK, ResendOK
  <2>2. ASSUME NEW a \in Addresses, NEW b \in Businesses,
               PlaceLapses(a, b) \/ OtherClaims(a, b) \/ OtherLinks(a, b)
        PROVE  ContactIInv'
    BY <2>2, PlaceLapsesOK, OtherClaimsOK, OtherLinksOK
  <2> QED
    BY <1>2, <2>1, <2>2, BeginSaveContactOK, CancelRequestOK, MintContactLinkOK, RequestAgesOK, ConfirmContactOK
    DEF ContactNext
<1> QED
  BY <1>1, <1>2

\* However many saves of several businesses, and of two owners of one, look, claim and write at once
\* (change, resend, _claim, SENDERS): in a day no more businesses queue a link to one inbox than may,
\* those not counted that have a right to it.
THEOREM ContactSound == ContactSpec => []ContactInv
<1>1. ContactIInv => ContactInv
  <2> SUFFICES ASSUME ContactIInv PROVE InboxNotFlooded
    BY DEF ContactIInv, ContactInv
  <2> SUFFICES ASSUME NEW a \in Addresses PROVE Cardinality(queued[a] \ exempted[a]) <= MaxSenders
    BY DEF InboxNotFlooded
  <2>1. /\ queued[a] \subseteq Senders(a) /\ IsFiniteSet(Senders(a)) /\ MaxSenders \in Nat
        /\ Cardinality(Senders(a) \ exempted[a]) <= MaxSenders
    BY ContactFacts DEF ContactIInv, PlacesOK
  <2>2. IsFiniteSet(Senders(a) \ exempted[a]) /\ queued[a] \ exempted[a] \subseteq Senders(a) \ exempted[a]
    BY <2>1, FS_Subset
  <2> QED
    BY <2>1, <2>2, FewerPlaces
<1> QED
  BY <1>1, ContactStart, ContactPreserved, PTL DEF ContactSpec

\* An address is shown only in the step that used the newest link, mailed to it.
LEMMA ConfirmedByTheNewest ==
  ContactIInv /\ [ContactNext]_contactVars =>
    [contact' \notin {contact, NoAddress} => mailed # << >> /\ mailed[Len(mailed)] = contact']_contactVars
<1> SUFFICES ASSUME ContactIInv, ContactNext, contact' \notin {contact, NoAddress}
             PROVE  mailed # << >> /\ mailed[Len(mailed)] = contact'
  OBVIOUS
<1>1. PICK n \in DOMAIN mailed : ConfirmContact(n)
  BY DEF ContactNext, BeginChange, BeginResend, Claim, Refuse, Change, Resend, CancelRequest, MintContactLink,
         ContactLinkExpires, RequesterChanges, PlaceLapses, OtherClaims, OtherLinks
<1>2. n \in 1 .. Len(mailed) /\ Len(mailed) \in Nat
  BY ContactFacts
<1>3. waiting.hash = n /\ n # 0 /\ contact' = waiting.email
  BY <1>1, <1>2 DEF ConfirmContact
<1>4. n = Len(mailed) /\ mailed[Len(mailed)] = waiting.email
  BY <1>3 DEF ContactIInv, WaitingOK
<1>5. mailed # << >>
  BY <1>2, ContactFacts
<1> QED
  BY <1>3, <1>4, <1>5

\* An address becomes the one clients see only by the newest link, which was mailed to that very inbox:
\* whatever is changed, resent, cancelled or confirmed meanwhile (confirm_contact_email).
THEOREM InboxConfirms == ContactSpec => ConfirmedByItsInbox
<1>1. ContactSpec => []ContactIInv
  BY ContactStart, ContactPreserved, PTL DEF ContactSpec
<1> QED
  BY <1>1, ConfirmedByTheNewest, PTL DEF ContactSpec, ConfirmedByItsInbox

-----------------------------------------------------------------------------
(* Accounts and members *)

\* A secret that opens something is the newest minted for it, its own, and not used yet.
LinksOK ==
  /\ \A n \in 1 .. MaxSecret : n > minted => uses[n] = {}
  /\ \A l \in LinkIds :
       /\ links[l].purpose = "none" => links[l].hash = 0
       /\ links[l].purpose # "none" => links[l].person \in Persons
       /\ links[l].hash <= minted /\ (links[l].hash # 0 => uses[links[l].hash] = {})
  /\ \A p \in Persons :
       /\ invites[p].hash <= minted
       /\ invites[p].hash # 0 => invites[p].open /\ uses[invites[p].hash] = {}
  /\ \A l, k \in LinkIds : links[l].hash # 0 /\ links[l].hash = links[k].hash => l = k
  /\ \A p, q \in Persons : invites[p].hash # 0 /\ invites[p].hash = invites[q].hash => p = q
  /\ \A l \in LinkIds, p \in Persons : links[l].hash # 0 => links[l].hash # invites[p].hash

\* A tab with a sign-up link was opened after the setup.
TabsOK ==
  \A x \in Tabs :
    /\ tabs[x].pc \in {"setup", "accept", "manage"} => tabs[x].person \in Persons
    /\ tabs[x].secret <= minted /\ (tabs[x].pc = "accept" => tabs[x].secret # 0)
    /\ tabs[x].pc = "link" =>
         \A l \in Opens(tabs[x].secret) : links[l].purpose # "password_reset" => ~ NeedsSetup

\* Before the setup there is no business to belong to.
SetupOK ==
  NeedsSetup => /\ \A p \in Persons : roles[p] = "none" /\ ~ invites[p].open
                /\ \A x \in Tabs : tabs[x].pc \notin {"accept", "manage"}

MembersIInv == MembersInv /\ LinksOK /\ TabsOK /\ SetupOK

Roles == {"none", "owner", "worker", "removed"}

\* The types of the state and of the records in it, for the provers.
LEMMA MembersFacts ==
  ASSUME MembersIInv
  PROVE  /\ hashes \in [Persons -> 0 .. MaxHash] /\ installer \in Persons \cup {NoPerson}
         /\ roles \in [Persons -> Roles] /\ invites \in [Persons -> InviteType]
         /\ links \in [LinkIds -> LinkType] /\ minted \in 0 .. MaxSecret /\ tabs \in [Tabs -> TabType]
         /\ uses \in [1 .. MaxSecret -> SUBSET {"account", "reset", "joined"}]
         /\ \A p \in Persons : invites[p] \in InviteType /\ invites[p].hash \in 0 .. MaxSecret
         /\ \A l \in LinkIds : links[l] \in LinkType /\ links[l].hash \in 0 .. MaxSecret
         /\ \A x \in Tabs : tabs[x] \in TabType /\ tabs[x].secret \in 0 .. MaxSecret
         /\ MaxHash \in Nat \ {0} /\ MaxSecret \in Nat /\ NoPerson \notin Persons
<1>1. /\ hashes \in [Persons -> 0 .. MaxHash] /\ installer \in Persons \cup {NoPerson}
      /\ roles \in [Persons -> Roles] /\ invites \in [Persons -> InviteType]
      /\ links \in [LinkIds -> LinkType] /\ minted \in 0 .. MaxSecret /\ tabs \in [Tabs -> TabType]
      /\ uses \in [1 .. MaxSecret -> SUBSET {"account", "reset", "joined"}]
  BY DEF MembersIInv, MembersInv, MembersTypeOK, Roles
<1>2. /\ \A i \in InviteType : i.hash \in 0 .. MaxSecret
      /\ \A l \in LinkType : l.hash \in 0 .. MaxSecret
      /\ \A x \in TabType : x.secret \in 0 .. MaxSecret
  BY DEF InviteType, LinkType, TabType
<1> QED
  BY <1>1, <1>2, MembersAssumption

\* The records of no invite, no link and an idle tab are well formed and open nothing.
LEMMA MembersRecords ==
  /\ NoInvite \in InviteType /\ ~ NoInvite.open /\ NoInvite.hash = 0
  /\ NoLink \in LinkType /\ NoLink.purpose = "none" /\ NoLink.hash = 0
  /\ IdleTab \in TabType /\ IdleTab.pc = "idle" /\ IdleTab.secret = 0
BY MembersAssumption DEF NoInvite, InviteType, NoLink, LinkType, IdleTab, TabType

\* The parts of the invariant that a step has to account for.
LEMMA MembersHold ==
  ASSUME MembersTypeOK', NobodyBeforeTheAdmin', LinksOK', TabsOK', SetupOK'
  PROVE  MembersIInv'
BY DEF MembersIInv, MembersInv

\* A tab is opened, or closed.
LEMMA TabWritten ==
  ASSUME MembersIInv, NEW x \in Tabs, NEW tab \in TabType, tabs' = [tabs EXCEPT ![x] = tab]
  PROVE  tabs' \in [Tabs -> TabType] /\ \A y \in Tabs : tabs'[y] = IF y = x THEN tab ELSE tabs[y]
BY MembersFacts

\* A step of one tab alone keeps the invariant if what the tab has looked up is so.
LEMMA TabStep ==
  ASSUME MembersIInv, NEW x \in Tabs, NEW tab \in TabType, tabs' = [tabs EXCEPT ![x] = tab],
         tab.pc \in {"setup", "accept", "manage"} => tab.person \in Persons,
         tab.secret <= minted, tab.pc = "accept" => tab.secret # 0,
         tab.pc = "link" => \A l \in Opens(tab.secret) : links[l].purpose # "password_reset" => ~ NeedsSetup,
         tab.pc \in {"accept", "manage"} => ~ NeedsSetup,
         UNCHANGED <<hashes, installer, roles, invites, links, minted, uses>>
  PROVE  MembersIInv'
<1>1. tabs' \in [Tabs -> TabType] /\ \A y \in Tabs : tabs'[y] = IF y = x THEN tab ELSE tabs[y]
  BY TabWritten
<1>2. MembersTypeOK'
  BY <1>1, MembersFacts DEF MembersTypeOK, Roles
<1>3. NobodyBeforeTheAdmin' /\ LinksOK'
  BY DEF MembersIInv, MembersInv, NobodyBeforeTheAdmin, LinksOK
<1>4. TabsOK'
  BY <1>1 DEF MembersIInv, TabsOK, Opens, NeedsSetup
<1>5. SetupOK'
  BY <1>1 DEF MembersIInv, SetupOK, NeedsSetup
<1> QED
  BY <1>2, <1>3, <1>4, <1>5, MembersHold

\* BeginSetup keeps the invariant.
LEMMA BeginSetupOK ==
  ASSUME MembersIInv, NEW x \in Tabs, NEW p \in Persons, BeginSetup(x, p)
  PROVE  MembersIInv'
<1>1. PICK tab : tab = [IdleTab EXCEPT !.pc = "setup", !.person = p]
  OBVIOUS
<1>2. tab \in TabType /\ tab.pc = "setup" /\ tab.person = p /\ tab.secret = 0
  BY <1>1, MembersRecords DEF TabType
<1>3. /\ tabs' = [tabs EXCEPT ![x] = tab] /\ UNCHANGED <<hashes, installer, roles, invites, links, minted, uses>>
  BY <1>1 DEF BeginSetup
<1>4. tab.secret <= minted
  BY <1>2, MembersFacts
<1> QED
  BY <1>2, <1>3, <1>4, TabStep

\* Manage keeps the invariant.
LEMMA ManageOK ==
  ASSUME MembersIInv, NEW x \in Tabs, NEW p \in Persons, Manage(x, p)
  PROVE  MembersIInv'
<1>1. PICK tab : tab = [IdleTab EXCEPT !.pc = "manage", !.person = p]
  OBVIOUS
<1>2. tab \in TabType /\ tab.pc = "manage" /\ tab.person = p /\ tab.secret = 0
  BY <1>1, MembersRecords DEF TabType
<1>3. /\ tabs' = [tabs EXCEPT ![x] = tab] /\ UNCHANGED <<hashes, installer, roles, invites, links, minted, uses>>
      /\ roles[p] = "owner"
  BY <1>1 DEF Manage
<1>4. ~ NeedsSetup
  BY <1>3 DEF MembersIInv, SetupOK
<1>5. tab.secret <= minted
  BY <1>2, MembersFacts
<1> QED
  BY <1>2, <1>3, <1>4, <1>5, TabStep

\* FindInvite keeps the invariant.
LEMMA FindInviteOK ==
  ASSUME MembersIInv, NEW x \in Tabs, NEW p \in Persons, FindInvite(x, p)
  PROVE  MembersIInv'
<1>1. PICK tab : tab = [pc |-> "accept", person |-> p, secret |-> invites[p].hash, version |-> hashes[p]]
  OBVIOUS
<1>2. tab \in TabType /\ tab.pc = "accept" /\ tab.person = p /\ tab.secret = invites[p].hash
  BY <1>1, MembersFacts DEF TabType
<1>3. /\ tabs' = [tabs EXCEPT ![x] = tab] /\ UNCHANGED <<hashes, installer, roles, invites, links, minted, uses>>
      /\ invites[p].hash # 0
  BY <1>1 DEF FindInvite
<1>4. ~ NeedsSetup /\ tab.secret <= minted
  BY <1>2, <1>3 DEF MembersIInv, SetupOK, LinksOK
<1> QED
  BY <1>2, <1>3, <1>4, MembersFacts, TabStep

\* OpenLink keeps the invariant.
LEMMA OpenLinkOK ==
  ASSUME MembersIInv, NEW x \in Tabs, NEW l \in LinkIds, OpenLink(x, l)
  PROVE  MembersIInv'
<1>1. PICK tab : tab = [IdleTab EXCEPT !.pc = "link", !.secret = links[l].hash]
  OBVIOUS
<1>2. tab \in TabType /\ tab.pc = "link" /\ tab.secret = links[l].hash
  BY <1>1, MembersRecords, MembersFacts DEF TabType
<1>3. /\ tabs' = [tabs EXCEPT ![x] = tab] /\ UNCHANGED <<hashes, installer, roles, invites, links, minted, uses>>
      /\ links[l].hash # 0 /\ (links[l].purpose # "password_reset" => ~ NeedsSetup)
  BY <1>1 DEF OpenLink
<1>4. tab.secret <= minted
  BY <1>2 DEF MembersIInv, LinksOK
<1>5. \A k \in Opens(tab.secret) : k = l
  BY <1>2, <1>3 DEF Opens, MembersIInv, LinksOK
<1> QED
  BY <1>2, <1>3, <1>4, <1>5, TabStep

\* GiveUp keeps the invariant.
LEMMA GiveUpOK ==
  ASSUME MembersIInv, NEW x \in Tabs, GiveUp(x)
  PROVE  MembersIInv'
<1>1. /\ tabs' = [tabs EXCEPT ![x] = IdleTab] /\ UNCHANGED <<hashes, installer, roles, invites, links, minted, uses>>
  BY DEF GiveUp, Close
<1>2. IdleTab.secret <= minted
  BY MembersRecords, MembersFacts
<1> QED
  BY <1>1, <1>2, MembersRecords, TabStep

\* Rows are used up, dropped or begun anew, and a secret is used with its row.
LEMMA SecretsKept ==
  ASSUME MembersIInv, UNCHANGED minted,
         \A l \in LinkIds : \/ links'[l] = links[l]
                            \/ links'[l].hash = 0 /\ (links'[l].purpose # "none" => links'[l].person \in Persons),
         \A p \in Persons : invites'[p] = invites[p] \/ invites'[p].hash = 0,
         \A n \in 1 .. MaxSecret :
           \/ uses'[n] = uses[n]
           \/ /\ n <= minted /\ \A l \in LinkIds : links'[l].hash # n
              /\ \A p \in Persons : invites'[p].hash # n
  PROVE  LinksOK'
<1>1. /\ \A l \in LinkIds : links[l].hash \in 0 .. MaxSecret /\ links[l].hash <= minted
      /\ \A p \in Persons : invites[p].hash \in 0 .. MaxSecret /\ invites[p].hash <= minted
      /\ minted \in 0 .. MaxSecret
  BY MembersFacts DEF MembersIInv, LinksOK
<1>2. \A n \in 1 .. MaxSecret : n > minted => uses'[n] = {}
  BY <1>1 DEF MembersIInv, LinksOK
<1>3. ASSUME NEW l \in LinkIds
      PROVE  /\ links'[l].purpose = "none" => links'[l].hash = 0
             /\ links'[l].purpose # "none" => links'[l].person \in Persons
             /\ links'[l].hash <= minted' /\ (links'[l].hash # 0 => uses'[links'[l].hash] = {})
  BY <1>1 DEF MembersIInv, LinksOK
<1>4. ASSUME NEW p \in Persons
      PROVE  /\ invites'[p].hash <= minted'
             /\ invites'[p].hash # 0 => invites'[p].open /\ uses'[invites'[p].hash] = {}
  BY <1>1 DEF MembersIInv, LinksOK
<1>5. /\ \A l, k \in LinkIds : links'[l].hash # 0 /\ links'[l].hash = links'[k].hash => l = k
      /\ \A p, q \in Persons : invites'[p].hash # 0 /\ invites'[p].hash = invites'[q].hash => p = q
      /\ \A l \in LinkIds, p \in Persons : links'[l].hash # 0 => links'[l].hash # invites'[p].hash
  BY DEF MembersIInv, LinksOK
<1> QED
  BY <1>2, <1>3, <1>4, <1>5 DEF LinksOK

\* What a tab's secret opens may go, and nothing else comes to be opened by it.
LEMMA TabsKept ==
  ASSUME MembersIInv, minted' \in Nat, minted <= minted', NeedsSetup' => NeedsSetup,
         \A l \in LinkIds : links'[l] = links[l] \/ links'[l].hash = 0 \/ links'[l].hash = minted + 1,
         \A x \in Tabs : tabs'[x] = tabs[x] \/ tabs'[x] = IdleTab
  PROVE  TabsOK'
<1> SUFFICES ASSUME NEW x \in Tabs
             PROVE  /\ tabs'[x].pc \in {"setup", "accept", "manage"} => tabs'[x].person \in Persons
                    /\ tabs'[x].secret <= minted' /\ (tabs'[x].pc = "accept" => tabs'[x].secret # 0)
                    /\ \A l \in LinkIds :
                         tabs'[x].pc = "link" /\ tabs'[x].secret # 0 /\ links'[l].purpose # "none"
                           /\ links'[l].hash = tabs'[x].secret /\ links'[l].purpose # "password_reset" =>
                         ~ NeedsSetup'
  BY DEF TabsOK, Opens
<1>1. CASE tabs'[x] = IdleTab
  BY <1>1, MembersRecords, MembersFacts
<1>2. CASE tabs'[x] = tabs[x]
  <2>1. /\ tabs[x].pc \in {"setup", "accept", "manage"} => tabs[x].person \in Persons
        /\ tabs[x].secret <= minted /\ (tabs[x].pc = "accept" => tabs[x].secret # 0)
        /\ tabs[x].secret \in Nat /\ minted \in Nat
    BY MembersFacts DEF MembersIInv, TabsOK
  <2>2. ASSUME NEW l \in LinkIds, tabs[x].pc = "link", links'[l].purpose # "password_reset",
               tabs[x].secret # 0, links'[l].purpose # "none", links'[l].hash = tabs[x].secret
        PROVE  ~ NeedsSetup'
    <3>1. links'[l] = links[l]
      BY <2>1, <2>2
    <3>2. l \in Opens(tabs[x].secret)
      BY <2>2, <3>1 DEF Opens
    <3> QED
      BY <2>2, <3>1, <3>2 DEF MembersIInv, TabsOK
  <2> QED
    BY <1>2, <2>1, <2>2
<1> QED
  BY <1>1, <1>2

\* A tab that closes leaves the others.
LEMMA CloseOK ==
  ASSUME MembersIInv, NEW x \in Tabs, Close(x)
  PROVE  /\ tabs' \in [Tabs -> TabType] /\ tabs'[x] = IdleTab
         /\ \A y \in Tabs : y # x => tabs'[y] = tabs[y]
         /\ \A y \in Tabs : tabs'[y] = tabs[y] \/ tabs'[y] = IdleTab
BY TabWritten, MembersRecords DEF Close

\* CompleteSetup keeps the invariant.
LEMMA CompleteSetupOK ==
  ASSUME MembersIInv, NEW x \in Tabs, CompleteSetup(x)
  PROVE  MembersIInv'
<1>1. PICK p : p = tabs[x].person
  OBVIOUS
<1>2. p \in Persons /\ Close(x) /\ UNCHANGED <<roles, invites, links, minted, uses>>
  BY <1>1 DEF CompleteSetup, MembersIInv, TabsOK
<1>3. /\ tabs' \in [Tabs -> TabType] /\ \A y \in Tabs : tabs'[y] = tabs[y] \/ tabs'[y] = IdleTab
  BY <1>2, CloseOK
<1>4. LinksOK'
  BY <1>2, SecretsKept
<1>5. CASE ~ NeedsSetup
  <2>1. UNCHANGED <<hashes, installer>>
    BY <1>5 DEF CompleteSetup
  <2>2. MembersTypeOK'
    BY <1>2, <1>3, <2>1, MembersFacts DEF MembersTypeOK, Roles
  <2>3. NobodyBeforeTheAdmin' /\ ~ NeedsSetup'
    BY <1>5, <2>1 DEF MembersIInv, MembersInv, NobodyBeforeTheAdmin, NeedsSetup
  <2>4. TabsOK'
    BY <1>2, <1>3, <2>3, MembersFacts, TabsKept
  <2>5. SetupOK'
    BY <2>3 DEF SetupOK
  <2> QED
    BY <1>4, <2>2, <2>3, <2>4, <2>5, MembersHold
<1>6. CASE NeedsSetup
  <2>1. hashes' = [hashes EXCEPT ![p] = 1] /\ installer' = p
    BY <1>1, <1>6 DEF CompleteSetup
  <2>2. hashes' \in [Persons -> 0 .. MaxHash] /\ hashes'[p] = 1
    BY <1>2, <2>1, MembersFacts
  <2>3. MembersTypeOK'
    BY <1>2, <1>3, <2>1, <2>2, MembersFacts DEF MembersTypeOK, Roles
  <2>4. NobodyBeforeTheAdmin' /\ ~ NeedsSetup'
    BY <1>2, <2>1, <2>2, MembersFacts DEF NobodyBeforeTheAdmin, NeedsSetup
  <2>5. TabsOK'
    BY <1>2, <1>3, <2>4, MembersFacts, TabsKept
  <2>6. SetupOK'
    BY <2>4 DEF SetupOK
  <2> QED
    BY <1>4, <2>3, <2>4, <2>5, <2>6, MembersHold
<1> QED
  BY <1>5, <1>6

\* Only the links' rows change.
LEMMA LinksStep ==
  ASSUME MembersIInv, links' \in [LinkIds -> LinkType], minted' \in 0 .. MaxSecret, minted <= minted', LinksOK',
         \A l \in LinkIds : links'[l] = links[l] \/ links'[l].hash = 0 \/ links'[l].hash = minted + 1,
         UNCHANGED <<hashes, installer, roles, invites, tabs, uses>>
  PROVE  MembersIInv'
<1>1. MembersTypeOK'
  BY MembersFacts DEF MembersTypeOK, Roles
<1>2. NobodyBeforeTheAdmin' /\ NeedsSetup' = NeedsSetup /\ SetupOK'
  BY DEF MembersIInv, MembersInv, NobodyBeforeTheAdmin, NeedsSetup, SetupOK
<1>3. TabsOK'
  BY <1>2, MembersFacts, TabsKept
<1> QED
  BY <1>1, <1>2, <1>3, MembersHold

\* SendLink keeps the invariant.
LEMMA SendLinkOK ==
  ASSUME MembersIInv, NEW l \in LinkIds, NEW purpose \in Purposes, NEW p \in Persons, SendLink(l, purpose, p)
  PROVE  MembersIInv'
<1>1. PICK link : link = [purpose |-> purpose, person |-> p, hash |-> 0]
  OBVIOUS
<1>2. link \in LinkType /\ link.purpose = purpose /\ link.person = p /\ link.hash = 0
  BY <1>1, MembersAssumption DEF LinkType
<1>3. links' = [links EXCEPT ![l] = link] /\ UNCHANGED <<hashes, installer, roles, invites, minted, tabs, uses>>
  BY <1>1 DEF SendLink
<1>4. links' \in [LinkIds -> LinkType] /\ \A k \in LinkIds : links'[k] = links[k] \/ links'[k] = link
  BY <1>2, <1>3, MembersFacts
<1>5. LinksOK'
  BY <1>2, <1>3, <1>4, SecretsKept
<1> QED
  BY <1>2, <1>3, <1>4, <1>5, MembersFacts, LinksStep

\* Taking a link away keeps the invariant.
LEMMA LinkGone ==
  ASSUME MembersIInv, NEW l \in LinkIds, links' = [links EXCEPT ![l] = NoLink],
         UNCHANGED <<hashes, installer, roles, invites, minted, tabs, uses>>
  PROVE  MembersIInv'
<1>1. links' \in [LinkIds -> LinkType] /\ \A k \in LinkIds : links'[k] = links[k] \/ links'[k] = NoLink
  BY MembersRecords, MembersFacts
<1>2. LinksOK'
  BY <1>1, MembersRecords, SecretsKept
<1> QED
  BY <1>1, <1>2, MembersRecords, MembersFacts, LinksStep

\* SendToken keeps the invariant.
LEMMA SendTokenOK ==
  ASSUME MembersIInv, NEW l \in LinkIds, SendToken(l)
  PROVE  MembersIInv'
<1>1. /\ links[l].purpose # "none" /\ minted < MaxSecret
      /\ UNCHANGED <<hashes, installer, roles, invites, tabs, uses>>
  BY DEF SendToken
<1>2. CASE links' = [links EXCEPT ![l] = NoLink] /\ UNCHANGED minted
  BY <1>1, <1>2, LinkGone
<1>3. CASE links' = [links EXCEPT ![l].hash = minted + 1] /\ minted' = minted + 1
  <2>1. PICK n, link : n = minted + 1 /\ link = [links[l] EXCEPT !.hash = n]
    OBVIOUS
  <2>2. n \in 0 .. MaxSecret /\ n # 0 /\ n > minted /\ minted \in Nat
    BY <1>1, <2>1, MembersFacts
  <2>3. /\ link \in LinkType /\ link.purpose = links[l].purpose /\ link.person = links[l].person
        /\ link.hash = n
    BY <2>1, <2>2, MembersFacts DEF LinkType
  <2>4. links' = [links EXCEPT ![l] = link] /\ minted' = n
    BY <1>3, <2>1
  <2>5. links' \in [LinkIds -> LinkType] /\ \A k \in LinkIds : links'[k] = IF k = l THEN link ELSE links[k]
    BY <2>3, <2>4, MembersFacts
  <2>6. /\ \A k \in LinkIds : links[k].hash \in Nat /\ links[k].hash <= minted
        /\ \A p \in Persons : invites[p].hash \in Nat /\ invites[p].hash <= minted
    BY MembersFacts DEF MembersIInv, LinksOK
  <2>7. uses[n] = {} /\ links[l].person \in Persons
    BY <1>1, <2>2 DEF MembersIInv, LinksOK
  <2>8. LinksOK'
    <3>1. \A m \in 1 .. MaxSecret : m > minted' => uses'[m] = {}
      BY <1>1, <2>2, <2>4 DEF MembersIInv, LinksOK
    <3>2. ASSUME NEW k \in LinkIds
          PROVE  /\ links'[k].purpose = "none" => links'[k].hash = 0
                 /\ links'[k].purpose # "none" => links'[k].person \in Persons
                 /\ links'[k].hash <= minted' /\ (links'[k].hash # 0 => uses'[links'[k].hash] = {})
      BY <1>1, <2>2, <2>3, <2>4, <2>5, <2>6, <2>7 DEF MembersIInv, LinksOK
    <3>3. ASSUME NEW p \in Persons
          PROVE  /\ invites'[p].hash <= minted'
                 /\ invites'[p].hash # 0 => invites'[p].open /\ uses'[invites'[p].hash] = {}
      BY <1>1, <2>2, <2>4, <2>6 DEF MembersIInv, LinksOK
    <3>4. \A k, j \in LinkIds : links'[k].hash # 0 /\ links'[k].hash = links'[j].hash => k = j
      BY <2>2, <2>3, <2>5, <2>6 DEF MembersIInv, LinksOK
    <3>5. \A k \in LinkIds, p \in Persons : links'[k].hash # 0 => links'[k].hash # invites'[p].hash
      BY <1>1, <2>2, <2>3, <2>5, <2>6 DEF MembersIInv, LinksOK
    <3>6. \A p, q \in Persons : invites'[p].hash # 0 /\ invites'[p].hash = invites'[q].hash => p = q
      BY <1>1 DEF MembersIInv, LinksOK
    <3> QED
      BY <3>1, <3>2, <3>3, <3>4, <3>5, <3>6 DEF LinksOK
  <2>9. minted <= minted' /\ \A k \in LinkIds : links'[k] = links[k] \/ links'[k].hash = minted + 1
    BY <2>1, <2>2, <2>3, <2>4, <2>5
  <2> QED
    BY <1>1, <2>2, <2>4, <2>5, <2>8, <2>9, LinksStep
<1> QED
  BY <1>2, <1>3 DEF SendToken

\* LinkExpires keeps the invariant.
LEMMA LinkExpiresOK ==
  ASSUME MembersIInv, NEW l \in LinkIds, LinkExpires(l)
  PROVE  MembersIInv'
BY LinkGone DEF LinkExpires

\* A link that a tab opens, and the only one.
LEMMA OpenedLink ==
  ASSUME MembersIInv, NEW x \in Tabs, NEW l \in Opens(tabs[x].secret)
  PROVE  /\ l \in LinkIds /\ links[l].person \in Persons /\ links[l].hash = tabs[x].secret
         /\ tabs[x].secret \in 1 .. MaxSecret /\ tabs[x].secret <= minted /\ uses[tabs[x].secret] = {}
         /\ \A k \in LinkIds : k # l => links[k].hash # tabs[x].secret
         /\ \A p \in Persons : invites[p].hash # tabs[x].secret
         /\ tabs[x].pc = "link" /\ links[l].purpose # "password_reset" => ~ NeedsSetup
<1>1. l \in LinkIds /\ tabs[x].secret # 0 /\ links[l].purpose # "none" /\ links[l].hash = tabs[x].secret
  BY DEF Opens
<1>2. tabs[x].secret \in 1 .. MaxSecret
  BY <1>1, MembersFacts
<1>3. /\ links[l].person \in Persons /\ tabs[x].secret <= minted /\ uses[tabs[x].secret] = {}
      /\ \A k \in LinkIds : k # l => links[k].hash # tabs[x].secret
      /\ \A p \in Persons : invites[p].hash # tabs[x].secret
  BY <1>1 DEF MembersIInv, LinksOK
<1>4. tabs[x].pc = "link" /\ links[l].purpose # "password_reset" => ~ NeedsSetup
  BY DEF MembersIInv, TabsOK
<1> QED
  BY <1>1, <1>2, <1>3, <1>4

\* Once the setup is done there is an admin.
LEMMA AfterSetup ==
  ASSUME MembersIInv, ~ NeedsSetup
  PROVE  installer # NoPerson
BY DEF MembersIInv, MembersInv, NobodyBeforeTheAdmin, NeedsSetup

\* A password is set where setup is done: nothing that looks at the setup changes.
LEMMA SetUpStep ==
  ASSUME MembersIInv, ~ NeedsSetup, MembersTypeOK', LinksOK', UNCHANGED <<installer, minted>>,
         \A p \in Persons : hashes[p] # 0 => hashes'[p] # 0,
         \A l \in LinkIds : links'[l] = links[l] \/ links'[l].hash = 0,
         \A x \in Tabs : tabs'[x] = tabs[x] \/ tabs'[x] = IdleTab
  PROVE  MembersIInv'
<1>1. ~ NeedsSetup'
  BY DEF NeedsSetup
<1>2. NobodyBeforeTheAdmin' /\ SetupOK'
  BY <1>1, AfterSetup DEF NobodyBeforeTheAdmin, SetupOK
<1>3. TabsOK'
  BY <1>1, MembersFacts, TabsKept
<1> QED
  BY <1>2, <1>3, MembersHold

\* A sign-up that makes its person an owner leaves every other owner one.
LEMMA WithOwnerType ==
  ASSUME MembersIInv, NEW l \in LinkIds, links[l].person \in Persons
  PROVE  /\ WithOwner(l) \in [Persons -> Roles]
         /\ (\E p \in Persons : roles[p] = "owner") => \E p \in Persons : WithOwner(l)[p] = "owner"
BY MembersFacts DEF WithOwner, Roles

\* A secret does what it is for.
LEMMA UsesWritten ==
  ASSUME MembersIInv, NEW n \in 1 .. MaxSecret, NEW what \in {"account", "reset", "joined"},
         uses' = [uses EXCEPT ![n] = @ \cup {what}]
  PROVE  /\ uses' \in [1 .. MaxSecret -> SUBSET {"account", "reset", "joined"}]
         /\ \A m \in 1 .. MaxSecret : m # n => uses'[m] = uses[m]
BY MembersFacts

\* CompleteSignUp keeps the invariant.
LEMMA CompleteSignUpOK ==
  ASSUME MembersIInv, NEW x \in Tabs, NEW l \in LinkIds, CompleteSignUp(x, l)
  PROVE  MembersIInv'
<1>1. PICK p, n : p = links[l].person /\ n = tabs[x].secret
  OBVIOUS
<1>2. /\ tabs[x].pc = "link" /\ l \in Opens(tabs[x].secret) /\ links[l].purpose # "password_reset"
      /\ links' = [links EXCEPT ![l] = NoLink] /\ Close(x) /\ UNCHANGED <<installer, invites, minted>>
  BY DEF CompleteSignUp
<1>3. /\ p \in Persons /\ n \in 1 .. MaxSecret /\ n <= minted /\ ~ NeedsSetup
      /\ \A k \in LinkIds : k # l => links[k].hash # n
      /\ \A q \in Persons : invites[q].hash # n
  BY <1>1, <1>2, OpenedLink
<1>4. /\ links' \in [LinkIds -> LinkType] /\ links'[l] = NoLink
      /\ \A k \in LinkIds : k # l => links'[k] = links[k]
  BY <1>2, MembersRecords, MembersFacts
<1>5. /\ tabs' \in [Tabs -> TabType] /\ \A y \in Tabs : tabs'[y] = tabs[y] \/ tabs'[y] = IdleTab
  BY <1>2, CloseOK
<1>6. /\ hashes' \in [Persons -> 0 .. MaxHash] /\ \A q \in Persons : hashes[q] # 0 => hashes'[q] # 0
      /\ roles' \in [Persons -> Roles] /\ uses' \in [1 .. MaxSecret -> SUBSET {"account", "reset", "joined"}]
      /\ \A m \in 1 .. MaxSecret : m # n => uses'[m] = uses[m]
  <2>1. CASE hashes[p] = 0
    <3>1. /\ hashes' = [hashes EXCEPT ![p] = 1] /\ roles' = WithOwner(l)
          /\ uses' = [uses EXCEPT ![n] = @ \cup {"account"}]
      BY <1>1, <2>1 DEF CompleteSignUp
    <3>2. hashes' \in [Persons -> 0 .. MaxHash] /\ \A q \in Persons : hashes[q] # 0 => hashes'[q] # 0
      BY <1>3, <3>1, MembersFacts
    <3>3. /\ uses' \in [1 .. MaxSecret -> SUBSET {"account", "reset", "joined"}]
          /\ \A m \in 1 .. MaxSecret : m # n => uses'[m] = uses[m]
      BY <1>3, <3>1, UsesWritten
    <3> QED
      BY <1>1, <1>3, <3>1, <3>2, <3>3, WithOwnerType
  <2>2. CASE hashes[p] # 0
    <3>1. UNCHANGED <<hashes, roles, uses>>
      BY <1>1, <2>2 DEF CompleteSignUp
    <3> QED
      BY <3>1, MembersFacts
  <2> QED
    BY <2>1, <2>2
<1>7. MembersTypeOK'
  BY <1>2, <1>4, <1>5, <1>6, MembersFacts DEF MembersTypeOK, Roles
<1>8. LinksOK'
  <2>1. \A k \in LinkIds : links'[k].hash # n
    BY <1>3, <1>4, MembersRecords
  <2>2. \A k \in LinkIds : links'[k] = links[k] \/ (links'[k].hash = 0 /\ links'[k].purpose = "none")
    BY <1>4, MembersRecords
  <2>3. \A m \in 1 .. MaxSecret :
          \/ uses'[m] = uses[m]
          \/ /\ m <= minted /\ \A k \in LinkIds : links'[k].hash # m
             /\ \A q \in Persons : invites'[q].hash # m
    BY <1>2, <1>3, <1>6, <2>1
  <2> QED
    BY <1>2, <2>2, <2>3, SecretsKept
<1>9. \A k \in LinkIds : links'[k] = links[k] \/ links'[k].hash = 0
  BY <1>4, MembersRecords
<1> QED
  BY <1>2, <1>3, <1>5, <1>6, <1>7, <1>8, <1>9, SetUpStep

\* TakeLink keeps the invariant.
LEMMA TakeLinkOK ==
  ASSUME MembersIInv, NEW x \in Tabs, NEW l \in LinkIds, TakeLink(x, l)
  PROVE  MembersIInv'
<1>1. PICK tab : tab = [tabs[x] EXCEPT !.pc = "reset"]
  OBVIOUS
<1>2. tab \in TabType /\ tab.pc = "reset" /\ tab.secret = tabs[x].secret
  BY <1>1, MembersFacts DEF TabType
<1>3. tabs' = [tabs EXCEPT ![x] = tab] /\ UNCHANGED <<hashes, installer, roles, invites, links, minted, uses>>
  BY <1>1 DEF TakeLink
<1>4. tab.secret <= minted
  BY <1>2 DEF MembersIInv, TabsOK
<1> QED
  BY <1>2, <1>3, <1>4, TabStep

\* A link is used up for nothing: the request is over and the row is gone.
LEMMA UsedUpStep ==
  ASSUME MembersIInv, NEW x \in Tabs, NEW l \in LinkIds, links' = [links EXCEPT ![l] = NoLink], Close(x),
         UNCHANGED <<hashes, installer, roles, invites, minted, uses>>
  PROVE  MembersIInv'
<1>1. links' \in [LinkIds -> LinkType] /\ \A k \in LinkIds : links'[k] = links[k] \/ links'[k] = NoLink
  BY MembersRecords, MembersFacts
<1>2. tabs' \in [Tabs -> TabType] /\ \A y \in Tabs : tabs'[y] = tabs[y] \/ tabs'[y] = IdleTab
  BY CloseOK
<1>3. LinksOK'
  BY <1>1, MembersRecords, SecretsKept
<1>4. MembersTypeOK'
  BY <1>1, <1>2, MembersFacts DEF MembersTypeOK, Roles
<1>5. NobodyBeforeTheAdmin' /\ NeedsSetup' = NeedsSetup
  BY DEF MembersIInv, MembersInv, NobodyBeforeTheAdmin, NeedsSetup
<1>6. TabsOK'
  BY <1>1, <1>2, <1>5, MembersFacts, MembersRecords, TabsKept
<1>7. SetupOK'
  BY <1>2, <1>5, MembersRecords DEF MembersIInv, SetupOK
<1> QED
  BY <1>3, <1>4, <1>5, <1>6, <1>7, MembersHold

\* Reset keeps the invariant.
LEMMA ResetOK ==
  ASSUME MembersIInv, NEW x \in Tabs, NEW l \in LinkIds, Reset(x, l)
  PROVE  MembersIInv'
<1>1. PICK p, n : p = links[l].person /\ n = tabs[x].secret
  OBVIOUS
<1>2. /\ tabs[x].pc = "reset" /\ l \in Opens(tabs[x].secret)
      /\ hashes[p] < MaxHash /\ Close(x) /\ UNCHANGED <<installer, roles, invites, minted>>
  BY <1>1 DEF Reset
<1>3. /\ p \in Persons /\ n \in 1 .. MaxSecret /\ n <= minted
      /\ \A k \in LinkIds : k # l => links[k].hash # n
      /\ \A q \in Persons : invites[q].hash # n
  BY <1>1, <1>2, OpenedLink
<1>4. CASE hashes[p] = 0
  <2>1. UNCHANGED <<hashes, uses>> /\ links' = [k \in LinkIds |-> IF k = l THEN NoLink ELSE links[k]]
    BY <1>1, <1>4 DEF Reset
  <2>2. links' = [links EXCEPT ![l] = NoLink]
    BY <2>1, MembersFacts
  <2> QED
    BY <1>2, <2>1, <2>2, UsedUpStep
<1>5. CASE hashes[p] # 0
  <2>1. /\ links' = [k \in LinkIds |-> IF k = l \/ DiesWith(k, l) THEN NoLink ELSE links[k]]
        /\ hashes' = [hashes EXCEPT ![p] = @ + 1] /\ uses' = [uses EXCEPT ![n] = @ \cup {"reset"}]
    BY <1>1, <1>5 DEF Reset
  <2>2. ~ NeedsSetup
    BY <1>3, <1>5 DEF NeedsSetup
  <2>3. /\ links' \in [LinkIds -> LinkType] /\ links'[l] = NoLink
        /\ \A k \in LinkIds : links'[k] = links[k] \/ links'[k] = NoLink
    BY <2>1, MembersRecords, MembersFacts
  <2>4. /\ tabs' \in [Tabs -> TabType] /\ \A y \in Tabs : tabs'[y] = tabs[y] \/ tabs'[y] = IdleTab
    BY <1>2, CloseOK
  <2>5. hashes' \in [Persons -> 0 .. MaxHash] /\ \A q \in Persons : hashes[q] # 0 => hashes'[q] # 0
    BY <1>2, <1>3, <2>1, MembersFacts
  <2>6. /\ uses' \in [1 .. MaxSecret -> SUBSET {"account", "reset", "joined"}]
        /\ \A m \in 1 .. MaxSecret : m # n => uses'[m] = uses[m]
    BY <1>3, <2>1, UsesWritten
  <2>7. MembersTypeOK'
    BY <1>2, <2>3, <2>4, <2>5, <2>6, MembersFacts DEF MembersTypeOK, Roles
  <2>8. LinksOK'
    <3>1. \A k \in LinkIds : links'[k].hash # n
      BY <1>3, <2>3, MembersRecords
    <3>2. \A k \in LinkIds : links'[k] = links[k] \/ (links'[k].hash = 0 /\ links'[k].purpose = "none")
      BY <2>3, MembersRecords
    <3>3. \A m \in 1 .. MaxSecret :
            \/ uses'[m] = uses[m]
            \/ /\ m <= minted /\ \A k \in LinkIds : links'[k].hash # m
               /\ \A q \in Persons : invites'[q].hash # m
      BY <1>2, <1>3, <2>6, <3>1
    <3> QED
      BY <1>2, <3>2, <3>3, SecretsKept
  <2>9. \A k \in LinkIds : links'[k] = links[k] \/ links'[k].hash = 0
    BY <2>3, MembersRecords
  <2> QED
    BY <1>2, <2>2, <2>4, <2>5, <2>7, <2>8, <2>9, SetUpStep
<1> QED
  BY <1>4, <1>5

\* An owner's request acts, and is over.
LEMMA OwnerStep ==
  ASSUME MembersIInv, NEW x \in Tabs, tabs[x].pc = "manage", Close(x),
         roles' \in [Persons -> Roles], invites' \in [Persons -> InviteType],
         \A p \in Persons : invites'[p] = invites[p] \/ invites'[p].hash = 0,
         UNCHANGED <<hashes, installer, links, minted, uses>>
  PROVE  MembersIInv'
<1>1. ~ NeedsSetup
  BY DEF MembersIInv, SetupOK
<1>2. /\ tabs' \in [Tabs -> TabType] /\ \A y \in Tabs : tabs'[y] = tabs[y] \/ tabs'[y] = IdleTab
  BY CloseOK
<1>3. MembersTypeOK'
  BY <1>2, MembersFacts DEF MembersTypeOK, Roles
<1>4. LinksOK'
  BY SecretsKept
<1> QED
  BY <1>1, <1>2, <1>3, <1>4, SetUpStep

\* Inviting, and revoking an invite, keep the invariant.
LEMMA InviteOK ==
  ASSUME MembersIInv, NEW x \in Tabs, NEW p \in Persons, Invite(x, p) \/ RevokeInvite(x, p)
  PROVE  MembersIInv'
<1>1. PICK invite \in InviteType : invite.hash = 0 /\ invites' = [invites EXCEPT ![p] = invite]
  <2>1. PICK invite : invite = [open |-> TRUE, hash |-> 0]
    OBVIOUS
  <2>2. invite \in InviteType /\ invite.hash = 0
    BY <2>1, MembersAssumption DEF InviteType
  <2>3. CASE Invite(x, p)
    BY <2>1, <2>2, <2>3 DEF Invite
  <2>4. CASE RevokeInvite(x, p)
    BY <2>4, MembersRecords DEF RevokeInvite
  <2> QED
    BY <2>3, <2>4
<1>2. /\ invites' \in [Persons -> InviteType]
      /\ \A q \in Persons : invites'[q] = invites[q] \/ invites'[q].hash = 0
  BY <1>1, MembersFacts
<1>3. tabs[x].pc = "manage" /\ Close(x) /\ UNCHANGED <<hashes, installer, roles, links, minted, uses>>
  BY DEF Invite, RevokeInvite
<1> QED
  BY <1>2, <1>3, MembersFacts, OwnerStep

\* ChangeRole keeps the invariant.
LEMMA ChangeRoleOK ==
  ASSUME MembersIInv, NEW x \in Tabs, NEW p \in Persons, NEW role \in {"owner", "worker", "removed"},
         ChangeRole(x, p, role)
  PROVE  MembersIInv'
<1>1. /\ tabs[x].pc = "manage" /\ roles' = [roles EXCEPT ![p] = role] /\ Close(x)
      /\ UNCHANGED <<hashes, installer, invites, links, minted, uses>>
  BY DEF ChangeRole
<1>2. roles' \in [Persons -> Roles]
  BY <1>1, MembersFacts DEF Roles
<1> QED
  BY <1>1, <1>2, MembersFacts, OwnerStep

\* SendInvite keeps the invariant.
LEMMA SendInviteOK ==
  ASSUME MembersIInv, NEW p \in Persons, SendInvite(p)
  PROVE  MembersIInv'
<1>1. PICK n, invite : n = minted + 1 /\ invite = [invites[p] EXCEPT !.hash = n]
  OBVIOUS
<1>2. /\ invites[p].open /\ minted < MaxSecret /\ invites' = [invites EXCEPT ![p] = invite] /\ minted' = n
      /\ UNCHANGED <<hashes, installer, roles, links, tabs, uses>>
  BY <1>1 DEF SendInvite
<1>3. n \in 0 .. MaxSecret /\ n # 0 /\ n > minted /\ minted \in Nat
  BY <1>1, <1>2, MembersFacts
<1>4. invite \in InviteType /\ invite.open = invites[p].open /\ invite.hash = n
  BY <1>1, <1>3, MembersFacts DEF InviteType
<1>5. /\ invites' \in [Persons -> InviteType]
      /\ \A q \in Persons : invites'[q] = IF q = p THEN invite ELSE invites[q]
  BY <1>2, <1>4, MembersFacts
<1>6. /\ \A k \in LinkIds : links[k].hash \in Nat /\ links[k].hash <= minted
      /\ \A q \in Persons : invites[q].hash \in Nat /\ invites[q].hash <= minted
  BY MembersFacts DEF MembersIInv, LinksOK
<1>7. uses[n] = {}
  BY <1>3 DEF MembersIInv, LinksOK
<1>8. LinksOK'
  <2>1. \A m \in 1 .. MaxSecret : m > minted' => uses'[m] = {}
    BY <1>2, <1>3 DEF MembersIInv, LinksOK
  <2>2. ASSUME NEW k \in LinkIds
        PROVE  /\ links'[k].purpose = "none" => links'[k].hash = 0
               /\ links'[k].purpose # "none" => links'[k].person \in Persons
               /\ links'[k].hash <= minted' /\ (links'[k].hash # 0 => uses'[links'[k].hash] = {})
    BY <1>2, <1>3, <1>6 DEF MembersIInv, LinksOK
  <2>3. ASSUME NEW q \in Persons
        PROVE  /\ invites'[q].hash <= minted'
               /\ invites'[q].hash # 0 => invites'[q].open /\ uses'[invites'[q].hash] = {}
    <3>1. CASE q = p
      <4>1. invites'[q].hash = n /\ invites'[q].open
        BY <1>2, <1>4, <1>5, <3>1
      <4> QED
        BY <1>2, <1>3, <1>7, <4>1
    <3>2. CASE q # p
      <4>1. invites'[q] = invites[q]
        BY <1>5, <3>2
      <4>2. invites[q].hash # 0 => invites[q].open /\ uses[invites[q].hash] = {}
        BY DEF MembersIInv, LinksOK
      <4> QED
        BY <1>2, <1>3, <1>6, <4>1, <4>2
    <3> QED
      BY <3>1, <3>2
  <2>4. \A k, j \in LinkIds : links'[k].hash # 0 /\ links'[k].hash = links'[j].hash => k = j
    BY <1>2 DEF MembersIInv, LinksOK
  <2>5. \A k \in LinkIds, q \in Persons : links'[k].hash # 0 => links'[k].hash # invites'[q].hash
    BY <1>2, <1>3, <1>4, <1>5, <1>6 DEF MembersIInv, LinksOK
  <2>6. \A q, r \in Persons : invites'[q].hash # 0 /\ invites'[q].hash = invites'[r].hash => q = r
    BY <1>3, <1>4, <1>5, <1>6 DEF MembersIInv, LinksOK
  <2> QED
    BY <2>1, <2>2, <2>3, <2>4, <2>5, <2>6 DEF LinksOK
<1>9. MembersTypeOK'
  BY <1>2, <1>3, <1>5, MembersFacts DEF MembersTypeOK, Roles
<1>10. NeedsSetup' = NeedsSetup /\ NobodyBeforeTheAdmin'
  BY <1>2 DEF NeedsSetup, MembersIInv, MembersInv, NobodyBeforeTheAdmin
<1>11. TabsOK'
  <2>1. minted' \in Nat /\ minted <= minted'
    BY <1>2, <1>3, MembersFacts
  <2> QED
    BY <1>2, <1>10, <2>1, TabsKept
<1>12. SetupOK'
  BY <1>2, <1>10 DEF MembersIInv, SetupOK
<1> QED
  BY <1>8, <1>9, <1>10, <1>11, <1>12, MembersHold

\* An invite whose secret a tab carries, and the only thing it opens.
LEMMA FoundInvite ==
  ASSUME MembersIInv, NEW x \in Tabs, Accepts(x)
  PROVE  /\ tabs[x].pc = "accept" /\ tabs[x].person \in Persons /\ tabs[x].secret \in 1 .. MaxSecret
         /\ invites[tabs[x].person].hash = tabs[x].secret
         /\ tabs[x].secret <= minted /\ uses[tabs[x].secret] = {} /\ ~ NeedsSetup
         /\ \A q \in Persons : q # tabs[x].person => invites[q].hash # tabs[x].secret
         /\ \A l \in LinkIds : links[l].hash # tabs[x].secret
<1>1. /\ tabs[x].pc = "accept" /\ invites[tabs[x].person].hash = tabs[x].secret
  BY DEF Accepts
<1>2. tabs[x].person \in Persons /\ tabs[x].secret <= minted /\ tabs[x].secret # 0
  BY <1>1 DEF MembersIInv, TabsOK
<1>3. tabs[x].secret \in 1 .. MaxSecret
  BY <1>2, MembersFacts
<1>4. ~ NeedsSetup
  BY <1>1 DEF MembersIInv, SetupOK
<1>5. /\ uses[tabs[x].secret] = {}
      /\ \A q \in Persons : q # tabs[x].person => invites[q].hash # tabs[x].secret
      /\ \A l \in LinkIds : links[l].hash # tabs[x].secret
  BY <1>1, <1>2 DEF MembersIInv, LinksOK
<1> QED
  BY <1>1, <1>2, <1>3, <1>4, <1>5

\* AcceptInvite keeps the invariant.
LEMMA AcceptInviteOK ==
  ASSUME MembersIInv, NEW x \in Tabs, AcceptInvite(x)
  PROVE  MembersIInv'
<1>1. PICK p, n, hash, role :
        /\ p = tabs[x].person /\ n = tabs[x].secret
        /\ hash = (IF hashes[p] = 0 THEN 1 ELSE hashes[p])
        /\ role = (IF roles[p] \in {"none", "removed"} THEN "worker" ELSE roles[p])
  OBVIOUS
<1>2. /\ Accepts(x) /\ hashes' = [hashes EXCEPT ![p] = hash] /\ invites' = [invites EXCEPT ![p] = NoInvite]
      /\ roles' = [roles EXCEPT ![p] = role] /\ uses' = [uses EXCEPT ![n] = @ \cup {"joined"}]
      /\ Close(x) /\ UNCHANGED <<installer, links, minted>>
  BY <1>1 DEF AcceptInvite
<1>3. /\ p \in Persons /\ n \in 1 .. MaxSecret /\ invites[p].hash = n /\ n <= minted /\ ~ NeedsSetup
      /\ \A q \in Persons : q # p => invites[q].hash # n
      /\ \A l \in LinkIds : links[l].hash # n
  BY <1>1, <1>2, FoundInvite
<1>4. hash \in 0 .. MaxHash /\ hash # 0
  BY <1>1, <1>3, MembersFacts
<1>5. role \in Roles
  BY <1>1, <1>3, MembersFacts DEF Roles
<1>6. hashes' \in [Persons -> 0 .. MaxHash] /\ \A q \in Persons : hashes[q] # 0 => hashes'[q] # 0
  BY <1>2, <1>3, <1>4, MembersFacts
<1>7. roles' \in [Persons -> Roles]
  BY <1>2, <1>3, <1>5, MembersFacts
<1>8. /\ invites' \in [Persons -> InviteType] /\ invites'[p] = NoInvite
      /\ \A q \in Persons : q # p => invites'[q] = invites[q]
  BY <1>2, <1>3, MembersFacts, MembersRecords
<1>9. /\ uses' \in [1 .. MaxSecret -> SUBSET {"account", "reset", "joined"}]
      /\ \A m \in 1 .. MaxSecret : m # n => uses'[m] = uses[m]
  BY <1>2, <1>3, UsesWritten
<1>10. /\ tabs' \in [Tabs -> TabType] /\ \A y \in Tabs : tabs'[y] = tabs[y] \/ tabs'[y] = IdleTab
  BY <1>2, CloseOK
<1>11. MembersTypeOK'
  BY <1>2, <1>6, <1>7, <1>8, <1>9, <1>10, MembersFacts DEF MembersTypeOK, Roles
<1>12. LinksOK'
  <2>1. \A q \in Persons : invites'[q].hash # n /\ (invites'[q] = invites[q] \/ invites'[q].hash = 0)
    BY <1>3, <1>8, MembersRecords
  <2>2. \A m \in 1 .. MaxSecret :
          \/ uses'[m] = uses[m]
          \/ /\ m <= minted /\ \A l \in LinkIds : links'[l].hash # m
             /\ \A q \in Persons : invites'[q].hash # m
    BY <1>2, <1>3, <1>9, <2>1
  <2> QED
    BY <1>2, <2>1, <2>2, SecretsKept
<1> QED
  BY <1>2, <1>3, <1>6, <1>10, <1>11, <1>12, SetUpStep

\* The invariant holds at the start.
LEMMA MembersStart == MembersInit => MembersIInv
<1> SUFFICES ASSUME MembersInit PROVE MembersIInv
  OBVIOUS
<1>1. MembersTypeOK
  BY MembersRecords, MembersAssumption DEF MembersInit, MembersTypeOK
<1>2. NobodyBeforeTheAdmin
  BY DEF MembersInit, NobodyBeforeTheAdmin
<1>3. LinksOK
  BY MembersRecords DEF MembersInit, LinksOK
<1>4. TabsOK /\ SetupOK
  BY MembersRecords DEF MembersInit, TabsOK, SetupOK
<1> QED
  BY <1>1, <1>2, <1>3, <1>4 DEF MembersIInv, MembersInv

\* Every step keeps the invariant.
LEMMA MembersPreserved == MembersIInv /\ [MembersNext]_memberVars => MembersIInv'
<1> SUFFICES ASSUME MembersIInv, [MembersNext]_memberVars PROVE MembersIInv'
  OBVIOUS
<1>1. ASSUME NEW x \in Tabs, NEW p \in Persons,
             BeginSetup(x, p) \/ Manage(x, p) \/ Invite(x, p) \/ RevokeInvite(x, p) \/ FindInvite(x, p)
      PROVE  MembersIInv'
  BY <1>1, BeginSetupOK, ManageOK, InviteOK, FindInviteOK
<1>2. ASSUME NEW x \in Tabs, CompleteSetup(x) \/ GiveUp(x) \/ AcceptInvite(x)
      PROVE  MembersIInv'
  BY <1>2, CompleteSetupOK, GiveUpOK, AcceptInviteOK
<1>3. ASSUME NEW x \in Tabs, NEW p \in Persons, NEW role \in {"owner", "worker", "removed"},
             ChangeRole(x, p, role)
      PROVE  MembersIInv'
  BY <1>3, ChangeRoleOK
<1>4. ASSUME NEW x \in Tabs, NEW l \in LinkIds,
             OpenLink(x, l) \/ CompleteSignUp(x, l) \/ TakeLink(x, l) \/ Reset(x, l)
      PROVE  MembersIInv'
  BY <1>4, OpenLinkOK, CompleteSignUpOK, TakeLinkOK, ResetOK
<1>5. ASSUME NEW l \in LinkIds, NEW purpose \in Purposes, NEW p \in Persons, SendLink(l, purpose, p)
      PROVE  MembersIInv'
  BY <1>5, SendLinkOK
<1>6. ASSUME NEW l \in LinkIds, SendToken(l) \/ LinkExpires(l)
      PROVE  MembersIInv'
  BY <1>6, SendTokenOK, LinkExpiresOK
<1>7. ASSUME NEW p \in Persons, SendInvite(p)
      PROVE  MembersIInv'
  BY <1>7, SendInviteOK
<1>8. CASE UNCHANGED memberVars
  <2>1. UNCHANGED <<hashes, installer, roles, invites, links, minted, tabs, uses>>
    BY <1>8 DEF memberVars
  <2>2. MembersTypeOK' /\ NobodyBeforeTheAdmin'
    BY <2>1 DEF MembersIInv, MembersInv, MembersTypeOK, NobodyBeforeTheAdmin
  <2>3. LinksOK'
    BY <2>1 DEF MembersIInv, LinksOK
  <2>4. TabsOK'
    BY <2>1 DEF MembersIInv, TabsOK, Opens, NeedsSetup
  <2>5. SetupOK'
    BY <2>1 DEF MembersIInv, SetupOK, NeedsSetup
  <2> QED
    BY <2>2, <2>3, <2>4, <2>5, MembersHold
<1> QED
  BY <1>1, <1>2, <1>3, <1>4, <1>5, <1>6, <1>7, <1>8 DEF MembersNext

\* The accounts, the members, the links and the requests between their two transactions are as the
\* handlers can make them, and nobody has an account where the setup has made no admin (complete_setup,
\* complete_sign_up, accept_invite).
THEOREM MembersSound == MembersSpec => []MembersInv
<1>1. MembersIInv => MembersInv
  BY DEF MembersIInv
<1> QED
  BY <1>1, MembersStart, MembersPreserved, PTL DEF MembersSpec

\* What a step of the members' tables may do: the four rights of AccountsChangeByRight.
ByRight == FirstIsTheAdmin /\ SecretsWorkOnce /\ PasswordsChangeByReset /\ OwnersDecide

\* Most steps change no account, no role, and use no secret.
LEMMA RightsUntouched ==
  ASSUME UNCHANGED <<hashes, installer, roles, uses>>
  PROVE  ByRight
BY DEF ByRight, FirstIsTheAdmin, SecretsWorkOnce, PasswordsChangeByReset, OwnersDecide

\* The setup makes the first account, and no other.
LEMMA CompleteSetupByRight ==
  ASSUME MembersIInv, NEW x \in Tabs, CompleteSetup(x)
  PROVE  ByRight
<1>1. CASE NeedsSetup
  <2>1. UNCHANGED <<roles, uses>>
    BY DEF CompleteSetup
  <2>2. FirstIsTheAdmin /\ PasswordsChangeByReset
    BY <1>1 DEF FirstIsTheAdmin, PasswordsChangeByReset, NeedsSetup
  <2> QED
    BY <2>1, <2>2 DEF ByRight, SecretsWorkOnce, OwnersDecide
<1>2. CASE ~ NeedsSetup
  BY <1>2, RightsUntouched DEF CompleteSetup
<1> QED
  BY <1>1, <1>2

\* A sign-up link works once, and sets no password of an account there is.
LEMMA CompleteSignUpByRight ==
  ASSUME MembersIInv, NEW x \in Tabs, NEW l \in LinkIds, CompleteSignUp(x, l)
  PROVE  ByRight
<1>1. PICK p, n : p = links[l].person /\ n = tabs[x].secret
  OBVIOUS
<1>2. /\ tabs[x].pc = "link" /\ l \in Opens(tabs[x].secret)
      /\ links' = [links EXCEPT ![l] = NoLink] /\ Close(x) /\ UNCHANGED installer
  BY DEF CompleteSignUp
<1>3. p \in Persons /\ n \in 1 .. MaxSecret /\ links[l].hash = n /\ uses[n] = {}
  BY <1>1, <1>2, OpenedLink
<1>4. links'[l] = NoLink
  BY <1>2, MembersFacts
<1>5. \A y \in Tabs : tabs[y].pc = "manage" => tabs'[y] = tabs[y]
  BY <1>2, CloseOK
<1>6. CASE hashes[p] = 0
  <2>1. /\ hashes' = [hashes EXCEPT ![p] = 1] /\ roles' = WithOwner(l)
        /\ uses' = [uses EXCEPT ![n] = @ \cup {"account"}]
    BY <1>1, <1>6 DEF CompleteSignUp
  <2>2. \A m \in 1 .. MaxSecret : m # n => uses'[m] = uses[m]
    BY <1>3, <2>1, UsesWritten
  <2>3. SecretsWorkOnce
    BY <1>3, <1>4, <2>2 DEF SecretsWorkOnce
  <2>4. PasswordsChangeByReset
    BY <1>6, <2>1, MembersFacts DEF PasswordsChangeByReset
  <2>5. OwnersDecide
    BY <1>1, <1>3, <1>5, <2>1, WithOwnerType DEF OwnersDecide
  <2> QED
    BY <1>2, <2>3, <2>4, <2>5 DEF ByRight, FirstIsTheAdmin
<1>7. CASE hashes[p] # 0
  BY <1>1, <1>2, <1>7, RightsUntouched DEF CompleteSignUp
<1> QED
  BY <1>6, <1>7

\* A reset is by the link of its own address, and ends the links beside it that nobody is using.
LEMMA ResetByRight ==
  ASSUME MembersIInv, NEW x \in Tabs, NEW l \in LinkIds, Reset(x, l)
  PROVE  ByRight
<1>1. PICK p, n : p = links[l].person /\ n = tabs[x].secret
  OBVIOUS
<1>2. /\ tabs[x].pc = "reset" /\ l \in Opens(tabs[x].secret) /\ links[l].purpose = "password_reset"
      /\ UNCHANGED <<installer, roles>> /\ Close(x)
  BY DEF Reset
<1>3. CASE hashes[p] = 0
  BY <1>1, <1>2, <1>3, RightsUntouched DEF Reset
<1>4. CASE hashes[p] # 0
  <2>1. /\ hashes' = [hashes EXCEPT ![p] = @ + 1] /\ uses' = [uses EXCEPT ![n] = @ \cup {"reset"}]
        /\ links' = [k \in LinkIds |-> IF k = l \/ DiesWith(k, l) THEN NoLink ELSE links[k]]
    BY <1>1, <1>4 DEF Reset
  <2>2. /\ p \in Persons /\ n \in 1 .. MaxSecret /\ links[l].hash = n /\ uses[n] = {}
        /\ \A k \in LinkIds : k # l => links[k].hash # n
    BY <1>1, <1>2, OpenedLink
  <2>3. links'[l] = NoLink
    BY <2>1
  <2>4. SecretsWorkOnce
    <3>1. \A m \in 1 .. MaxSecret : m # n => uses'[m] = uses[m]
      BY <2>1, <2>2, UsesWritten
    <3> QED
      BY <2>2, <2>3, <3>1 DEF SecretsWorkOnce
  <2>5. ASSUME NEW k \in LinkIds, links'[k].purpose = "password_reset", links'[k].person = p
        PROVE  InUse(k)'
    <3>1. k # l /\ links'[k] = links[k] /\ ~ DiesWith(k, l)
      BY <2>1, <2>3, <2>5, MembersRecords
    <3>2. PICK y \in Tabs : tabs[y].pc = "reset" /\ k \in Opens(tabs[y].secret)
      BY <1>1, <2>5, <3>1 DEF DiesWith, InUse
    <3>3. y # x
      BY <1>1, <2>2, <3>1, <3>2 DEF Opens
    <3>4. tabs'[y] = tabs[y]
      BY <1>2, <3>3, CloseOK
    <3> QED
      BY <3>1, <3>2, <3>4 DEF InUse, Opens
  <2>6. InUse(l)
    BY <1>2 DEF InUse
  <2>7. PasswordsChangeByReset
    <3>1. \A q \in Persons : q # p => hashes'[q] = hashes[q]
      BY <2>1, MembersFacts
    <3> QED
      BY <1>1, <1>2, <2>3, <2>5, <2>6, <3>1 DEF PasswordsChangeByReset
  <2> QED
    BY <1>2, <2>4, <2>7 DEF ByRight, FirstIsTheAdmin, OwnersDecide
<1> QED
  BY <1>3, <1>4

\* An invite works once, and changes no role but the one it was sent for.
LEMMA AcceptInviteByRight ==
  ASSUME MembersIInv, NEW x \in Tabs, AcceptInvite(x)
  PROVE  ByRight
<1>1. PICK p, n, role :
        /\ p = tabs[x].person /\ n = tabs[x].secret
        /\ role = (IF roles[p] \in {"none", "removed"} THEN "worker" ELSE roles[p])
  OBVIOUS
<1>2. /\ Accepts(x) /\ hashes' = [hashes EXCEPT ![p] = IF @ = 0 THEN 1 ELSE @]
      /\ invites' = [invites EXCEPT ![p] = NoInvite] /\ roles' = [roles EXCEPT ![p] = role]
      /\ uses' = [uses EXCEPT ![n] = @ \cup {"joined"}] /\ Close(x) /\ UNCHANGED installer
  BY <1>1 DEF AcceptInvite
<1>3. /\ tabs[x].pc = "accept" /\ p \in Persons /\ n \in 1 .. MaxSecret
      /\ invites[p].hash = n /\ uses[n] = {}
  BY <1>1, <1>2, FoundInvite
<1>4. SecretsWorkOnce
  <2>1. \A m \in 1 .. MaxSecret : m # n => uses'[m] = uses[m]
    BY <1>2, <1>3, UsesWritten
  <2>2. invites'[p] = NoInvite
    BY <1>2, <1>3, MembersFacts
  <2> QED
    BY <1>3, <2>1, <2>2 DEF SecretsWorkOnce
<1>5. PasswordsChangeByReset
  <2>1. \A q \in Persons : hashes[q] # 0 => hashes'[q] = hashes[q]
    BY <1>2, <1>3, MembersFacts
  <2> QED
    BY <2>1 DEF PasswordsChangeByReset
<1>6. OwnersDecide
  <2>1. \A y \in Tabs : tabs[y].pc = "manage" => tabs'[y] = tabs[y]
    BY <1>2, <1>3, CloseOK
  <2>2. roles[p] = "owner" => role = "owner"
    BY <1>1
  <2>3. \A q \in Persons : roles[q] = "owner" => roles'[q] = "owner"
    BY <1>2, <1>3, <2>2, MembersFacts
  <2> QED
    BY <2>1, <2>3 DEF OwnersDecide
<1> QED
  BY <1>2, <1>4, <1>5, <1>6 DEF ByRight, FirstIsTheAdmin

\* Who changes a role is an owner at that moment, and an owner is left.
LEMMA ChangeRoleByRight ==
  ASSUME MembersIInv, NEW x \in Tabs, NEW p \in Persons, NEW role \in {"owner", "worker", "removed"},
         ChangeRole(x, p, role)
  PROVE  ByRight
<1>1. /\ tabs[x].pc = "manage" /\ Target(tabs[x].person, p) /\ KeepsAnOwner(roles')
      /\ roles' = [roles EXCEPT ![p] = role] /\ Close(x) /\ UNCHANGED <<hashes, installer, uses>>
  BY DEF ChangeRole
<1>2. tabs[x].person \in Persons
  BY <1>1 DEF MembersIInv, TabsOK
<1>3. roles[tabs[x].person] = "owner" /\ roles'[tabs[x].person] = "owner"
  BY <1>1, <1>2, MembersFacts DEF Target
<1>4. \A y \in Tabs : y # x => tabs'[y] = tabs[y]
  BY <1>1, CloseOK
<1>5. OwnersDecide
  BY <1>1, <1>2, <1>3, <1>4 DEF OwnersDecide
<1> QED
  BY <1>1, <1>5 DEF ByRight, FirstIsTheAdmin, SecretsWorkOnce, PasswordsChangeByReset

\* Every step changes accounts, passwords and roles by right.
LEMMA MembersByRight == MembersIInv /\ [MembersNext]_memberVars => [ByRight]_memberVars
<1> SUFFICES ASSUME MembersIInv, MembersNext PROVE ByRight
  OBVIOUS
<1>1. ASSUME NEW x \in Tabs, NEW p \in Persons,
             BeginSetup(x, p) \/ Manage(x, p) \/ Invite(x, p) \/ RevokeInvite(x, p) \/ FindInvite(x, p)
      PROVE  ByRight
  BY <1>1, RightsUntouched DEF BeginSetup, Manage, Invite, RevokeInvite, FindInvite
<1>2. ASSUME NEW x \in Tabs, CompleteSetup(x) \/ GiveUp(x) \/ AcceptInvite(x)
      PROVE  ByRight
  <2>1. CASE GiveUp(x)
    BY <2>1, RightsUntouched DEF GiveUp
  <2> QED
    BY <1>2, <2>1, CompleteSetupByRight, AcceptInviteByRight
<1>3. ASSUME NEW x \in Tabs, NEW p \in Persons, NEW role \in {"owner", "worker", "removed"},
             ChangeRole(x, p, role)
      PROVE  ByRight
  BY <1>3, ChangeRoleByRight
<1>4. ASSUME NEW x \in Tabs, NEW l \in LinkIds,
             OpenLink(x, l) \/ CompleteSignUp(x, l) \/ TakeLink(x, l) \/ Reset(x, l)
      PROVE  ByRight
  <2>1. CASE OpenLink(x, l) \/ TakeLink(x, l)
    BY <2>1, RightsUntouched DEF OpenLink, TakeLink
  <2> QED
    BY <1>4, <2>1, CompleteSignUpByRight, ResetByRight
<1>5. ASSUME NEW l \in LinkIds, NEW purpose \in Purposes, NEW p \in Persons, SendLink(l, purpose, p)
      PROVE  ByRight
  BY <1>5, RightsUntouched DEF SendLink
<1>6. ASSUME NEW l \in LinkIds, SendToken(l) \/ LinkExpires(l)
      PROVE  ByRight
  BY <1>6, RightsUntouched DEF SendToken, LinkExpires
<1>7. ASSUME NEW p \in Persons, SendInvite(p)
      PROVE  ByRight
  BY <1>7, RightsUntouched DEF SendInvite
<1> QED
  BY <1>1, <1>2, <1>3, <1>4, <1>5, <1>6, <1>7 DEF MembersNext

\* Nobody gets an account, a password or a role but in the way meant for it, at the moment of the
\* change: the setup makes the first account only; a secret works once, for the row that holds it; a
\* password changes by its own address's reset link only, which ends the others but those being used at
\* that moment; and whoever changes a role is an owner then, and stays one (complete_setup,
\* mint_email_token, reset_password, accept_invite, target, keep_an_owner).
THEOREM ChangedByRight == MembersSpec => AccountsChangeByRight
<1>1. MembersSpec => []MembersIInv
  BY MembersStart, MembersPreserved, PTL DEF MembersSpec
<1>2. [ByRight]_memberVars =>
        [FirstIsTheAdmin /\ SecretsWorkOnce /\ PasswordsChangeByReset /\ OwnersDecide]_memberVars
  BY DEF ByRight
<1> QED
  BY <1>1, <1>2, MembersByRight, PTL DEF MembersSpec, AccountsChangeByRight

-----------------------------------------------------------------------------
(* The record of a client *)

\* A request between its two steps holds what it read: the note it read is the row's still, the
\* booking it confirms is there, and the session it proved itself with is live.
AskedOK ==
  \A x \in Asked :
    /\ asked[x].pc \in {"noting", "consenting"} => asked[x].on \in 1 .. MaxRecords
    /\ asked[x].pc = "noting" => records[asked[x].on].state = "live" /\ asked[x].notes = records[asked[x].on].notes
    /\ asked[x].pc = "confirming" => asked[x].on \in DOMAIN ticks
    /\ asked[x].pc = "placing" /\ asked[x].proof # 0 => asked[x].proof = session

\* One request holds the business's booking lock, and one a client's row for its notes.
LocksOK ==
  /\ \A x, y \in At({"placing", "confirming"}) : x = y
  /\ \A x, y \in At({"noting"}) : asked[x].on = asked[y].on => x = y

FreshOK == \A c \in 1 .. MaxRecords : records[c].state = "none" => ~ records[c].linked /\ records[c].notes = NoNotes

\* A withdrawal that came after the tick which a request confirms was written while it did.
ConfirmingOK ==
  \A x \in At({"confirming"}) : \A t, w \in consentLog :
    t.at < w.at /\ t.kind = "tick" /\ t.booking = asked[x].on
      /\ w.kind = "withdrawal" /\ w.client = ticks[asked[x].on].client => asked[x].on \in w.during

ClientsIInv == ClientsInv /\ AskedOK /\ LocksOK /\ FreshOK /\ ConfirmingOK

\* The types of the state, of the records in it and of the bounds, for the provers.
LEMMA ClientsFacts ==
  ASSUME ClientsIInv
  PROVE  /\ records \in [1 .. MaxRecords -> RecordType] /\ consentLog \subseteq EntryType
         /\ ticks \in Seq(TickType) /\ Len(ticks) \in Nat /\ Len(ticks) <= MaxTicks /\ DOMAIN ticks = 1 .. Len(ticks)
         /\ session \in 0 .. MaxSessions /\ asked \in [Asked -> AskedType]
         /\ sent \in [1 .. MaxRecords -> [Notes -> 0 .. 1]]
         /\ \A b \in 1 .. Len(ticks) : ticks[b] \in TickType /\ ticks[b].client \in 1 .. MaxRecords
         /\ \A e \in consentLog : e.at \in 1 .. MaxLog /\ e.client \in 1 .. MaxRecords
         /\ \A x \in Asked : asked[x] \in AskedType
         /\ \A c \in 1 .. MaxRecords : records[c] \in RecordType
         /\ MaxRecords \in Nat /\ MaxTicks \in Nat /\ MaxLog \in Nat /\ MaxSessions \in Nat
<1>1. /\ records \in [1 .. MaxRecords -> RecordType] /\ consentLog \subseteq EntryType
      /\ ticks \in Seq(TickType) /\ Len(ticks) \in Nat /\ Len(ticks) <= MaxTicks /\ DOMAIN ticks = 1 .. Len(ticks)
      /\ session \in 0 .. MaxSessions /\ asked \in [Asked -> AskedType]
      /\ sent \in [1 .. MaxRecords -> [Notes -> 0 .. 1]]
  BY DEF ClientsIInv, ClientsInv, ClientsTypeOK
<1>2. \A b \in 1 .. Len(ticks) : ticks[b] \in TickType
  BY <1>1
<1>3. /\ \A t \in TickType : t.client \in 1 .. MaxRecords
      /\ \A e \in EntryType : e.at \in 1 .. MaxLog /\ e.client \in 1 .. MaxRecords
  BY DEF TickType, EntryType
<1> QED
  BY <1>1, <1>2, <1>3, ClientsAssumption

\* No notes are notes.
LEMMA NotesNone == NoNotes \in [Notes -> 0 .. 1]
BY DEF NoNotes

\* A request that has not begun is well formed.
LEMMA NotAskedType == NotAsked \in AskedType /\ NotAsked.pc = "idle"
BY NotesNone, ClientsAssumption DEF NotAsked, AskedType

\* A record without name, link and notes is well formed.
LEMMA BlankType ==
  ASSUME NEW state \in {"none", "live", "erased"}
  PROVE  /\ Blank(state) \in RecordType /\ Blank(state).state = state /\ Blank(state).linked = FALSE
         /\ Blank(state).notes = NoNotes
BY NotesNone DEF Blank, RecordType

\* The parts of the invariant that a step has to account for.
LEMMA ClientsHold ==
  ASSUME ClientsTypeOK', WithdrawalStands', TombstoneIsBare', NoNoteLost', AskedOK', LocksOK', FreshOK',
         ConfirmingOK'
  PROVE  ClientsIInv'
BY DEF ClientsIInv, ClientsInv

\* Writing one request leaves the others.
LEMMA AskedWritten ==
  ASSUME ClientsIInv, NEW x \in Asked, NEW r \in AskedType, asked' = [asked EXCEPT ![x] = r]
  PROVE  asked' \in [Asked -> AskedType] /\ \A y \in Asked : asked'[y] = IF y = x THEN r ELSE asked[y]
BY ClientsFacts

\* A request that ends gives its locks back, and leaves the others.
LEMMA EndsOK ==
  ASSUME ClientsIInv, NEW x \in Asked, Ends(x)
  PROVE  /\ asked' \in [Asked -> AskedType] /\ asked'[x] = NotAsked
         /\ \A y \in Asked : y # x => asked'[y] = asked[y]
         /\ \A y \in Asked : asked'[y] = asked[y] \/ asked'[y].pc = "idle"
BY AskedWritten, NotAskedType DEF Ends

\* Requests that stay as they are or end keep the locks exclusive.
LEMMA LocksKept ==
  ASSUME ClientsIInv, \A y \in Asked : asked'[y] = asked[y] \/ asked'[y].pc = "idle"
  PROVE  LocksOK'
BY DEF ClientsIInv, LocksOK, At

\* A request begins, goes on to its second step, or ends: it alone changes.
LEMMA AskStep ==
  ASSUME ClientsIInv, NEW x \in Asked, NEW r \in AskedType, asked' = [asked EXCEPT ![x] = r],
         r.pc \in {"noting", "consenting"} => r.on \in 1 .. MaxRecords,
         r.pc = "noting" => records[r.on].state = "live" /\ r.notes = records[r.on].notes /\ ShareFree(r.on),
         r.pc = "confirming" => r.on \in DOMAIN ticks /\ ~ WithdrawnSince(r.on),
         r.pc = "placing" /\ r.proof # 0 => r.proof = session,
         r.pc \in {"placing", "confirming"} => BookingLock,
         UNCHANGED <<records, consentLog, ticks, session, sent>>
  PROVE  ClientsIInv'
<1>1. asked' \in [Asked -> AskedType] /\ \A y \in Asked : asked'[y] = IF y = x THEN r ELSE asked[y]
  BY AskedWritten
<1>2. ClientsTypeOK'
  BY <1>1 DEF ClientsIInv, ClientsInv, ClientsTypeOK
<1>3. WithdrawalStands' /\ TombstoneIsBare' /\ NoNoteLost' /\ FreshOK'
  BY DEF ClientsIInv, ClientsInv, WithdrawalStands, TombstoneIsBare, NoNoteLost, FreshOK
<1>4. AskedOK'
  BY <1>1 DEF ClientsIInv, AskedOK
<1>5. LocksOK'
  <2>1. ASSUME NEW y \in Asked, NEW z \in Asked, asked'[y].pc \in {"placing", "confirming"},
               asked'[z].pc \in {"placing", "confirming"}
        PROVE  y = z
    BY <1>1, <2>1 DEF ClientsIInv, LocksOK, BookingLock, At
  <2>2. ASSUME NEW y \in Asked, NEW z \in Asked, asked'[y].pc = "noting", asked'[z].pc = "noting",
               asked'[y].on = asked'[z].on
        PROVE  y = z
    BY <1>1, <2>2 DEF ClientsIInv, LocksOK, ShareFree, At
  <2> QED
    BY <2>1, <2>2 DEF LocksOK, At
<1>6. ConfirmingOK'
  <2> SUFFICES ASSUME NEW y \in Asked, asked'[y].pc = "confirming", NEW t \in consentLog, NEW w \in consentLog,
                      t.at < w.at, t.kind = "tick", t.booking = asked'[y].on, w.kind = "withdrawal",
                      w.client = ticks[asked'[y].on].client
               PROVE  asked'[y].on \in w.during
    BY DEF ConfirmingOK, At
  <2>1. CASE y = x
    BY <1>1, <2>1 DEF WithdrawnSince
  <2>2. CASE y # x
    BY <1>1, <2>2 DEF ClientsIInv, ConfirmingOK, At
  <2> QED
    BY <2>1, <2>2
<1> QED
  BY <1>2, <1>3, <1>4, <1>5, <1>6, ClientsHold

\* A request between two steps is well formed.
LEMMA BecomesType ==
  ASSUME NEW pc \in {"booking", "placing", "confirming", "consenting", "noting"}, NEW proof \in 0 .. MaxSessions,
         NEW on \in 0 .. MaxRecords + MaxTicks, NEW notes \in [Notes -> 0 .. 1]
  PROVE  LET r == [pc |-> pc, proof |-> proof, on |-> on, notes |-> notes] IN
         r \in AskedType /\ r.pc = pc /\ r.proof = proof /\ r.on = on /\ r.notes = notes
BY DEF AskedType

\* BeginBooking keeps the invariant.
LEMMA BeginBookingOK ==
  ASSUME ClientsIInv, NEW x \in Asked, NEW signedIn \in BOOLEAN, BeginBooking(x, signedIn)
  PROVE  ClientsIInv'
<1>1. PICK proof : proof = IF signedIn THEN session ELSE 0
  OBVIOUS
<1>2. PICK r : r = [pc |-> "booking", proof |-> proof, on |-> 0, notes |-> NoNotes]
  OBVIOUS
<1>3. proof \in 0 .. MaxSessions /\ 0 \in 0 .. MaxRecords + MaxTicks
  BY <1>1, ClientsFacts
<1>4. r \in AskedType /\ r.pc = "booking"
  BY <1>2, <1>3, NotesNone, BecomesType
<1>5. asked' = [asked EXCEPT ![x] = r] /\ UNCHANGED <<records, consentLog, ticks, session, sent>>
  BY <1>1, <1>2 DEF BeginBooking, Becomes
<1> QED
  BY <1>4, <1>5, AskStep

\* ClientRefused keeps the invariant.
LEMMA ClientRefusedOK ==
  ASSUME ClientsIInv, NEW x \in Asked, Ends(x), UNCHANGED <<records, consentLog, ticks, session, sent>>
  PROVE  ClientsIInv'
BY NotAskedType, AskStep DEF Ends

\* HoldSession keeps the invariant.
LEMMA HoldSessionOK ==
  ASSUME ClientsIInv, NEW x \in Asked, HoldSession(x)
  PROVE  ClientsIInv'
<1>1. CASE ProofHeld(asked[x].proof)
  <2>1. PICK proof, r : proof = asked[x].proof /\ r = [pc |-> "placing", proof |-> proof, on |-> 0, notes |-> NoNotes]
    OBVIOUS
  <2>2. proof \in 0 .. MaxSessions /\ 0 \in 0 .. MaxRecords + MaxTicks
    BY <2>1, ClientsFacts DEF AskedType
  <2>3. r \in AskedType /\ r.pc = "placing" /\ r.proof = proof
    BY <2>1, <2>2, NotesNone, BecomesType
  <2>4. asked' = [asked EXCEPT ![x] = r] /\ BookingLock /\ UNCHANGED <<records, consentLog, ticks, session, sent>>
    BY <1>1, <2>1 DEF HoldSession, Becomes
  <2>5. proof # 0 => proof = session
    BY <1>1, <2>1 DEF ProofHeld
  <2> QED
    BY <2>3, <2>4, <2>5, AskStep
<1>2. CASE ~ ProofHeld(asked[x].proof)
  BY <1>2, ClientRefusedOK DEF HoldSession
<1> QED
  BY <1>1, <1>2

\* BeginConfirm keeps the invariant.
LEMMA BeginConfirmOK ==
  ASSUME ClientsIInv, NEW x \in Asked, NEW b \in DOMAIN ticks, BeginConfirm(x, b)
  PROVE  ClientsIInv'
<1>1. PICK r : r = [pc |-> "confirming", proof |-> 0, on |-> b, notes |-> NoNotes]
  OBVIOUS
<1>2. b \in 0 .. MaxRecords + MaxTicks /\ 0 \in 0 .. MaxSessions
  BY ClientsFacts
<1>3. r \in AskedType /\ r.pc = "confirming" /\ r.on = b
  BY <1>1, <1>2, NotesNone, BecomesType
<1>4. /\ asked' = [asked EXCEPT ![x] = r] /\ BookingLock /\ ~ WithdrawnSince(b)
      /\ UNCHANGED <<records, consentLog, ticks, session, sent>>
  BY <1>1 DEF BeginConfirm, Becomes, PendingConsents
<1> QED
  BY <1>3, <1>4, AskStep

\* Taking a lock on a client's row, for consents or for notes, keeps the invariant.
LEMMA BeginOnRowOK ==
  ASSUME ClientsIInv, NEW x \in Asked, NEW c \in 1 .. MaxRecords, BeginConsents(x, c) \/ BeginNotes(x, c)
  PROVE  ClientsIInv'
<1>1. PICK pc, notes : \/ pc = "consenting" /\ notes = NoNotes /\ BeginConsents(x, c)
                       \/ pc = "noting" /\ notes = records[c].notes /\ BeginNotes(x, c)
  OBVIOUS
<1>2. PICK r : r = [pc |-> pc, proof |-> 0, on |-> c, notes |-> notes]
  OBVIOUS
<1>3. notes \in [Notes -> 0 .. 1] /\ pc \in {"consenting", "noting"}
  BY <1>1, NotesNone, ClientsFacts DEF RecordType
<1>4. c \in 0 .. MaxRecords + MaxTicks /\ 0 \in 0 .. MaxSessions
  BY ClientsFacts
<1>5. r \in AskedType /\ r.pc = pc /\ r.on = c /\ r.notes = notes
  BY <1>2, <1>3, <1>4, BecomesType
<1>6. /\ asked' = [asked EXCEPT ![x] = r] /\ records[c].state = "live"
      /\ UNCHANGED <<records, consentLog, ticks, session, sent>>
  BY <1>1, <1>2 DEF BeginConsents, BeginNotes, Becomes
<1>7. pc = "noting" => ShareFree(c) /\ notes = records[c].notes
  BY <1>1 DEF BeginNotes, Locks, RowFree, ShareFree, At
<1> QED
  BY <1>3, <1>5, <1>6, <1>7, AskStep

\* An insertion comes after everything in the log.
LEMMA ClockLater ==
  ASSUME NEW at \in Clock
  PROVE  at \in 1 .. MaxLog /\ \A e \in consentLog : e.at < at
BY DEF Clock

\* An entry of the log is well formed.
LEMMA EntryOK ==
  ASSUME NEW at \in 1 .. MaxLog, NEW kind \in {"tick", "grant", "withdrawal"}, NEW c \in 1 .. MaxRecords,
         NEW b \in 0 .. MaxTicks
  PROVE  /\ LogEntry(at, kind, c, b) \in EntryType
         /\ LogEntry(at, kind, c, b).at = at /\ LogEntry(at, kind, c, b).kind = kind
         /\ LogEntry(at, kind, c, b).client = c /\ LogEntry(at, kind, c, b).booking = b
BY DEF LogEntry, EntryType

\* A row later than all the others makes no withdrawal stand less, unless it is a grant itself.
LEMMA LogGrows ==
  ASSUME ClientsIInv, NEW e \in EntryType, \A f \in consentLog : f.at < e.at,
         consentLog' = consentLog \cup {e},
         e.kind = "grant" /\ e.booking # 0 =>
           \A t, w \in consentLog :
             t.at < w.at /\ t.kind = "tick" /\ t.booking = e.booking
               /\ w.kind = "withdrawal" /\ w.client = e.client => e.booking \in w.during
  PROVE  WithdrawalStands'
<1> SUFFICES ASSUME NEW g \in consentLog', g.kind = "grant", g.booking # 0,
                    NEW t \in consentLog', NEW w \in consentLog', t.at < w.at, w.at < g.at, t.kind = "tick",
                    t.booking = g.booking, w.kind = "withdrawal", w.client = g.client,
                    g.booking \notin w.during
             PROVE  FALSE
  BY DEF WithdrawalStands
<1>1. /\ \A f \in consentLog : f.at \in Nat
      /\ e.at \in Nat
  BY ClientsFacts DEF EntryType
<1>2. w \in consentLog
  BY <1>1
<1>3. t \in consentLog
  BY <1>1, <1>2
<1>4. CASE g = e
  BY <1>2, <1>3, <1>4
<1>5. CASE g \in consentLog
  BY <1>2, <1>3, <1>5 DEF ClientsIInv, ClientsInv, WithdrawalStands
<1> QED
  BY <1>4, <1>5

\* A booking leaves the row it finds live, with the notes it had.
LEMMA UpsertedOK ==
  ASSUME NEW r \in RecordType, NEW proven \in BOOLEAN, r.state # "erased",
         r.state = "none" => ~ r.linked /\ r.notes = NoNotes
  PROVE  /\ Upserted(r, proven) \in RecordType /\ Upserted(r, proven).state = "live"
         /\ Upserted(r, proven).notes = r.notes
         /\ ~ proven => /\ Upserted(r, proven).linked = r.linked
                        /\ r.state = "live" => Upserted(r, proven) = r
<1>1. r.state \in {"none", "live"} /\ r.linked \in BOOLEAN
  BY DEF RecordType
<1>2. CASE r.state = "none"
  <2>1. PICK name : name = IF proven THEN "person" ELSE "guest"
    OBVIOUS
  <2>2. name \in {"", "guest", "person", "merchant"}
    BY <2>1
  <2>3. Upserted(r, proven) = [state |-> "live", linked |-> proven, name |-> name, notes |-> NoNotes]
    BY <1>2, <2>1 DEF Upserted, Blank
  <2>4. r.linked = FALSE
    BY <1>1, <1>2
  <2>5. [state |-> "live", linked |-> proven, name |-> name, notes |-> NoNotes] \in RecordType
    BY <2>2, NotesNone DEF RecordType
  <2>6. Upserted(r, proven).state = "live" /\ Upserted(r, proven).notes = NoNotes /\ Upserted(r, proven).linked = proven
    BY <2>3
  <2>7. ~ proven => proven = FALSE
    OBVIOUS
  <2> QED
    BY <1>2, <2>3, <2>4, <2>5, <2>6, <2>7
<1>3. CASE r.state = "live" /\ proven
  <2>1. Upserted(r, proven) = [r EXCEPT !.linked = TRUE, !.name = "person"]
    BY <1>3 DEF Upserted
  <2> QED
    BY <1>3, <2>1 DEF RecordType
<1>4. CASE r.state = "live" /\ ~ proven
  BY <1>4 DEF Upserted
<1> QED
  BY <1>1, <1>2, <1>3, <1>4

\* A live row is made, or its name and link are rewritten, while nobody has it locked.
LEMMA RowWritten ==
  ASSUME ClientsIInv, NEW c \in 1 .. MaxRecords, NEW r \in RecordType, records' = [records EXCEPT ![c] = r],
         records[c].state # "erased", r.state = "live", r.notes = records[c].notes, UNCHANGED sent
  PROVE  /\ records' \in [1 .. MaxRecords -> RecordType]
         /\ \A d \in 1 .. MaxRecords : records'[d] = IF d = c THEN r ELSE records[d]
         /\ NoNoteLost' /\ FreshOK'
<1>1. /\ records' \in [1 .. MaxRecords -> RecordType]
      /\ \A d \in 1 .. MaxRecords : records'[d] = IF d = c THEN r ELSE records[d]
  BY ClientsFacts
<1>2. NoNoteLost'
  BY <1>1 DEF ClientsIInv, ClientsInv, NoNoteLost
<1>3. FreshOK'
  BY <1>1 DEF ClientsIInv, FreshOK
<1> QED
  BY <1>1, <1>2, <1>3

\* A booking with a tick is added behind those there are.
LEMMA TickAdded ==
  ASSUME ClientsIInv, NEW tick \in TickType, Len(ticks) < MaxTicks, ticks' = Append(ticks, tick)
  PROVE  /\ ticks' \in Seq(TickType) /\ Len(ticks') <= MaxTicks /\ DOMAIN ticks \subseteq DOMAIN ticks'
         /\ Len(ticks) + 1 \in 0 .. MaxTicks
BY ClientsFacts

\* The row a booking is for, and what it writes to it.
LEMMA PlacedRow ==
  ASSUME ClientsIInv, NEW x \in Asked, NEW tick \in BOOLEAN, PlaceForClient(x, tick)
  PROVE  \E c \in 1 .. MaxRecords, at \in Clock, r \in RecordType :
           /\ asked[x].pc = "placing" /\ Ends(x) /\ UNCHANGED <<session, sent>>
           /\ records[c].state \in {"none", "live"} /\ RowFree(c)
           /\ r = Upserted(records[c], asked[x].proof # 0) /\ r.state = "live" /\ r.notes = records[c].notes
           /\ records' = [records EXCEPT ![c] = r]
           /\ \/ /\ Len(ticks) < MaxTicks
                 /\ ticks' = Append(ticks, [client |-> c, live |-> TRUE, confirmed |-> FALSE])
                 /\ consentLog' = consentLog \cup {LogEntry(at, "tick", c, Len(ticks) + 1)}
              \/ UNCHANGED <<ticks, consentLog>>
              \/ UNCHANGED ticks /\ consentLog' = consentLog \cup {LogEntry(at, "withdrawal", c, 0)}
<1>1. PICK c \in IF Found # {} THEN Found ELSE NextRecord, at \in Clock :
        /\ RowFree(c)
        /\ records' = [records EXCEPT ![c] = Upserted(@, asked[x].proof # 0)]
        /\ \/ /\ tick /\ Len(ticks) < MaxTicks
              /\ ticks' = Append(ticks, [client |-> c, live |-> TRUE, confirmed |-> FALSE])
              /\ consentLog' = consentLog \cup {LogEntry(at, "tick", c, Len(ticks) + 1)}
           \/ /\ ~ tick /\ UNCHANGED ticks
              /\ consentLog' = IF asked[x].proof = 0 THEN consentLog
                               ELSE consentLog \cup {LogEntry(at, "withdrawal", c, 0)}
  BY DEF PlaceForClient
<1>2. c \in 1 .. MaxRecords /\ records[c].state \in {"none", "live"}
  BY <1>1 DEF Found, NextRecord
<1>3. PICK proven, r : proven \in BOOLEAN /\ proven = (asked[x].proof # 0) /\ r = Upserted(records[c], proven)
  OBVIOUS
<1>4. /\ records[c] \in RecordType /\ records[c].state # "erased"
      /\ records[c].state = "none" => ~ records[c].linked /\ records[c].notes = NoNotes
  BY <1>2, ClientsFacts DEF ClientsIInv, FreshOK
<1>5. r \in RecordType /\ r.state = "live" /\ r.notes = records[c].notes
  BY <1>3, <1>4, UpsertedOK
<1>6. records' = [records EXCEPT ![c] = r]
  BY <1>1, <1>2, <1>3, ClientsFacts
<1>7. asked[x].pc = "placing" /\ Ends(x) /\ UNCHANGED <<session, sent>>
  BY DEF PlaceForClient
<1>8. \/ /\ Len(ticks) < MaxTicks
         /\ ticks' = Append(ticks, [client |-> c, live |-> TRUE, confirmed |-> FALSE])
         /\ consentLog' = consentLog \cup {LogEntry(at, "tick", c, Len(ticks) + 1)}
      \/ UNCHANGED <<ticks, consentLog>>
      \/ UNCHANGED ticks /\ consentLog' = consentLog \cup {LogEntry(at, "withdrawal", c, 0)}
  BY <1>1
<1> QED
  BY <1>1, <1>2, <1>3, <1>5, <1>6, <1>7, <1>8

\* PlaceForClient keeps the invariant.
LEMMA PlaceForClientOK ==
  ASSUME ClientsIInv, NEW x \in Asked, NEW tick \in BOOLEAN, PlaceForClient(x, tick)
  PROVE  ClientsIInv'
<1>1. PICK c \in 1 .. MaxRecords, at \in Clock, r \in RecordType :
        /\ asked[x].pc = "placing" /\ Ends(x) /\ UNCHANGED <<session, sent>>
        /\ records[c].state \in {"none", "live"} /\ RowFree(c)
        /\ r = Upserted(records[c], asked[x].proof # 0) /\ r.state = "live" /\ r.notes = records[c].notes
        /\ records' = [records EXCEPT ![c] = r]
        /\ \/ /\ Len(ticks) < MaxTicks
              /\ ticks' = Append(ticks, [client |-> c, live |-> TRUE, confirmed |-> FALSE])
              /\ consentLog' = consentLog \cup {LogEntry(at, "tick", c, Len(ticks) + 1)}
           \/ UNCHANGED <<ticks, consentLog>>
           \/ UNCHANGED ticks /\ consentLog' = consentLog \cup {LogEntry(at, "withdrawal", c, 0)}
  BY PlacedRow
<1>2. /\ records' \in [1 .. MaxRecords -> RecordType]
      /\ \A d \in 1 .. MaxRecords : records'[d] = IF d = c THEN r ELSE records[d]
      /\ NoNoteLost' /\ FreshOK'
  BY <1>1, RowWritten
<1>3. /\ asked' \in [Asked -> AskedType] /\ asked'[x].pc = "idle"
      /\ \A y \in Asked : y # x => asked'[y] = asked[y]
      /\ \A y \in Asked : asked'[y] = asked[y] \/ asked'[y].pc = "idle"
  BY <1>1, EndsOK, NotAskedType
<1>4. /\ ticks' \in Seq(TickType) /\ Len(ticks') <= MaxTicks /\ DOMAIN ticks \subseteq DOMAIN ticks'
      /\ consentLog' \subseteq EntryType /\ WithdrawalStands'
      /\ \A e \in consentLog' : e \in consentLog \/ e.client = c
  <2>1. at \in 1 .. MaxLog /\ (\A e \in consentLog : e.at < at) /\ 0 \in 0 .. MaxTicks
    BY ClockLater, ClientsFacts
  <2>2. CASE UNCHANGED <<ticks, consentLog>>
    BY <2>2, ClientsFacts DEF ClientsIInv, ClientsInv, WithdrawalStands
  <2>3. CASE /\ Len(ticks) < MaxTicks
             /\ ticks' = Append(ticks, [client |-> c, live |-> TRUE, confirmed |-> FALSE])
             /\ consentLog' = consentLog \cup {LogEntry(at, "tick", c, Len(ticks) + 1)}
    <3>1. [client |-> c, live |-> TRUE, confirmed |-> FALSE] \in TickType
      BY DEF TickType
    <3>2. /\ ticks' \in Seq(TickType) /\ Len(ticks') <= MaxTicks /\ DOMAIN ticks \subseteq DOMAIN ticks'
          /\ Len(ticks) + 1 \in 0 .. MaxTicks
      BY <2>3, <3>1, TickAdded
    <3>3. PICK e : e = LogEntry(at, "tick", c, Len(ticks) + 1)
      OBVIOUS
    <3>4. e \in EntryType /\ e.at = at /\ e.kind = "tick" /\ e.client = c
      BY <2>1, <3>2, <3>3, EntryOK
    <3>5. consentLog' = consentLog \cup {e}
      BY <2>3, <3>3
    <3>6. WithdrawalStands'
      BY <2>1, <3>4, <3>5, LogGrows
    <3> QED
      BY <3>2, <3>4, <3>5, <3>6, ClientsFacts
  <2>4. CASE UNCHANGED ticks /\ consentLog' = consentLog \cup {LogEntry(at, "withdrawal", c, 0)}
    <3>1. PICK e : e = LogEntry(at, "withdrawal", c, 0)
      OBVIOUS
    <3>2. e \in EntryType /\ e.at = at /\ e.kind = "withdrawal" /\ e.client = c
      BY <2>1, <3>1, EntryOK
    <3>3. consentLog' = consentLog \cup {e}
      BY <2>4, <3>1
    <3>4. WithdrawalStands'
      BY <2>1, <3>2, <3>3, LogGrows
    <3> QED
      BY <2>4, <3>2, <3>3, <3>4, ClientsFacts
  <2> QED
    BY <1>1, <2>2, <2>3, <2>4
<1>5. ClientsTypeOK'
  BY <1>1, <1>2, <1>3, <1>4, ClientsFacts DEF ClientsTypeOK
<1>6. TombstoneIsBare'
  <2> SUFFICES ASSUME NEW e \in consentLog', records'[e.client].state = "erased"
               PROVE  e.kind = "tick"
    BY DEF TombstoneIsBare
  <2>1. e.client # c
    BY <1>1, <1>2
  <2>2. e \in consentLog /\ e.client \in 1 .. MaxRecords
    BY <1>4, <2>1, ClientsFacts
  <2> QED
    BY <1>2, <2>1, <2>2 DEF ClientsIInv, ClientsInv, TombstoneIsBare
<1>7. \A y \in Asked : asked'[y].pc # "confirming"
  BY <1>1, <1>3 DEF ClientsIInv, LocksOK, At
<1>8. AskedOK'
  <2>1. \A y \in Asked : asked[y].pc = "noting" => asked[y].on # c
    BY <1>1 DEF RowFree, At
  <2> QED
    BY <1>1, <1>2, <1>3, <1>7, <2>1 DEF ClientsIInv, AskedOK
<1>9. LocksOK' /\ ConfirmingOK'
  BY <1>3, <1>7, LocksKept DEF ConfirmingOK, At
<1> QED
  BY <1>2, <1>4, <1>5, <1>6, <1>8, <1>9, ClientsHold

\* A booking's tick changes, and is the same client's still.
LEMMA TickWritten ==
  ASSUME ClientsIInv, NEW b \in DOMAIN ticks, NEW tick \in TickType, ticks' = [ticks EXCEPT ![b] = tick]
  PROVE  /\ ticks' \in Seq(TickType) /\ Len(ticks') <= MaxTicks /\ DOMAIN ticks' = DOMAIN ticks
         /\ \A d \in DOMAIN ticks : ticks'[d] = IF d = b THEN tick ELSE ticks[d]
BY ClientsFacts

\* ConfirmConsents keeps the invariant.
LEMMA ConfirmConsentsOK ==
  ASSUME ClientsIInv, NEW x \in Asked, ConfirmConsents(x)
  PROVE  ClientsIInv'
<1>1. PICK b, c : b = asked[x].on /\ c = ticks[b].client
  OBVIOUS
<1>2. PICK at \in Clock : consentLog' = consentLog \cup {LogEntry(at, "grant", c, b)}
  BY <1>1 DEF ConfirmConsents
<1>3. /\ asked[x].pc = "confirming" /\ Attaches(c) /\ ticks' = [ticks EXCEPT ![b].confirmed = TRUE]
      /\ Ends(x) /\ UNCHANGED <<records, session, sent>>
  BY <1>1 DEF ConfirmConsents
<1>4. b \in DOMAIN ticks /\ b \in 0 .. MaxTicks /\ b # 0 /\ c \in 1 .. MaxRecords
  <2>1. b \in DOMAIN ticks
    BY <1>1, <1>3 DEF ClientsIInv, AskedOK
  <2> QED
    BY <1>1, <2>1, ClientsFacts
<1>5. PICK tick : tick = [ticks[b] EXCEPT !.confirmed = TRUE]
  OBVIOUS
<1>6. tick \in TickType /\ ticks' = [ticks EXCEPT ![b] = tick]
  <2>1. ticks[b] \in TickType
    BY <1>4, ClientsFacts
  <2> QED
    BY <1>3, <1>5, <2>1 DEF TickType
<1>7. ticks' \in Seq(TickType) /\ Len(ticks') <= MaxTicks /\ DOMAIN ticks' = DOMAIN ticks
  BY <1>4, <1>6, TickWritten
<1>8. at \in 1 .. MaxLog /\ \A e \in consentLog : e.at < at
  BY ClockLater
<1>9. PICK e : e = LogEntry(at, "grant", c, b)
  OBVIOUS
<1>10. e \in EntryType /\ e.at = at /\ e.kind = "grant" /\ e.client = c /\ e.booking = b
  BY <1>4, <1>8, <1>9, EntryOK
<1>11. consentLog' = consentLog \cup {e}
  BY <1>2, <1>9
<1>12. WithdrawalStands'
  <2>1. ASSUME NEW t \in consentLog, NEW w \in consentLog, t.at < w.at, t.kind = "tick", t.booking = b,
               w.kind = "withdrawal", w.client = c
        PROVE  b \in w.during
    BY <1>1, <1>3, <2>1 DEF ClientsIInv, ConfirmingOK, At
  <2> QED
    BY <1>8, <1>10, <1>11, <2>1, LogGrows
<1>13. /\ asked' \in [Asked -> AskedType] /\ asked'[x].pc = "idle"
       /\ \A y \in Asked : y # x => asked'[y] = asked[y]
       /\ \A y \in Asked : asked'[y] = asked[y] \/ asked'[y].pc = "idle"
  BY <1>3, EndsOK, NotAskedType
<1>14. ClientsTypeOK'
  BY <1>3, <1>7, <1>10, <1>11, <1>13, ClientsFacts DEF ClientsTypeOK
<1>15. TombstoneIsBare'
  BY <1>3, <1>10, <1>11 DEF ClientsIInv, ClientsInv, TombstoneIsBare, Attaches
<1>16. NoNoteLost' /\ FreshOK'
  BY <1>3 DEF ClientsIInv, ClientsInv, NoNoteLost, FreshOK
<1>17. AskedOK'
  BY <1>3, <1>7, <1>13 DEF ClientsIInv, AskedOK
<1>18. LocksOK'
  BY <1>13, LocksKept
<1>19. ConfirmingOK'
  <2>1. \A y \in Asked : asked'[y].pc # "confirming"
    BY <1>3, <1>13 DEF ClientsIInv, LocksOK, At
  <2> QED
    BY <2>1 DEF ConfirmingOK, At
<1> QED
  BY <1>12, <1>14, <1>15, <1>16, <1>17, <1>18, <1>19, ClientsHold

\* While nobody confirms, a tick's link may end: nothing else looks at it.
LEMMA LinkEndsOK ==
  ASSUME ClientsIInv, NEW b \in DOMAIN ticks, LinkEnds(b)
  PROVE  ClientsIInv'
<1>1. /\ BookingLock /\ ticks' = [ticks EXCEPT ![b].live = FALSE]
      /\ UNCHANGED <<records, consentLog, session, asked, sent>>
  BY DEF LinkEnds
<1>2. PICK tick : tick = [ticks[b] EXCEPT !.live = FALSE]
  OBVIOUS
<1>3. tick \in TickType /\ ticks' = [ticks EXCEPT ![b] = tick]
  <2>1. ticks[b] \in TickType
    BY ClientsFacts
  <2> QED
    BY <1>1, <1>2, <2>1 DEF TickType
<1>4. ticks' \in Seq(TickType) /\ Len(ticks') <= MaxTicks /\ DOMAIN ticks' = DOMAIN ticks
  BY <1>3, TickWritten
<1>5. ClientsTypeOK'
  BY <1>1, <1>4, ClientsFacts DEF ClientsTypeOK
<1>6. WithdrawalStands' /\ TombstoneIsBare' /\ NoNoteLost' /\ FreshOK'
  BY <1>1 DEF ClientsIInv, ClientsInv, WithdrawalStands, TombstoneIsBare, NoNoteLost, FreshOK
<1>7. AskedOK' /\ LocksOK'
  BY <1>1, <1>4, LocksKept DEF ClientsIInv, AskedOK
<1>8. ConfirmingOK'
  BY <1>1 DEF BookingLock, ConfirmingOK, At
<1> QED
  BY <1>5, <1>6, <1>7, <1>8, ClientsHold

\* CreateClient keeps the invariant.
LEMMA CreateClientOK ==
  ASSUME ClientsIInv, NEW c \in 1 .. MaxRecords, CreateClient(c)
  PROVE  ClientsIInv'
<1>1. PICK r : r = [Blank("live") EXCEPT !.name = "merchant"]
  OBVIOUS
<1>2. r \in RecordType /\ r.state = "live" /\ r.notes = NoNotes
  BY <1>1, BlankType DEF RecordType
<1>3. /\ records[c].state = "none" /\ records' = [records EXCEPT ![c] = r]
      /\ UNCHANGED <<consentLog, ticks, session, asked, sent>>
  BY <1>1 DEF CreateClient, NextRecord
<1>4. records[c].notes = NoNotes
  BY <1>3 DEF ClientsIInv, FreshOK
<1>5. /\ records' \in [1 .. MaxRecords -> RecordType]
      /\ \A d \in 1 .. MaxRecords : records'[d] = IF d = c THEN r ELSE records[d]
      /\ NoNoteLost' /\ FreshOK'
  BY <1>2, <1>3, <1>4, RowWritten
<1>6. ClientsTypeOK'
  BY <1>3, <1>5, ClientsFacts DEF ClientsTypeOK
<1>7. WithdrawalStands' /\ ConfirmingOK' /\ LocksOK'
  BY <1>3 DEF ClientsIInv, ClientsInv, WithdrawalStands, ConfirmingOK, LocksOK, At
<1>8. TombstoneIsBare'
  BY <1>2, <1>3, <1>5, ClientsFacts DEF ClientsIInv, ClientsInv, TombstoneIsBare
<1>9. AskedOK'
  BY <1>3, <1>5 DEF ClientsIInv, AskedOK
<1> QED
  BY <1>5, <1>6, <1>7, <1>8, <1>9, ClientsHold

\* AddConsents keeps the invariant.
LEMMA AddConsentsOK ==
  ASSUME ClientsIInv, NEW x \in Asked, NEW granted \in BOOLEAN, AddConsents(x, granted)
  PROVE  ClientsIInv'
<1>1. PICK c, during : c = asked[x].on /\ during = {asked[y].on : y \in At({"confirming"})}
  OBVIOUS
<1>2. PICK at, e :
        /\ at \in Clock /\ consentLog' = consentLog \cup {e}
        /\ e = IF granted THEN LogEntry(at, "grant", c, 0)
               ELSE [LogEntry(at, "withdrawal", c, 0) EXCEPT !.during = during]
  BY <1>1 DEF AddConsents
<1>3. /\ asked[x].pc = "consenting" /\ Attaches(c) /\ Ends(x) /\ UNCHANGED <<records, ticks, session, sent>>
  BY <1>1 DEF AddConsents
<1>4. c \in 1 .. MaxRecords
  BY <1>1, <1>3 DEF ClientsIInv, AskedOK
<1>5. during \in SUBSET (1 .. MaxTicks)
  <2>1. \A y \in At({"confirming"}) : asked[y].on \in 1 .. MaxTicks
    BY ClientsFacts DEF ClientsIInv, AskedOK, At
  <2> QED
    BY <1>1, <2>1
<1>6. at \in 1 .. MaxLog /\ (\A f \in consentLog : f.at < at) /\ 0 \in 0 .. MaxTicks
  BY <1>2, ClockLater, ClientsFacts
<1>7. /\ e \in EntryType /\ e.at = at /\ e.client = c /\ e.booking = 0 /\ e.kind \in {"grant", "withdrawal"}
      /\ e.kind = "withdrawal" => e.during = during
  <2>1. CASE granted
    BY <1>2, <1>4, <1>6, <2>1, EntryOK
  <2>2. CASE ~ granted
    <3>1. e = [at |-> at, kind |-> "withdrawal", client |-> c, booking |-> 0, during |-> during]
      BY <1>2, <2>2 DEF LogEntry
    <3> QED
      BY <1>4, <1>5, <1>6, <3>1 DEF EntryType
  <2> QED
    BY <2>1, <2>2
<1>8. WithdrawalStands'
  BY <1>2, <1>6, <1>7, LogGrows
<1>9. /\ asked' \in [Asked -> AskedType] /\ asked'[x].pc = "idle"
      /\ \A y \in Asked : y # x => asked'[y] = asked[y]
      /\ \A y \in Asked : asked'[y] = asked[y] \/ asked'[y].pc = "idle"
  BY <1>3, EndsOK, NotAskedType
<1>10. ClientsTypeOK'
  BY <1>2, <1>3, <1>7, <1>9, ClientsFacts DEF ClientsTypeOK
<1>11. TombstoneIsBare'
  BY <1>2, <1>3, <1>7 DEF ClientsIInv, ClientsInv, TombstoneIsBare, Attaches
<1>12. NoNoteLost' /\ FreshOK'
  BY <1>3 DEF ClientsIInv, ClientsInv, NoNoteLost, FreshOK
<1>13. AskedOK'
  BY <1>3, <1>9 DEF ClientsIInv, AskedOK
<1>14. LocksOK'
  BY <1>9, LocksKept
<1>15. ConfirmingOK'
  <2> SUFFICES ASSUME NEW y \in Asked, asked'[y].pc = "confirming", NEW t \in consentLog', NEW w \in consentLog',
                      t.at < w.at, t.kind = "tick", t.booking = asked'[y].on, w.kind = "withdrawal",
                      w.client = ticks'[asked'[y].on].client
               PROVE  asked'[y].on \in w.during
    BY DEF ConfirmingOK, At
  <2>1. asked'[y] = asked[y] /\ y \in At({"confirming"})
    BY <1>9 DEF At
  <2>2. t \in consentLog
    BY <1>2, <1>7
  <2>3. CASE w \in consentLog
    BY <1>3, <2>1, <2>2, <2>3 DEF ClientsIInv, ConfirmingOK
  <2>4. CASE w = e
    BY <1>1, <1>7, <2>1, <2>4
  <2> QED
    BY <1>2, <2>3, <2>4
<1> QED
  BY <1>8, <1>10, <1>11, <1>12, <1>13, <1>14, <1>15, ClientsHold

\* Both notes are written as the request read them, but for the one it was sent.
LEMMA UpdateClientOK ==
  ASSUME ClientsIInv, NEW x \in Asked, NEW k \in Notes, NEW value \in 0 .. 1, NEW owner \in BOOLEAN,
         UpdateClient(x, k, value, owner)
  PROVE  /\ ClientsIInv' /\ asked[x].on \in 1 .. MaxRecords
         /\ \E n \in [Notes -> 0 .. 1] :
              records' = [records EXCEPT ![asked[x].on] = [records[asked[x].on] EXCEPT !.notes = n]]
<1>1. PICK c : c = asked[x].on
  OBVIOUS
<1>2. /\ asked[x].pc = "noting" /\ records[c].state = "live" /\ (k = "internal_note" => owner)
      /\ Ends(x) /\ UNCHANGED <<consentLog, ticks, session>>
  BY <1>1 DEF UpdateClient
<1>3. c \in 1 .. MaxRecords /\ asked[x].notes = records[c].notes
  BY <1>1, <1>2 DEF ClientsIInv, AskedOK
<1>4. records[c] \in RecordType /\ records[c].notes \in [Notes -> 0 .. 1] /\ sent[c] = records[c].notes
  BY <1>3, ClientsFacts DEF RecordType, ClientsIInv, ClientsInv, NoNoteLost
<1>5. PICK n : n = [records[c].notes EXCEPT ![k] = value]
  OBVIOUS
<1>6. n \in [Notes -> 0 .. 1]
  BY <1>4, <1>5
<1>7. records' = [records EXCEPT ![c] = [records[c] EXCEPT !.notes = n]]
  <2>1. PICK after : after = [asked[x].notes EXCEPT ![k] = value]
    OBVIOUS
  <2>2. after = n
    BY <1>3, <1>5, <2>1
  <2>3. CASE owner
    BY <1>1, <2>1, <2>2, <2>3 DEF UpdateClient
  <2>4. CASE ~ owner
    <3>1. k = "client_note"
      BY <1>2, <2>4 DEF Notes
    <3>2. after["client_note"] = value
      BY <1>4, <1>5, <2>2, <3>1
    <3>3. records' = [records EXCEPT ![c].notes = [@ EXCEPT !["client_note"] = after["client_note"]]]
      BY <1>1, <2>1, <2>4 DEF UpdateClient
    <3> QED
      BY <1>5, <3>1, <3>2, <3>3
  <2> QED
    BY <2>3, <2>4
<1>8. sent' = [sent EXCEPT ![c] = n]
  <2>1. sent' = [sent EXCEPT ![c][k] = value]
    BY <1>1 DEF UpdateClient
  <2> QED
    BY <1>4, <1>5, <2>1
<1>9. PICK r : r = [records[c] EXCEPT !.notes = n]
  OBVIOUS
<1>10. r \in RecordType /\ r.state = "live" /\ r.notes = n
  BY <1>2, <1>4, <1>6, <1>9 DEF RecordType
<1>11. /\ records' \in [1 .. MaxRecords -> RecordType]
       /\ \A d \in 1 .. MaxRecords : records'[d] = IF d = c THEN r ELSE records[d]
  BY <1>3, <1>7, <1>9, <1>10, ClientsFacts
<1>12. /\ sent' \in [1 .. MaxRecords -> [Notes -> 0 .. 1]]
       /\ \A d \in 1 .. MaxRecords : sent'[d] = IF d = c THEN n ELSE sent[d]
  BY <1>3, <1>6, <1>8, ClientsFacts
<1>13. /\ asked' \in [Asked -> AskedType] /\ asked'[x].pc = "idle"
       /\ \A y \in Asked : y # x => asked'[y] = asked[y]
       /\ \A y \in Asked : asked'[y] = asked[y] \/ asked'[y].pc = "idle"
  BY <1>2, EndsOK, NotAskedType
<1>14. ClientsTypeOK'
  BY <1>2, <1>11, <1>12, <1>13, ClientsFacts DEF ClientsTypeOK
<1>15. WithdrawalStands'
  BY <1>2 DEF ClientsIInv, ClientsInv, WithdrawalStands
<1>16. TombstoneIsBare'
  BY <1>2, <1>10, <1>11, ClientsFacts DEF ClientsIInv, ClientsInv, TombstoneIsBare
<1>17. NoNoteLost'
  BY <1>10, <1>11, <1>12 DEF ClientsIInv, ClientsInv, NoNoteLost
<1>18. FreshOK'
  BY <1>10, <1>11 DEF ClientsIInv, FreshOK
<1>19. AskedOK'
  <2>1. \A y \in Asked : y # x /\ asked[y].pc = "noting" => asked[y].on # c
    BY <1>1, <1>2 DEF ClientsIInv, LocksOK, At
  <2> QED
    BY <1>2, <1>11, <1>13, <2>1 DEF ClientsIInv, AskedOK
<1>20. LocksOK'
  BY <1>13, LocksKept
<1>21. ConfirmingOK'
  BY <1>2, <1>13 DEF ClientsIInv, ConfirmingOK, At
<1>22. ClientsIInv'
  BY <1>14, <1>15, <1>16, <1>17, <1>18, <1>19, <1>20, <1>21, ClientsHold
<1> QED
  BY <1>1, <1>3, <1>6, <1>7, <1>22

\* EraseClient keeps the invariant.
LEMMA EraseClientOK ==
  ASSUME ClientsIInv, NEW c \in 1 .. MaxRecords, EraseClient(c)
  PROVE  ClientsIInv'
<1>1. /\ BookingLock /\ RowFree(c) /\ records' = [records EXCEPT ![c] = Blank("erased")]
      /\ ticks' = [b \in DOMAIN ticks |-> IF ticks[b].client = c THEN [ticks[b] EXCEPT !.live = FALSE] ELSE ticks[b]]
      /\ sent' = [sent EXCEPT ![c] = NoNotes] /\ UNCHANGED <<session, asked>>
      /\ consentLog' = {e \in consentLog : e.kind = "tick" \/ e.client # c}
  BY DEF EraseClient, Tombstone
<1>2. /\ records' \in [1 .. MaxRecords -> RecordType]
      /\ \A d \in 1 .. MaxRecords : records'[d] = IF d = c THEN Blank("erased") ELSE records[d]
  BY <1>1, BlankType, ClientsFacts
<1>3. /\ sent' \in [1 .. MaxRecords -> [Notes -> 0 .. 1]]
      /\ \A d \in 1 .. MaxRecords : sent'[d] = IF d = c THEN NoNotes ELSE sent[d]
  BY <1>1, NotesNone, ClientsFacts
<1>4. ticks' \in Seq(TickType) /\ Len(ticks') <= MaxTicks /\ DOMAIN ticks' = DOMAIN ticks
  <2>1. \A b \in 1 .. Len(ticks) : [ticks[b] EXCEPT !.live = FALSE] \in TickType
    BY ClientsFacts DEF TickType
  <2>2. ticks' \in [1 .. Len(ticks) -> TickType]
    BY <1>1, <2>1, ClientsFacts
  <2> QED
    BY <2>2, ClientsFacts
<1>5. consentLog' \subseteq consentLog
  BY <1>1
<1>6. ClientsTypeOK'
  BY <1>1, <1>2, <1>3, <1>4, <1>5, ClientsFacts DEF ClientsTypeOK
<1>7. WithdrawalStands'
  BY <1>5 DEF ClientsIInv, ClientsInv, WithdrawalStands
<1>8. TombstoneIsBare'
  BY <1>1, <1>2, ClientsFacts DEF ClientsIInv, ClientsInv, TombstoneIsBare
<1>9. NoNoteLost' /\ FreshOK'
  BY <1>2, <1>3, BlankType DEF ClientsIInv, ClientsInv, NoNoteLost, FreshOK
<1>10. AskedOK'
  <2>1. \A y \in Asked : asked[y].pc = "noting" => asked[y].on # c
    BY <1>1 DEF RowFree, At
  <2> QED
    BY <1>1, <1>2, <1>4, <2>1 DEF ClientsIInv, AskedOK
<1>11. LocksOK' /\ ConfirmingOK'
  BY <1>1, LocksKept DEF BookingLock, ConfirmingOK, At
<1> QED
  BY <1>6, <1>7, <1>8, <1>9, <1>10, <1>11, ClientsHold

\* Signing in, and a session that ends, keep the invariant.
LEMMA SessionChangesOK ==
  ASSUME ClientsIInv, SignsIn \/ SessionEnds
  PROVE  ClientsIInv'
<1>1. UNCHANGED <<records, consentLog, ticks, asked, sent>>
  BY DEF SignsIn, SessionEnds
<1>2. session' \in 0 .. MaxSessions
  BY ClientsFacts DEF SignsIn, SessionEnds
<1>3. \A x \in Asked : ~ (asked[x].pc = "placing" /\ asked[x].proof # 0)
  BY DEF ClientsIInv, AskedOK, SignsIn, SessionEnds, At
<1>4. ClientsTypeOK'
  BY <1>1, <1>2 DEF ClientsIInv, ClientsInv, ClientsTypeOK
<1>5. WithdrawalStands' /\ TombstoneIsBare' /\ NoNoteLost' /\ FreshOK'
  BY <1>1 DEF ClientsIInv, ClientsInv, WithdrawalStands, TombstoneIsBare, NoNoteLost, FreshOK
<1>6. AskedOK'
  BY <1>1, <1>3 DEF ClientsIInv, AskedOK
<1>7. LocksOK' /\ ConfirmingOK'
  BY <1>1 DEF ClientsIInv, LocksOK, ConfirmingOK, At
<1> QED
  BY <1>4, <1>5, <1>6, <1>7, ClientsHold

\* The invariant holds at the start.
LEMMA ClientsStart == ClientsInit => ClientsIInv
<1> SUFFICES ASSUME ClientsInit PROVE ClientsIInv
  OBVIOUS
<1>1. ClientsTypeOK
  BY BlankType, NotesNone, NotAskedType, ClientsAssumption DEF ClientsInit, ClientsTypeOK
<1>2. WithdrawalStands /\ TombstoneIsBare /\ ConfirmingOK
  BY DEF ClientsInit, WithdrawalStands, TombstoneIsBare, ConfirmingOK
<1>3. NoNoteLost /\ FreshOK
  BY BlankType DEF ClientsInit, NoNoteLost, FreshOK
<1>4. AskedOK /\ LocksOK
  BY NotAskedType DEF ClientsInit, AskedOK, LocksOK, At
<1> QED
  BY <1>1, <1>2, <1>3, <1>4 DEF ClientsIInv, ClientsInv

\* Every step keeps the invariant.
LEMMA ClientsPreserved == ClientsIInv /\ [ClientsNext]_clientVars => ClientsIInv'
<1> SUFFICES ASSUME ClientsIInv, [ClientsNext]_clientVars PROVE ClientsIInv'
  OBVIOUS
<1>1. ASSUME NEW x \in Asked, NEW yes \in BOOLEAN,
             BeginBooking(x, yes) \/ PlaceForClient(x, yes) \/ AddConsents(x, yes)
      PROVE  ClientsIInv'
  BY <1>1, BeginBookingOK, PlaceForClientOK, AddConsentsOK
<1>2. ASSUME NEW x \in Asked, HoldSession(x) \/ ClientRefused(x) \/ ConfirmConsents(x)
      PROVE  ClientsIInv'
  BY <1>2, HoldSessionOK, ClientRefusedOK, ConfirmConsentsOK DEF ClientRefused
<1>3. ASSUME NEW x \in Asked, NEW b \in DOMAIN ticks, BeginConfirm(x, b)
      PROVE  ClientsIInv'
  BY <1>3, BeginConfirmOK
<1>4. ASSUME NEW x \in Asked, NEW c \in 1 .. MaxRecords, BeginConsents(x, c) \/ BeginNotes(x, c)
      PROVE  ClientsIInv'
  BY <1>4, BeginOnRowOK
<1>5. ASSUME NEW x \in Asked, NEW k \in Notes, NEW value \in 0 .. 1, NEW owner \in BOOLEAN,
             UpdateClient(x, k, value, owner)
      PROVE  ClientsIInv'
  BY <1>5, UpdateClientOK
<1>6. ASSUME NEW b \in DOMAIN ticks, LinkEnds(b)
      PROVE  ClientsIInv'
  BY <1>6, LinkEndsOK
<1>7. ASSUME NEW c \in 1 .. MaxRecords, CreateClient(c) \/ EraseClient(c)
      PROVE  ClientsIInv'
  BY <1>7, CreateClientOK, EraseClientOK
<1>8. CASE SignsIn \/ SessionEnds
  BY <1>8, SessionChangesOK
<1>9. CASE UNCHANGED clientVars
  <2>1. UNCHANGED <<records, consentLog, ticks, session, asked, sent>>
    BY <1>9 DEF clientVars
  <2>2. ClientsTypeOK'
    BY <2>1 DEF ClientsIInv, ClientsInv, ClientsTypeOK
  <2>3. WithdrawalStands' /\ TombstoneIsBare' /\ NoNoteLost' /\ FreshOK'
    BY <2>1 DEF ClientsIInv, ClientsInv, WithdrawalStands, TombstoneIsBare, NoNoteLost, FreshOK
  <2>4. AskedOK' /\ LocksOK' /\ ConfirmingOK'
    BY <2>1 DEF ClientsIInv, AskedOK, LocksOK, ConfirmingOK, At
  <2> QED
    BY <2>2, <2>3, <2>4, ClientsHold
<1> QED
  BY <1>1, <1>2, <1>3, <1>4, <1>5, <1>6, <1>7, <1>8, <1>9 DEF ClientsNext

\* Of two requests about one client at once neither undoes the other: no tick is confirmed over a
\* withdrawal that came after it, an erased client has no consent on file, and both of two members who
\* write a client's notes keep what they sent (find_or_create, pending_consents, add_consents,
\* update_client, erase_client_core).
THEOREM ClientsSound == ClientsSpec => []ClientsInv
<1>1. ClientsIInv => ClientsInv
  BY DEF ClientsIInv
<1> QED
  BY <1>1, ClientsStart, ClientsPreserved, PTL DEF ClientsSpec

\* What a step may do to a client's row.
Theirs ==
  \A c \in 1 .. MaxRecords :
    LET was == records[c] is == records'[c] IN
    is.state = "live" /\ (is.linked # was.linked \/ (was.state = "live" /\ is.name # was.name)) =>
      \E x \in At({"placing"}) : asked[x].proof = session /\ session # 0 /\ asked'[x].pc = "idle"

\* A step that writes no client's row changes nothing of theirs.
LEMMA RowsUntouched ==
  ASSUME UNCHANGED records
  PROVE  Theirs
BY DEF Theirs

\* A booking changes a name or a link only under the session it was proved with.
LEMMA PlacedByTheirs ==
  ASSUME ClientsIInv, NEW x \in Asked, NEW tick \in BOOLEAN, PlaceForClient(x, tick)
  PROVE  Theirs
<1>1. PICK c \in 1 .. MaxRecords, r \in RecordType :
        /\ asked[x].pc = "placing" /\ Ends(x)
        /\ records[c].state \in {"none", "live"}
        /\ r = Upserted(records[c], asked[x].proof # 0)
        /\ records' = [records EXCEPT ![c] = r]
  BY PlacedRow
<1>2. asked'[x].pc = "idle"
  BY <1>1, EndsOK, NotAskedType
<1>3. CASE asked[x].proof # 0
  <2>1. asked[x].proof = session
    BY <1>1, <1>3 DEF ClientsIInv, AskedOK
  <2> QED
    BY <1>1, <1>2, <1>3, <2>1 DEF Theirs, At
<1>4. CASE asked[x].proof = 0
  <2>1. PICK proven \in BOOLEAN : proven = (asked[x].proof # 0)
    OBVIOUS
  <2>2. ~ proven /\ r = Upserted(records[c], proven)
    BY <1>1, <1>4, <2>1
  <2>3. /\ records[c] \in RecordType /\ records[c].state # "erased"
        /\ records[c].state = "none" => ~ records[c].linked /\ records[c].notes = NoNotes
    BY <1>1, ClientsFacts DEF ClientsIInv, FreshOK
  <2>4. r.linked = records[c].linked /\ (records[c].state = "live" => r = records[c])
    BY <2>2, <2>3, UpsertedOK
  <2>5. \A d \in 1 .. MaxRecords : records'[d] = IF d = c THEN r ELSE records[d]
    BY <1>1, ClientsFacts
  <2> QED
    BY <2>4, <2>5 DEF Theirs
<1> QED
  BY <1>3, <1>4

\* No step changes a client's name or link but a booking of that account.
LEMMA ChangedByTheirs == ClientsIInv /\ [ClientsNext]_clientVars => [Theirs]_clientVars
<1> SUFFICES ASSUME ClientsIInv, ClientsNext PROVE Theirs
  OBVIOUS
<1>1. ASSUME NEW x \in Asked, NEW yes \in BOOLEAN,
             BeginBooking(x, yes) \/ PlaceForClient(x, yes) \/ AddConsents(x, yes)
      PROVE  Theirs
  <2>1. CASE BeginBooking(x, yes) \/ AddConsents(x, yes)
    BY <2>1, RowsUntouched DEF BeginBooking, AddConsents
  <2> QED
    BY <1>1, <2>1, PlacedByTheirs
<1>2. ASSUME NEW x \in Asked, HoldSession(x) \/ ClientRefused(x) \/ ConfirmConsents(x)
      PROVE  Theirs
  BY <1>2, RowsUntouched DEF HoldSession, ClientRefused, ConfirmConsents
<1>3. ASSUME NEW x \in Asked, NEW b \in DOMAIN ticks, BeginConfirm(x, b)
      PROVE  Theirs
  BY <1>3, RowsUntouched DEF BeginConfirm
<1>4. ASSUME NEW x \in Asked, NEW c \in 1 .. MaxRecords, BeginConsents(x, c) \/ BeginNotes(x, c)
      PROVE  Theirs
  BY <1>4, RowsUntouched DEF BeginConsents, BeginNotes
<1>5. ASSUME NEW x \in Asked, NEW k \in Notes, NEW value \in 0 .. 1, NEW owner \in BOOLEAN,
             UpdateClient(x, k, value, owner)
      PROVE  Theirs
  <2>1. PICK c \in 1 .. MaxRecords, n \in [Notes -> 0 .. 1] :
          records' = [records EXCEPT ![c] = [records[c] EXCEPT !.notes = n]]
    BY <1>5, UpdateClientOK
  <2>2. PICK r : r = [records[c] EXCEPT !.notes = n]
    OBVIOUS
  <2>3. r.linked = records[c].linked /\ r.name = records[c].name
    BY <2>2, ClientsFacts DEF RecordType
  <2>4. \A d \in 1 .. MaxRecords : records'[d] = IF d = c THEN r ELSE records[d]
    BY <2>1, <2>2, ClientsFacts
  <2> QED
    BY <2>3, <2>4 DEF Theirs
<1>6. ASSUME NEW b \in DOMAIN ticks, LinkEnds(b)
      PROVE  Theirs
  BY <1>6, RowsUntouched DEF LinkEnds
<1>7. ASSUME NEW c \in 1 .. MaxRecords, CreateClient(c)
      PROVE  Theirs
  <2>1. PICK r : r = [Blank("live") EXCEPT !.name = "merchant"]
    OBVIOUS
  <2>2. r.linked = FALSE
    BY <2>1, BlankType DEF RecordType
  <2>3. /\ records[c].state = "none" /\ \A d \in 1 .. MaxRecords : records'[d] = IF d = c THEN r ELSE records[d]
    BY <1>7, <2>1, ClientsFacts DEF CreateClient, NextRecord
  <2>4. records[c].linked = FALSE
    BY <2>3, ClientsFacts DEF ClientsIInv, FreshOK, RecordType
  <2> QED
    BY <2>2, <2>3, <2>4 DEF Theirs
<1>8. ASSUME NEW c \in 1 .. MaxRecords, EraseClient(c)
      PROVE  Theirs
  <2>1. \A d \in 1 .. MaxRecords : records'[d] = IF d = c THEN Blank("erased") ELSE records[d]
    BY <1>8, ClientsFacts DEF EraseClient, Tombstone
  <2> QED
    BY <2>1, BlankType DEF Theirs
<1>9. CASE SignsIn \/ SessionEnds
  BY <1>9, RowsUntouched DEF SignsIn, SessionEnds
<1> QED
  BY <1>1, <1>2, <1>3, <1>4, <1>5, <1>6, <1>7, <1>8, <1>9 DEF ClientsNext

\* A client's name changes, and a record is linked to an account, only by a booking of that account
\* whose session is live when the booking commits, whatever signed out or was reset while it ran
\* (find_or_create's proof, held FOR KEY SHARE).
THEOREM TheirsToChange == ClientsSpec => OnlyTheirsToChange
<1>1. ClientsSpec => []ClientsIInv
  BY ClientsStart, ClientsPreserved, PTL DEF ClientsSpec
<1>2. [Theirs]_clientVars =>
        [\A c \in 1 .. MaxRecords :
           LET was == records[c] is == records'[c] IN
           is.state = "live" /\ (is.linked # was.linked \/ (was.state = "live" /\ is.name # was.name)) =>
             \E x \in At({"placing"}) : asked[x].proof = session /\ session # 0 /\ asked'[x].pc = "idle"]_clientVars
  BY DEF Theirs
<1> QED
  BY <1>1, <1>2, ChangedByTheirs, PTL DEF ClientsSpec, OnlyTheirsToChange

=============================================================================
