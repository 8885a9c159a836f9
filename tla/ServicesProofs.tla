--------------------------- MODULE ServicesProofs ---------------------------
(***************************************************************************)
(* What holds of the services that collect and answer, for any number of   *)
(* threads, exits, securities and containers: one part for each, under its *)
(* own specification, since no two of them share a table.                  *)
(***************************************************************************)
EXTENDS Connector, Lanes, Ingest, Startup, Reddit, Edgar, Sums

-----------------------------------------------------------------------------
(* The grants of the connector (Connector).  A thread that is issuing is   *)
(* an end of its family only because the code of that family is spent and  *)
(* nobody else is issuing for it, so the invariant speaks of threads and   *)
(* tokens together.                                                        *)

Grants == [client : Nat, login : Logins, used : BOOLEAN, expired : BOOLEAN]
Tokens == [family : Nat, client : Nat, login : Logins, used : BOOLEAN,
           revoked : BOOLEAN, stale : BOOLEAN, dead : BOOLEAN, gone : BOOLEAN]
Issues == [at : {"issue"}, client : Nat, login : Logins, family : Nat]
Calls == [at : {"call"}, login : Logins]

\* The types of the tables and of what a thread is doing.
ConnectorTypeOK ==
    /\ client \in [registered : Nat, forgotten : SUBSET Nat]
    /\ grant \in Seq(Grants)
    /\ token \in Seq(Tokens)
    /\ request \in [Requests -> {IdleRequest} \cup Issues \cup Calls]
    /\ permitted \subseteq Logins

Spent(f) == f \in DOMAIN grant /\ grant[f].used

\* A family is of a code that is spent, whoever has it.
FamiliesAreBought ==
    /\ \A k \in DOMAIN token : Spent(token[k].family)
    /\ \A f \in Nat : \A r \in Issuing(f) : Spent(f)
    /\ \A f \in replayed : Spent(f)

\* A family's end: one token, or one thread, and not both.
OneEnd ==
    /\ \A j, k \in DOMAIN token :
          Unspent(j) /\ Unspent(k) /\ token[j].family = token[k].family => j = k
    /\ \A f \in Nat : \A q, r \in Issuing(f) : q = r
    /\ \A f \in Nat : \A k \in DOMAIN token :
          token[k].family = f /\ Unspent(k) => Issuing(f) = {}

\* A family that was ended has no end, unless it was being extended then.
EndedFamilies ==
    /\ ReplayEndsFamily
    /\ \A f \in replayed \ raced : Issuing(f) = {}

ConnectorInv == ConnectorTypeOK /\ FamiliesAreBought /\ OneEnd /\ EndedFamilies
-----------------------------------------------------------------------------
(* Sequences that are changed in place, and at their end.                  *)

LEMMA InPlace ==
  ASSUME NEW S, NEW s \in Seq(S), NEW t \in [DOMAIN s -> S]
  PROVE  t \in Seq(S) /\ DOMAIN t = DOMAIN s /\ Len(t) = Len(s)
<1>1. DOMAIN s = 1 .. Len(s) /\ Len(s) \in Nat
  OBVIOUS
<1>2. t \in [1 .. Len(s) -> S]
  BY <1>1
<1> QED
  BY <1>1, <1>2

LEMMA AtTheEnd ==
  ASSUME NEW S, NEW s \in Seq(S), NEW e \in S
  PROVE  /\ Append(s, e) \in Seq(S)
         /\ DOMAIN Append(s, e) = DOMAIN s \cup {Len(s) + 1}
         /\ Len(s) + 1 \notin DOMAIN s
         /\ Append(s, e)[Len(s) + 1] = e
         /\ \A k \in DOMAIN s : Append(s, e)[k] = s[k]
  OBVIOUS

LEMMA TypesInside ==
  ASSUME ConnectorTypeOK
  PROVE  /\ \A k \in DOMAIN grant : grant[k] \in Grants
         /\ \A k \in DOMAIN token : token[k] \in Tokens
         /\ DOMAIN grant \subseteq Nat
         /\ \A r \in Requests : request[r].at = "issue" => request[r] \in Issues
  BY DEF ConnectorTypeOK, IdleRequest, Calls

LEMMA Started == ConnectorInit => ConnectorInv
  BY DEF ConnectorInit, ConnectorInv, ConnectorTypeOK, FamiliesAreBought, OneEnd,
     EndedFamilies, ReplayEndsFamily, Issuing, IdleRequest

-----------------------------------------------------------------------------
(* A step that spends nothing, issues nothing new and unsays no replay.    *)

Quiet ==
    /\ DOMAIN token' = DOMAIN token
    /\ \A k \in DOMAIN token :
          /\ token'[k].family = token[k].family
          /\ token[k].revoked => token'[k].revoked
          /\ Unspent(k)' => Unspent(k)
    /\ \A f \in DOMAIN grant : Spent(f) => Spent(f)'
    /\ \A f \in Nat : Issuing(f)' \subseteq Issuing(f)
    /\ replayed' = replayed /\ raced' = raced

\* The families of the tokens there are, of the threads and of the replays.
LEMMA FamiliesAreNumbers ==
  ASSUME ConnectorInv
  PROVE  /\ \A k \in DOMAIN token : token[k].family \in Nat
         /\ \A f \in replayed : f \in Nat
  BY TypesInside DEF ConnectorInv, FamiliesAreBought, Spent, Tokens

LEMMA QuietKeeps ==
  ASSUME ConnectorInv, Quiet, ConnectorTypeOK'
  PROVE  ConnectorInv'
<1>1. \A k \in DOMAIN token' : /\ k \in DOMAIN token
                                /\ token'[k].family = token[k].family
                                /\ token[k].family \in Nat
  BY FamiliesAreNumbers DEF Quiet
<1>2. FamiliesAreBought'
  <2>1. \A f : Spent(f) => Spent(f)'
    BY DEF Quiet, Spent
  <2>2. \A k \in DOMAIN token' : Spent(token[k].family)
    BY <1>1 DEF ConnectorInv, FamiliesAreBought
  <2>3. \A f \in Nat : \A r \in Issuing(f)' : Spent(f)
    BY DEF ConnectorInv, FamiliesAreBought, Quiet
  <2>4. \A f \in replayed' : Spent(f)
    BY DEF ConnectorInv, FamiliesAreBought, Quiet
  <2> QED
    BY <1>1, <2>1, <2>2, <2>3, <2>4 DEF FamiliesAreBought
<1>3. OneEnd'
  <2>1. \A j, k \in DOMAIN token' :
           Unspent(j)' /\ Unspent(k)' /\ token'[j].family = token'[k].family => j = k
    BY <1>1 DEF ConnectorInv, OneEnd, Quiet
  <2>2. \A f \in Nat : \A q, r \in Issuing(f)' : q = r
    BY DEF ConnectorInv, OneEnd, Quiet
  <2>3. \A f \in Nat : \A k \in DOMAIN token' :
           token'[k].family = f /\ Unspent(k)' => Issuing(f)' = {}
    BY <1>1 DEF ConnectorInv, OneEnd, Quiet
  <2> QED
    BY <2>1, <2>2, <2>3 DEF OneEnd
<1>4. EndedFamilies'
  <2>1. ReplayEndsFamily'
    BY <1>1 DEF ConnectorInv, EndedFamilies, ReplayEndsFamily, Quiet
  <2>2. \A f \in (replayed \ raced)' : Issuing(f)' = {}
    BY FamiliesAreNumbers DEF ConnectorInv, EndedFamilies, Quiet
  <2> QED
    BY <2>1, <2>2 DEF EndedFamilies
<1> QED
  BY <1>2, <1>3, <1>4 DEF ConnectorInv

\* Threads that issue nothing, whatever else they do.
LEMMA NobodyIssues ==
  ASSUME NEW r \in Requests, ConnectorTypeOK, NEW idle \in {IdleRequest} \cup Calls,
         request' = [request EXCEPT ![r] = idle]
  PROVE  /\ request' \in [Requests -> {IdleRequest} \cup Issues \cup Calls]
         /\ \A f \in Nat : Issuing(f)' \subseteq Issuing(f)
<1>1. idle.at # "issue"
  BY DEF IdleRequest, Calls
<1> QED
  BY <1>1 DEF ConnectorTypeOK, Issuing

-----------------------------------------------------------------------------
(* The steps that are quiet.                                               *)

LEMMA RegisteringKeeps ==
  ASSUME ConnectorInv, NEW old \in SUBSET (1 .. MaxClients), RegisterClient(old)
  PROVE  ConnectorInv'
<1> DEFINE kept == [k \in DOMAIN token |-> [token[k] EXCEPT !.gone = @ \/ token[k].dead]]
<1>1. kept \in [DOMAIN token -> Tokens]
  <2> SUFFICES ASSUME NEW k \in DOMAIN token
               PROVE  [token[k] EXCEPT !.gone = @ \/ token[k].dead] \in Tokens
    OBVIOUS
  <2>1. token[k] \in Tokens
    BY TypesInside DEF ConnectorInv
  <2> QED
    BY <2>1, Zenon DEF Tokens
<1>2. token' = kept
  BY DEF RegisterClient
<1>3. token' \in Seq(Tokens) /\ DOMAIN token' = DOMAIN token
  BY <1>1, <1>2, InPlace DEF ConnectorInv, ConnectorTypeOK
<1>4. client' \in [registered : Nat, forgotten : SUBSET Nat]
  BY DEF RegisterClient, ConnectorInv, ConnectorTypeOK, Clients
<1>5. ConnectorTypeOK'
  BY <1>3, <1>4 DEF RegisterClient, ConnectorInv, ConnectorTypeOK
<1>6. \A k \in DOMAIN token :
         /\ token'[k].family = token[k].family /\ token'[k].used = token[k].used
         /\ token'[k].revoked = token[k].revoked /\ token'[k].dead = token[k].dead
  BY <1>2, TypesInside DEF ConnectorInv, Tokens
<1>7. Quiet
  BY <1>3, <1>6 DEF RegisterClient, Quiet, Unspent, Spent, Issuing
<1> QED
  BY <1>5, <1>7, QuietKeeps

LEMMA ApprovingKeeps ==
  ASSUME ConnectorInv, NEW c \in 1 .. MaxClients, NEW login \in Logins,
         ApproveClient(c, login)
  PROVE  ConnectorInv'
<1> DEFINE new == [client |-> c, login |-> login, used |-> FALSE, expired |-> FALSE]
<1>1. new \in Grants
  BY DEF Grants
<1>2. grant' = Append(grant, new)
  BY DEF ApproveClient
<1> HIDE DEF new
<1>3. /\ grant' \in Seq(Grants) /\ DOMAIN grant \subseteq DOMAIN grant'
      /\ \A k \in DOMAIN grant : grant'[k] = grant[k]
  BY <1>1, <1>2, AtTheEnd DEF ConnectorInv, ConnectorTypeOK
<1>4. ConnectorTypeOK'
  BY <1>3 DEF ApproveClient, ConnectorInv, ConnectorTypeOK
<1>5. Quiet
  BY <1>3 DEF ApproveClient, Quiet, Unspent, Spent, Issuing
<1> QED
  BY <1>4, <1>5, QuietKeeps

LEMMA LapsingKeeps ==
  ASSUME ConnectorInv, Lapses
  PROVE  ConnectorInv'
<1>1. CASE \E k \in DOMAIN grant : grant' = [grant EXCEPT ![k].expired = TRUE]
           /\ UNCHANGED token
  <2> PICK k \in DOMAIN grant : grant' = [grant EXCEPT ![k].expired = TRUE]
    BY <1>1
  <2>1. grant' \in [DOMAIN grant -> Grants]
    BY TypesInside DEF ConnectorInv, Grants
  <2>2. grant' \in Seq(Grants) /\ DOMAIN grant' = DOMAIN grant
    BY <2>1, InPlace DEF ConnectorInv, ConnectorTypeOK
  <2>3. ConnectorTypeOK'
    BY <1>1, <2>2 DEF Lapses, ConnectorInv, ConnectorTypeOK
  <2>4. \A f \in DOMAIN grant : grant'[f].used = grant[f].used
    BY TypesInside DEF ConnectorInv, Grants
  <2>5. Quiet
    BY <1>1, <2>2, <2>4 DEF Lapses, Quiet, Unspent, Spent, Issuing
  <2> QED
    BY <2>3, <2>5, QuietKeeps
<1>2. CASE /\ \E k \in DOMAIN token :
                 token' = IF token[k].stale THEN [token EXCEPT ![k].dead = TRUE]
                          ELSE [token EXCEPT ![k].stale = TRUE]
           /\ UNCHANGED grant
  <2> PICK k \in DOMAIN token :
              token' = IF token[k].stale THEN [token EXCEPT ![k].dead = TRUE]
                       ELSE [token EXCEPT ![k].stale = TRUE]
    BY <1>2
  <2>1. token' \in [DOMAIN token -> Tokens]
    <3>1. [token EXCEPT ![k].dead = TRUE] \in [DOMAIN token -> Tokens]
      BY TypesInside DEF ConnectorInv, Tokens
    <3>2. [token EXCEPT ![k].stale = TRUE] \in [DOMAIN token -> Tokens]
      BY TypesInside DEF ConnectorInv, Tokens
    <3> QED
      BY <3>1, <3>2
  <2>2. token' \in Seq(Tokens) /\ DOMAIN token' = DOMAIN token
    BY <2>1, InPlace DEF ConnectorInv, ConnectorTypeOK
  <2>3. ConnectorTypeOK'
    BY <1>2, <2>2 DEF Lapses, ConnectorInv, ConnectorTypeOK
  <2>4. \A j \in DOMAIN token :
           /\ token'[j].family = token[j].family /\ token'[j].used = token[j].used
           /\ token'[j].revoked = token[j].revoked
           /\ token[j].dead => token'[j].dead
    BY TypesInside DEF ConnectorInv, Tokens
  <2>5. Quiet
    BY <1>2, <2>2, <2>4 DEF Lapses, Quiet, Unspent, Spent, Issuing
  <2> QED
    BY <2>3, <2>5, QuietKeeps
<1> QED
  BY <1>1, <1>2 DEF Lapses

LEMMA DisallowingKeeps ==
  ASSUME ConnectorInv, NEW login \in Logins, Disallow(login)
  PROVE  ConnectorInv'
<1>1. ConnectorTypeOK'
  BY DEF Disallow, ConnectorInv, ConnectorTypeOK
<1>2. Quiet
  BY DEF Disallow, Quiet, Unspent, Spent, Issuing
<1> QED
  BY <1>1, <1>2, QuietKeeps

\* A call, its answer, and a token that could not be saved are a thread's own.
LEMMA ThreadsKeep ==
  ASSUME ConnectorInv, NEW r \in Requests,
         \/ \E k \in DOMAIN token : CallTool(r, k)
         \/ IssueFails(r)
         \/ ToolAnswers(r)
  PROVE  ConnectorInv'
<1>1. UNCHANGED <<client, grant, token, permitted, replayed, raced>>
  BY DEF CallTool, IssueFails, ToolAnswers
<1>2. \E idle \in {IdleRequest} \cup Calls : request' = [request EXCEPT ![r] = idle]
  <2>1. CASE \E k \in DOMAIN token : CallTool(r, k)
    <3> PICK k \in DOMAIN token : CallTool(r, k)
      BY <2>1
    <3>1. [at |-> "call", login |-> token[k].login] \in Calls
      BY TypesInside DEF ConnectorInv, Tokens, Calls
    <3> QED
      BY <3>1 DEF CallTool
  <2>2. CASE IssueFails(r) \/ ToolAnswers(r)
    BY <2>2 DEF IssueFails, ToolAnswers
  <2> QED
    BY <2>1, <2>2
<1>3. /\ request' \in [Requests -> {IdleRequest} \cup Issues \cup Calls]
      /\ \A f \in Nat : Issuing(f)' \subseteq Issuing(f)
  BY <1>2, NobodyIssues DEF ConnectorInv
<1>4. ConnectorTypeOK'
  BY <1>1, <1>3 DEF ConnectorInv, ConnectorTypeOK
<1>5. Quiet
  BY <1>1, <1>3 DEF Quiet, Unspent, Spent
<1> QED
  BY <1>4, <1>5, QuietKeeps

-----------------------------------------------------------------------------
(* The steps that move a family's end.                                     *)

LEMMA OneMoreIssues ==
  ASSUME NEW r \in Requests, NEW c \in Nat, NEW login \in Logins, NEW family \in Nat,
         ConnectorTypeOK, request[r] = IdleRequest, Issue(r, c, login, family)
  PROVE  /\ request' \in [Requests -> {IdleRequest} \cup Issues \cup Calls]
         /\ Issuing(family)' = Issuing(family) \cup {r}
         /\ \A f \in Nat : f # family => Issuing(f)' = Issuing(f)
<1> DEFINE new == [at |-> "issue", client |-> c, login |-> login, family |-> family]
<1>1. new \in Issues /\ new.at = "issue" /\ new.family = family
  BY DEF Issues
<1>2. request' = [request EXCEPT ![r] = new]
  BY DEF Issue
<1> HIDE DEF new
<1>3. request' \in [Requests -> {IdleRequest} \cup Issues \cup Calls]
  BY <1>1, <1>2 DEF ConnectorTypeOK
<1>4. request[r].at # "issue"
  BY DEF IdleRequest
<1>5. request'[r] = new /\ \A q \in Requests : q # r => request'[q] = request[q]
  BY <1>2 DEF ConnectorTypeOK
<1> QED
  BY <1>1, <1>3, <1>4, <1>5 DEF Issuing

\* The code's family is nobody's until now.
LEMMA ClaimingACodeKeeps ==
  ASSUME ConnectorInv, NEW r \in Requests, NEW k \in DOMAIN grant, NEW matches \in BOOLEAN,
         ClaimCode(r, k, matches)
  PROVE  ConnectorInv'
<1>1. grant[k] \in Grants /\ k \in Nat
  BY TypesInside DEF ConnectorInv
<1>2. grant' \in [DOMAIN grant -> Grants]
  BY TypesInside DEF ClaimCode, ConnectorInv, Grants
<1>3. grant' \in Seq(Grants) /\ DOMAIN grant' = DOMAIN grant
  BY <1>2, InPlace DEF ConnectorInv, ConnectorTypeOK
<1>4. /\ grant'[k].used
      /\ \A f \in DOMAIN grant : grant[f].used => grant'[f].used
  BY TypesInside DEF ClaimCode, ConnectorInv, Grants
<1>5. CASE ~matches
  <2>1. UNCHANGED <<client, token, request, permitted, replayed, raced>>
    BY <1>5 DEF ClaimCode
  <2>2. ConnectorTypeOK'
    BY <1>3, <2>1 DEF ConnectorInv, ConnectorTypeOK
  <2>3. Quiet
    BY <1>3, <1>4, <2>1 DEF Quiet, Unspent, Spent, Issuing
  <2> QED
    BY <2>2, <2>3, QuietKeeps
<1>6. CASE matches
  <2>1. UNCHANGED <<client, token, permitted, replayed, raced>>
    BY DEF ClaimCode
  <2>2. /\ request' \in [Requests -> {IdleRequest} \cup Issues \cup Calls]
        /\ Issuing(k)' = Issuing(k) \cup {r}
        /\ \A f \in Nat : f # k => Issuing(f)' = Issuing(f)
    <3>1. grant[k].client \in Nat /\ grant[k].login \in Logins
      BY <1>1 DEF Grants
    <3>2. Issue(r, grant[k].client, grant[k].login, k) /\ request[r] = IdleRequest
      BY <1>6 DEF ClaimCode
    <3> QED
      BY <1>1, <3>1, <3>2, OneMoreIssues DEF ConnectorInv
  <2>3. ConnectorTypeOK'
    BY <1>3, <2>1, <2>2 DEF ConnectorInv, ConnectorTypeOK
  <2>4. ~Spent(k)
    BY DEF ClaimCode, Spent
  <2>5. /\ \A j \in DOMAIN token : token[j].family # k
        /\ Issuing(k) = {}
        /\ k \notin replayed
    BY <1>1, <2>4 DEF ConnectorInv, FamiliesAreBought
  <2>6. Issuing(k)' = {r}
    BY <2>2, <2>5
  <2>7. FamiliesAreBought'
    <3>1. Spent(k)' /\ \A f : Spent(f) => Spent(f)'
      BY <1>3, <1>4 DEF Spent
    <3>2. \A j \in DOMAIN token' : Spent(token[j].family)
      BY <2>1 DEF ConnectorInv, FamiliesAreBought
    <3>3. \A f \in Nat : \A q \in Issuing(f)' : f = k \/ Spent(f)
      BY <2>2 DEF ConnectorInv, FamiliesAreBought
    <3>4. \A f \in replayed' : Spent(f)
      BY <2>1 DEF ConnectorInv, FamiliesAreBought
    <3> QED
      BY <2>1, <3>1, <3>2, <3>3, <3>4 DEF FamiliesAreBought
  <2>8. OneEnd'
    <3>1. \A f \in Nat : \A p, q \in Issuing(f)' : p = q
      BY <2>2, <2>6 DEF ConnectorInv, OneEnd
    <3>2. \A j : Unspent(j)' <=> Unspent(j)
      BY <2>1 DEF Unspent
    <3>3. \A f \in Nat : \A j \in DOMAIN token' :
             token'[j].family = f /\ Unspent(j)' => Issuing(f)' = {}
      BY <2>1, <2>2, <2>5, <3>2 DEF ConnectorInv, OneEnd
    <3>4. \A i, j \in DOMAIN token' :
             Unspent(i)' /\ Unspent(j)' /\ token'[i].family = token'[j].family => i = j
      BY <2>1, <3>2 DEF ConnectorInv, OneEnd
    <3> QED
      BY <3>1, <3>3, <3>4 DEF OneEnd
  <2>9. EndedFamilies'
    BY <2>1, <2>2, <2>5, FamiliesAreNumbers DEF ConnectorInv, EndedFamilies, ReplayEndsFamily
  <2> QED
    BY <2>3, <2>7, <2>8, <2>9 DEF ConnectorInv
<1> QED
  BY <1>5, <1>6

\* The token that is spent was its family's end: the thread is the end now.
LEMMA ClaimingATokenKeeps ==
  ASSUME ConnectorInv, NEW r \in Requests, NEW k \in DOMAIN token, NEW matches \in BOOLEAN,
         ClaimRefresh(r, k, matches)
  PROVE  ConnectorInv'
<1>0. token[k] \in Tokens
  BY TypesInside DEF ConnectorInv
<1>1. PICK mine \in Nat : mine = token[k].family
  BY <1>0 DEF Tokens
<1>2. token' \in [DOMAIN token -> Tokens]
  BY TypesInside DEF ClaimRefresh, ConnectorInv, Tokens
<1>3. token' \in Seq(Tokens) /\ DOMAIN token' = DOMAIN token
  BY <1>2, InPlace DEF ConnectorInv, ConnectorTypeOK
<1>4. /\ token'[k].used
      /\ \A j \in DOMAIN token :
            /\ token'[j].family = token[j].family
            /\ token'[j].revoked = token[j].revoked /\ token'[j].dead = token[j].dead
            /\ token[j].used => token'[j].used
  BY TypesInside DEF ClaimRefresh, ConnectorInv, Tokens
<1>5. ~Unspent(k)' /\ \A j \in DOMAIN token : Unspent(j)' => Unspent(j)
  BY <1>4 DEF Unspent
<1>6. CASE ~matches
  <2>1. UNCHANGED <<client, grant, request, permitted, replayed, raced>>
    BY <1>6 DEF ClaimRefresh
  <2>2. ConnectorTypeOK'
    BY <1>3, <2>1 DEF ConnectorInv, ConnectorTypeOK
  <2>3. Quiet
    BY <1>3, <1>4, <1>5, <2>1 DEF Quiet, Spent, Issuing
  <2> QED
    BY <2>2, <2>3, QuietKeeps
<1>7. CASE matches
  <2>1. UNCHANGED <<client, grant, permitted, replayed, raced>> /\ Unspent(k)
    BY DEF ClaimRefresh
  <2>2. /\ request' \in [Requests -> {IdleRequest} \cup Issues \cup Calls]
        /\ Issuing(mine)' = Issuing(mine) \cup {r}
        /\ \A f \in Nat : f # mine => Issuing(f)' = Issuing(f)
    <3>1. token[k].client \in Nat /\ token[k].login \in Logins
      BY <1>0 DEF Tokens
    <3>2. Issue(r, token[k].client, token[k].login, mine) /\ request[r] = IdleRequest
      BY <1>1, <1>7 DEF ClaimRefresh
    <3> QED
      BY <1>1, <3>1, <3>2, OneMoreIssues DEF ConnectorInv
  <2>3. ConnectorTypeOK'
    BY <1>3, <2>1, <2>2 DEF ConnectorInv, ConnectorTypeOK
  <2>4. /\ Issuing(mine) = {} /\ Spent(mine)
        /\ \A j \in DOMAIN token : Unspent(j) /\ token[j].family = mine => j = k
        /\ mine \notin replayed \ raced
    BY <1>1, <2>1 DEF ConnectorInv, OneEnd, FamiliesAreBought, EndedFamilies,
       ReplayEndsFamily, Unspent
  <2>5. Issuing(mine)' = {r}
    BY <2>2, <2>4
  <2>6. FamiliesAreBought'
    <3>1. \A f : Spent(f)' <=> Spent(f)
      BY <2>1 DEF Spent
    <3>2. \A j \in DOMAIN token' : token'[j].family = token[j].family /\ Spent(token[j].family)
      BY <1>3, <1>4 DEF ConnectorInv, FamiliesAreBought
    <3>3. \A f \in Nat : \A q \in Issuing(f)' : Spent(f)
      BY <2>2, <2>4 DEF ConnectorInv, FamiliesAreBought
    <3>4. \A f \in replayed' : Spent(f)
      BY <2>1 DEF ConnectorInv, FamiliesAreBought
    <3> QED
      BY <3>1, <3>2, <3>3, <3>4 DEF FamiliesAreBought
  <2>7. OneEnd'
    <3>1. \A f \in Nat : \A p, q \in Issuing(f)' : p = q
      BY <2>2, <2>5 DEF ConnectorInv, OneEnd
    <3>2. \A j \in DOMAIN token' : Unspent(j)' => /\ j \in DOMAIN token /\ Unspent(j)
                                                 /\ token'[j].family = token[j].family
                                                 /\ token[j].family # mine
      BY <1>3, <1>4, <1>5, <2>4
    <3>3. \A f \in Nat : \A j \in DOMAIN token' :
             token'[j].family = f /\ Unspent(j)' => Issuing(f)' = {}
      BY <2>2, <3>2 DEF ConnectorInv, OneEnd
    <3>4. \A i, j \in DOMAIN token' :
             Unspent(i)' /\ Unspent(j)' /\ token'[i].family = token'[j].family => i = j
      BY <3>2 DEF ConnectorInv, OneEnd
    <3> QED
      BY <3>1, <3>3, <3>4 DEF OneEnd
  <2>8. EndedFamilies'
    <3>1. ReplayEndsFamily'
      BY <1>3, <1>4, <2>1 DEF ConnectorInv, EndedFamilies, ReplayEndsFamily
    <3>2. \A f \in (replayed \ raced)' : Issuing(f)' = {}
      BY <2>1, <2>2, <2>4, FamiliesAreNumbers DEF ConnectorInv, EndedFamilies
    <3> QED
      BY <3>1, <3>2 DEF EndedFamilies
  <2> QED
    BY <2>3, <2>6, <2>7, <2>8 DEF ConnectorInv
<1> QED
  BY <1>6, <1>7

\* Revoking ends a family, but for a thread that is issuing its next token.
LEMMA ReplayingKeeps ==
  ASSUME ConnectorInv, NEW k \in DOMAIN token, ReplayRefresh(k)
  PROVE  ConnectorInv'
<1>0. /\ token[k] \in Tokens
      /\ UNCHANGED <<client, grant, request, permitted>>
  BY TypesInside DEF ConnectorInv, ReplayRefresh
<1>1. PICK mine \in Nat : mine = token[k].family
  BY <1>0 DEF Tokens
<1> DEFINE after == [j \in DOMAIN token |->
                       [token[j] EXCEPT !.revoked = @ \/ token[j].family = mine]]
<1>2. /\ token' = after
      /\ replayed' = replayed \cup {mine}
      /\ raced' = IF Issuing(mine) # {} THEN raced \cup {mine} ELSE raced
  BY <1>1 DEF ReplayRefresh
<1>3. after \in [DOMAIN token -> Tokens]
  <2> SUFFICES ASSUME NEW j \in DOMAIN token
               PROVE  [token[j] EXCEPT !.revoked = @ \/ token[j].family = mine] \in Tokens
    OBVIOUS
  <2>1. token[j] \in Tokens
    BY TypesInside DEF ConnectorInv
  <2> QED
    BY <2>1, Zenon DEF Tokens
<1>4. token' \in Seq(Tokens) /\ DOMAIN token' = DOMAIN token
  BY <1>2, <1>3, InPlace DEF ConnectorInv, ConnectorTypeOK
<1>5. ConnectorTypeOK'
  BY <1>0, <1>4 DEF ConnectorInv, ConnectorTypeOK
<1>6. \A j \in DOMAIN token :
         /\ token'[j].family = token[j].family /\ token'[j].used = token[j].used
         /\ token'[j].dead = token[j].dead
         /\ token[j].revoked => token'[j].revoked
         /\ token[j].family = mine => token'[j].revoked
  BY <1>2, TypesInside DEF ConnectorInv, Tokens
<1>7. \A j \in DOMAIN token : Unspent(j)' => Unspent(j)
  BY <1>6 DEF Unspent
<1>8. \A f \in Nat : (Spent(f)' <=> Spent(f)) /\ Issuing(f)' = Issuing(f)
  BY <1>0 DEF Spent, Issuing
<1>9. FamiliesAreBought'
  <2>1. Spent(mine)
    BY <1>1 DEF ConnectorInv, FamiliesAreBought
  <2>2. \A j \in DOMAIN token' :
           token'[j].family = token[j].family /\ token[j].family \in Nat
           /\ Spent(token[j].family)
    BY <1>4, <1>6, FamiliesAreNumbers DEF ConnectorInv, FamiliesAreBought
  <2>3. \A f \in replayed' : f \in Nat /\ Spent(f)
    BY <1>1, <1>2, <2>1, FamiliesAreNumbers DEF ConnectorInv, FamiliesAreBought
  <2>4. \A f \in Nat : \A r \in Issuing(f)' : Spent(f)
    BY <1>8 DEF ConnectorInv, FamiliesAreBought
  <2> QED
    BY <1>8, <2>2, <2>3, <2>4 DEF FamiliesAreBought
<1>10. OneEnd'
  <2>1. \A j \in DOMAIN token' : Unspent(j)' => /\ j \in DOMAIN token /\ Unspent(j)
                                               /\ token'[j].family = token[j].family
    BY <1>4, <1>6, <1>7
  <2>2. \A f \in Nat : \A q, r \in Issuing(f)' : q = r
    BY <1>8 DEF ConnectorInv, OneEnd
  <2>3. \A f \in Nat : \A j \in DOMAIN token' :
           token'[j].family = f /\ Unspent(j)' => Issuing(f)' = {}
    BY <1>8, <2>1 DEF ConnectorInv, OneEnd
  <2>4. \A i, j \in DOMAIN token' :
           Unspent(i)' /\ Unspent(j)' /\ token'[i].family = token'[j].family => i = j
    BY <2>1 DEF ConnectorInv, OneEnd
  <2> QED
    BY <2>2, <2>3, <2>4 DEF OneEnd
<1>11. EndedFamilies'
  <2>1. \A f \in (replayed \ raced)' :
           f \in Nat /\ (f \in replayed \ raced \/ (f = mine /\ Issuing(mine) = {}))
    BY <1>1, <1>2, FamiliesAreNumbers
  <2>2. ReplayEndsFamily'
    BY <1>4, <1>6, <2>1 DEF ConnectorInv, EndedFamilies, ReplayEndsFamily
  <2>3. \A f \in (replayed \ raced)' : Issuing(f)' = {}
    BY <1>8, <2>1 DEF ConnectorInv, EndedFamilies
  <2> QED
    BY <2>2, <2>3 DEF EndedFamilies
<1> QED
  BY <1>5, <1>9, <1>10, <1>11 DEF ConnectorInv

\* The thread was its family's end: the token it saves is the end now.
LEMMA SavingKeeps ==
  ASSUME ConnectorInv, NEW r \in Requests, SaveToken(r)
  PROVE  ConnectorInv'
<1>1. request[r] \in Issues /\ request[r].at = "issue"
  BY TypesInside DEF SaveToken, ConnectorInv
<1>2. PICK mine \in Nat : mine = request[r].family
  BY <1>1 DEF Issues
<1> DEFINE new == [family |-> request[r].family, client |-> request[r].client,
                   login |-> request[r].login, used |-> FALSE, revoked |-> FALSE,
                   stale |-> FALSE, dead |-> FALSE, gone |-> FALSE]
           last == Len(token) + 1
<1>3. new \in Tokens /\ new.family = mine
  BY <1>1, <1>2 DEF Issues, Tokens
<1>4. /\ token' = Append(token, new) /\ request' = [request EXCEPT ![r] = IdleRequest]
      /\ UNCHANGED <<client, grant, permitted, replayed, raced>>
  BY DEF SaveToken
<1>5. PICK n : n = last
  OBVIOUS
<1> HIDE DEF new
<1>6. /\ token' \in Seq(Tokens) /\ DOMAIN token' = DOMAIN token \cup {n}
      /\ n \notin DOMAIN token /\ token'[n].family = mine
      /\ \A j \in DOMAIN token : token'[j] = token[j]
  BY <1>3, <1>4, <1>5, AtTheEnd DEF ConnectorInv, ConnectorTypeOK
<1>7. /\ request' \in [Requests -> {IdleRequest} \cup Issues \cup Calls]
      /\ \A f \in Nat : Issuing(f)' \subseteq Issuing(f)
  BY <1>4, NobodyIssues DEF ConnectorInv
<1>8. ConnectorTypeOK'
  BY <1>4, <1>6, <1>7 DEF ConnectorInv, ConnectorTypeOK
<1>9. r \in Issuing(mine) /\ r \notin Issuing(mine)'
  BY <1>1, <1>2, <1>4 DEF Issuing, IdleRequest, ConnectorInv, ConnectorTypeOK
<1>10. Issuing(mine)' = {}
  BY <1>7, <1>9 DEF ConnectorInv, OneEnd
<1>11. /\ Spent(mine) /\ mine \notin replayed \ raced
       /\ \A j \in DOMAIN token : token[j].family = mine => ~Unspent(j)
  BY <1>9 DEF ConnectorInv, FamiliesAreBought, OneEnd, EndedFamilies
<1>12. \A j \in DOMAIN token : Unspent(j)' <=> Unspent(j)
  BY <1>6 DEF Unspent
<1>13. FamiliesAreBought'
  <2>1. \A f : Spent(f)' <=> Spent(f)
    BY <1>4 DEF Spent
  <2>2. \A j \in DOMAIN token' : Spent(token'[j].family)
    BY <1>6, <1>11 DEF ConnectorInv, FamiliesAreBought
  <2>3. \A f \in Nat : \A q \in Issuing(f)' : Spent(f)
    BY <1>7 DEF ConnectorInv, FamiliesAreBought
  <2>4. \A f \in replayed' : Spent(f)
    BY <1>4 DEF ConnectorInv, FamiliesAreBought
  <2> QED
    BY <2>1, <2>2, <2>3, <2>4 DEF FamiliesAreBought
<1>14. OneEnd'
  <2>1. \A j \in DOMAIN token' :
           Unspent(j)' => \/ j = n
                         \/ /\ j \in DOMAIN token /\ Unspent(j)
                            /\ token'[j].family = token[j].family
                            /\ token[j].family # mine
    BY <1>6, <1>11, <1>12
  <2>2. \A f \in Nat : \A p, q \in Issuing(f)' : p = q
    BY <1>7 DEF ConnectorInv, OneEnd
  <2>3. \A f \in Nat : \A j \in DOMAIN token' :
           token'[j].family = f /\ Unspent(j)' => Issuing(f)' = {}
    BY <1>6, <1>7, <1>10, <2>1 DEF ConnectorInv, OneEnd
  <2>4. \A i, j \in DOMAIN token' :
           Unspent(i)' /\ Unspent(j)' /\ token'[i].family = token'[j].family => i = j
    BY <1>6, <2>1 DEF ConnectorInv, OneEnd
  <2> QED
    BY <2>2, <2>3, <2>4 DEF OneEnd
<1>15. EndedFamilies'
  <2>1. ReplayEndsFamily'
    BY <1>4, <1>6, <1>11 DEF ConnectorInv, EndedFamilies, ReplayEndsFamily
  <2>2. \A f \in (replayed \ raced)' : Issuing(f)' = {}
    BY <1>4, <1>7, FamiliesAreNumbers DEF ConnectorInv, EndedFamilies
  <2> QED
    BY <2>1, <2>2 DEF EndedFamilies
<1> QED
  BY <1>8, <1>13, <1>14, <1>15 DEF ConnectorInv
-----------------------------------------------------------------------------
(* Every step, and what follows.                                           *)

LEMMA StutteringKeeps ==
  ASSUME ConnectorInv, UNCHANGED connectorVars
  PROVE  ConnectorInv'
<1>1. ConnectorTypeOK'
  BY DEF connectorVars, ConnectorInv, ConnectorTypeOK
<1>2. Quiet
  BY DEF connectorVars, Quiet, Unspent, Spent, Issuing
<1> QED
  BY <1>1, <1>2, QuietKeeps

LEMMA EveryStepKeeps ==
  ASSUME ConnectorInv, [ConnectorNext]_connectorVars
  PROVE  ConnectorInv'
<1>1. CASE \E old \in SUBSET (1 .. MaxClients) : RegisterClient(old)
  BY <1>1, RegisteringKeeps
<1>2. CASE \E c \in 1 .. MaxClients, login \in Logins : ApproveClient(c, login)
  BY <1>2, ApprovingKeeps
<1>3. CASE \E r \in Requests : \E k \in DOMAIN grant, matches \in BOOLEAN :
              ClaimCode(r, k, matches)
  BY <1>3, ClaimingACodeKeeps
<1>4. CASE \E r \in Requests : \E k \in DOMAIN token, matches \in BOOLEAN :
              ClaimRefresh(r, k, matches)
  BY <1>4, ClaimingATokenKeeps
<1>5. CASE \E r \in Requests : \/ \E k \in DOMAIN token : CallTool(r, k)
                             \/ IssueFails(r)
                             \/ ToolAnswers(r)
  BY <1>5, ThreadsKeep
<1>6. CASE \E r \in Requests : SaveToken(r)
  BY <1>6, SavingKeeps
<1>7. CASE \E k \in DOMAIN token : ReplayRefresh(k)
  BY <1>7, ReplayingKeeps
<1>8. CASE Lapses
  BY <1>8, LapsingKeeps
<1>9. CASE \E login \in Logins : Disallow(login)
  BY <1>9, DisallowingKeeps
<1>10. CASE UNCHANGED connectorVars
  BY <1>10, StutteringKeeps
<1> QED
  BY <1>1, <1>2, <1>3, <1>4, <1>5, <1>6, <1>7, <1>8, <1>9, <1>10 DEF ConnectorNext

\* One end is at most one of the two counted.
LEMMA OneEndIsOneSuccessor ==
  ASSUME ConnectorInv
  PROVE  OneSuccessor
<1> SUFFICES ASSUME NEW f \in 1 .. Len(grant)
             PROVE  Cardinality({k \in DOMAIN token : token[k].family = f /\ Unspent(k)})
                      + Cardinality(Issuing(f)) <= 1
  BY DEF OneSuccessor
<1> DEFINE unspent == {k \in DOMAIN token : token[k].family = f /\ Unspent(k)}
<1>1. f \in Nat
  BY DEF ConnectorInv, ConnectorTypeOK
<1>2. /\ \A j, k \in unspent : j = k
      /\ \A q, r \in Issuing(f) : q = r
      /\ unspent # {} => Issuing(f) = {}
  BY <1>1 DEF ConnectorInv, OneEnd
<1> HIDE DEF unspent
<1>3. CASE unspent # {}
  <2>1. PICK k : k \in unspent
    BY <1>3
  <2>2. unspent = {k}
    BY <1>2, <2>1
  <2>3. Cardinality(unspent) = 1 /\ Cardinality(Issuing(f)) = 0
    BY <1>2, <1>3, <2>2, FS_Singleton, FS_EmptySet
  <2> QED
    BY <2>3 DEF unspent
<1>4. CASE unspent = {} /\ Issuing(f) # {}
  <2>1. PICK r : Issuing(f) = {r}
    BY <1>2, <1>4
  <2>2. Cardinality(unspent) = 0 /\ Cardinality(Issuing(f)) = 1
    BY <1>4, <2>1, FS_Singleton, FS_EmptySet
  <2> QED
    BY <2>2 DEF unspent
<1>5. CASE unspent = {} /\ Issuing(f) = {}
  <2>1. Cardinality(unspent) = 0 /\ Cardinality(Issuing(f)) = 0
    BY <1>5, FS_EmptySet
  <2> QED
    BY <2>1 DEF unspent
<1> QED
  BY <1>3, <1>4, <1>5

\* The grants keep their invariant, for any threads, logins and bounds.
\* (mcp/store.py)
THEOREM GrantsKeepTheirEnds == ConnectorSpec => []ConnectorInv
<1>1. ConnectorInv /\ [ConnectorNext]_connectorVars => ConnectorInv'
  BY EveryStepKeeps
<1> QED
  BY <1>1, Started, PTL DEF ConnectorSpec

\* A code and what it bought are spent once, however the threads interleave, and
\* what is presented twice opens nothing.  (claim_code, claim_refresh, save_token)
THEOREM GrantsSpentOnce == ConnectorSpec => []GrantsAreSpentOnce
<1>1. ConnectorInv => GrantsAreSpentOnce
  BY OneEndIsOneSuccessor DEF GrantsAreSpentOnce, ConnectorInv, EndedFamilies
<1> QED
  BY <1>1, GrantsKeepTheirEnds, PTL

-----------------------------------------------------------------------------
(* The lanes Yahoo is asked by (Lanes): turns, and what an acquire gives.  *)

LEMMA LaneCountIsPositive ==
    LaneCount \in Nat \ {0} /\ SpareAttempts \in Nat \ {0} /\ FirstBackoff \in Nat \ {0}
BY LanesAssumption DEF LaneCount

TurnFrom(p, l) == (l - p) % LaneCount

\* A turn, without the division.
LEMMA TurnIs ==
    ASSUME NEW p \in LaneIds, NEW l \in LaneIds
    PROVE  TurnFrom(p, l) = IF l >= p THEN l - p ELSE l - p + LaneCount
<1>1. \A n \in Nat \ {0} : \A x \in Int : 0 <= x /\ x < n => x % n = x
    OBVIOUS
<1>2. \A n \in Nat \ {0} : \A x \in Int : 0 - n <= x /\ x < 0 => x % n = x + n
    OBVIOUS
<1> DEFINE n == LaneCount
<1>3. n \in Nat \ {0} /\ p \in 0 .. n - 1 /\ l \in 0 .. n - 1
    BY LaneCountIsPositive DEF LaneIds
<1> HIDE DEF n
<1>4. (l - p) % n = IF l >= p THEN l - p ELSE l - p + n
    BY <1>1, <1>2, <1>3
<1>5. QED BY <1>4 DEF TurnFrom, n

\* The turn after a lane is had: who was up to it comes last, in the same order.
LEMMA TurnMovesOn ==
    ASSUME NEW p \in LaneIds, NEW c \in LaneIds
    PROVE  LET q == (c + 1) % LaneCount
           IN  /\ q \in LaneIds
               /\ \A l \in LaneIds :
                      /\ TurnFrom(p, l) \in 0 .. LaneCount - 1
                      /\ TurnFrom(p, l) <= TurnFrom(p, c) =>
                            TurnFrom(q, l) = TurnFrom(p, l) + LaneCount - TurnFrom(p, c) - 1
                      /\ TurnFrom(p, l) > TurnFrom(p, c) =>
                            TurnFrom(q, l) = TurnFrom(p, l) - TurnFrom(p, c) - 1
<1> DEFINE q == (c + 1) % LaneCount
<1>1. LaneCount \in Nat \ {0} /\ p \in 0 .. LaneCount - 1 /\ c \in 0 .. LaneCount - 1
    BY LaneCountIsPositive DEF LaneIds
<1>2. q = IF c = LaneCount - 1 THEN 0 ELSE c + 1
    <2>1. \A n \in Nat \ {0} : n % n = 0 /\ \A x \in 0 .. n - 1 : x % n = x
        OBVIOUS
    <2>2. QED BY <1>1, <2>1
<1> HIDE DEF q
<1>3. q \in LaneIds
    BY <1>1, <1>2 DEF LaneIds
<1>4. ASSUME NEW l \in LaneIds
      PROVE  /\ TurnFrom(p, l) \in 0 .. LaneCount - 1
             /\ TurnFrom(p, l) <= TurnFrom(p, c) =>
                   TurnFrom(q, l) = TurnFrom(p, l) + LaneCount - TurnFrom(p, c) - 1
             /\ TurnFrom(p, l) > TurnFrom(p, c) =>
                   TurnFrom(q, l) = TurnFrom(p, l) - TurnFrom(p, c) - 1
    <2>1. /\ TurnFrom(p, l) = IF l >= p THEN l - p ELSE l - p + LaneCount
          /\ TurnFrom(p, c) = IF c >= p THEN c - p ELSE c - p + LaneCount
          /\ TurnFrom(q, l) = IF l >= q THEN l - q ELSE l - q + LaneCount
        BY <1>3, TurnIs
    <2>2. l \in 0 .. LaneCount - 1
        BY DEF LaneIds
    <2>3. QED BY <1>1, <1>2, <2>1, <2>2
<1>5. QED BY <1>3, <1>4 DEF q

\* acquire: a lane off cooldown, no lane before it in turn being so, unless all are on it.
LEMMA AcquiredIsALane ==
    ASSUME NEW free \in [LaneIds -> Nat], nextLane \in LaneIds
    PROVE  /\ Acquired(free) \in LaneIds
           /\ Parked(free) # LaneIds =>
                  \A l \in LaneIds : Turn(l) < Turn(Acquired(free)) => l \in Parked(free)
<1>1. \A l \in LaneIds : Turn(l) \in Nat
    BY TurnMovesOn DEF Turn, TurnFrom, LaneIds
<1>2. LaneIds \subseteq Nat /\ LaneIds # {}
    BY LaneCountIsPositive DEF LaneIds
<1>3. CASE Parked(free) = LaneIds
    <2>1. PICK m \in {free[l] : l \in LaneIds} : \A o \in {free[l] : l \in LaneIds} : m <= o
        <3>1. {free[l] : l \in LaneIds} \subseteq Nat /\ {free[l] : l \in LaneIds} # {}
            BY <1>2
        <3>2. QED BY <3>1, LeastOf
    <2>2. PICK k \in {l \in LaneIds : free[l] = m} : \A o \in {l \in LaneIds : free[l] = m} : k <= o
        <3>1. {l \in LaneIds : free[l] = m} \subseteq Nat /\ {l \in LaneIds : free[l] = m} # {}
            BY <1>2, <2>1
        <3>2. QED BY <3>1, LeastOf
    <2>3. \A l \in LaneIds : free[k] < free[l] \/ (free[k] = free[l] /\ k <= l)
        BY <2>1, <2>2
    <2>4. Acquired(free) = CHOOSE l \in LaneIds :
              \A o \in LaneIds : free[l] < free[o] \/ (free[l] = free[o] /\ l <= o)
        BY <1>3 DEF Acquired
    <2>5. QED BY <1>3, <2>2, <2>3, <2>4
<1>4. CASE Parked(free) # LaneIds
    <2> DEFINE S == LaneIds \ Parked(free)
    <2>1. S # {}
        BY <1>4 DEF Parked
    <2>2. PICK t \in {Turn(l) : l \in S} : \A o \in {Turn(l) : l \in S} : t <= o
        <3>1. {Turn(l) : l \in S} \subseteq Nat /\ {Turn(l) : l \in S} # {}
            BY <1>1, <2>1
        <3>2. QED BY <3>1, LeastOf
    <2>3. PICK k \in S : t = Turn(k)
        BY <2>2
    <2>4. \A o \in S : Turn(k) <= Turn(o)
        BY <2>2, <2>3
    <2>5. Acquired(free) = CHOOSE l \in S : \A o \in S : Turn(l) <= Turn(o)
        BY <1>4 DEF Acquired
    <2>6. Acquired(free) \in S /\ \A o \in S : Turn(Acquired(free)) <= Turn(o)
        BY <2>3, <2>4, <2>5
    <2>7. QED BY <1>1, <2>6
<1>5. QED BY <1>3, <1>4

-----------------------------------------------------------------------------
(* What one symbol is asked for by.                                        *)

Quests == [at : {"attempt", "send"}, tries : Nat, backoff : Nat \ {0},
           refreshed : BOOLEAN, lane : LaneIds]

LanesTypeOK ==
    /\ second \in Nat
    /\ asker \in PoolUsers
    /\ freeAt \in [LaneIds -> Nat]
    /\ nextLane \in LaneIds
    /\ quest \in {NoQuest} \cup Quests
    /\ refusedBy \subseteq LaneIds

\* The refusals of this symbol, and the lanes that were had for it: one is in hand
\* but for the series, between attempts.
Refusals == quest.tries - (IF quest.refreshed THEN 1 ELSE 0)
InHand == IF quest.at = "attempt" /\ asker = "timeseries" THEN {} ELSE {quest.lane}
Had == Refusals + (IF quest.at = "attempt" /\ asker = "timeseries" THEN 0 ELSE 1)

\* No cooldown this symbol brought is longer than the next wait.
CooldownsAreWaited ==
    quest.at # "idle" =>
        /\ \A l \in refusedBy : freeAt[l] <= second + quest.backoff
        /\ quest.at = "send" /\ quest.lane \in refusedBy => freeAt[quest.lane] <= second

\* The lanes whose turns were the last, as many as were had, are accounted for.
TurnsAreTaken ==
    quest.at # "idle" =>
        /\ quest.refreshed => asker = "profile" /\ quest.tries >= 1
        /\ \A l \in LaneIds :
               Turn(l) >= LaneCount - Had => l \in refusedBy \cup passed \cup InHand
        /\ Refusals >= LaneCount => LaneIds \subseteq refusedBy \cup passed

AskingInv == LanesTypeOK /\ CooldownsAreWaited /\ TurnsAreTaken

\* One more lane is had.
LEMMA AcquiringCovers ==
    ASSUME NEW f \in [LaneIds -> Nat], nextLane \in LaneIds, NEW C, NEW h \in Nat,
           \A l \in LaneIds : Turn(l) >= LaneCount - h => l \in C,
           nextLane' = IF Parked(f) = LaneIds THEN nextLane
                       ELSE (Acquired(f) + 1) % LaneCount
    PROVE  /\ nextLane' \in LaneIds
           /\ \A l \in LaneIds : Turn(l)' >= LaneCount - (h + 1) =>
                  l \in C \cup Parked(f) \cup {Acquired(f)}
<1>1. CASE Parked(f) = LaneIds
    BY <1>1
<1>2. CASE Parked(f) # LaneIds
    <2>1. /\ Acquired(f) \in LaneIds
          /\ \A l \in LaneIds : Turn(l) < Turn(Acquired(f)) => l \in Parked(f)
        BY <1>2, AcquiredIsALane
    <2>2. PICK p \in LaneIds : p = nextLane
        OBVIOUS
    <2>3. PICK c \in LaneIds : c = Acquired(f)
        BY <2>1
    <2>4. PICK q : q = (c + 1) % LaneCount
        OBVIOUS
    <2>5. nextLane' = q
        BY <1>2, <2>3, <2>4
    <2>6. /\ q \in LaneIds
          /\ \A l \in LaneIds :
                 /\ TurnFrom(p, l) \in 0 .. LaneCount - 1
                 /\ TurnFrom(p, l) <= TurnFrom(p, c) =>
                       TurnFrom(q, l) = TurnFrom(p, l) + LaneCount - TurnFrom(p, c) - 1
                 /\ TurnFrom(p, l) > TurnFrom(p, c) =>
                       TurnFrom(q, l) = TurnFrom(p, l) - TurnFrom(p, c) - 1
        BY <2>4, TurnMovesOn
    <2>7. \A l \in LaneIds : Turn(l) = TurnFrom(p, l) /\ Turn(l)' = TurnFrom(q, l)
        BY <2>2, <2>5 DEF Turn, TurnFrom
    <2>8. \A l \in LaneIds : TurnFrom(p, l) < TurnFrom(p, c) => l \in Parked(f)
        BY <2>1, <2>3, <2>7
    <2>9. \A l \in LaneIds : TurnFrom(p, l) >= LaneCount - h => l \in C
        BY <2>7
    <2>10. ASSUME NEW l \in LaneIds, TurnFrom(p, l) = TurnFrom(p, c)
           PROVE  l = c
        <3>1. /\ TurnFrom(p, l) = IF l >= p THEN l - p ELSE l - p + LaneCount
              /\ TurnFrom(p, c) = IF c >= p THEN c - p ELSE c - p + LaneCount
            BY TurnIs
        <3>2. /\ l \in 0 .. LaneCount - 1 /\ c \in 0 .. LaneCount - 1
              /\ p \in 0 .. LaneCount - 1 /\ LaneCount \in Nat
            BY LaneCountIsPositive DEF LaneIds
        <3>3. (IF l >= p THEN l - p ELSE l - p + LaneCount)
                 = (IF c >= p THEN c - p ELSE c - p + LaneCount)
            BY <2>10, <3>1
        <3>4. QED BY <3>2, <3>3
    <2>11. ASSUME NEW l \in LaneIds, TurnFrom(q, l) >= LaneCount - (h + 1)
           PROVE  l \in C \cup Parked(f) \cup {c}
        <3>1. /\ TurnFrom(p, l) \in Nat /\ TurnFrom(p, c) \in Nat /\ LaneCount \in Nat
              /\ TurnFrom(p, c) < LaneCount
            BY <2>6, LaneCountIsPositive
        <3>2. CASE TurnFrom(p, l) <= TurnFrom(p, c)
            BY <2>8, <2>10, <3>1, <3>2
        <3>3. CASE TurnFrom(p, l) > TurnFrom(p, c)
            BY <2>6, <2>9, <2>11, <3>1, <3>3
        <3>4. QED BY <3>1, <3>2, <3>3
    <2>12. QED BY <2>3, <2>5, <2>6, <2>7, <2>11
<1>3. QED BY <1>1, <1>2

LEMMA AskingStarts == LanesInit => AskingInv
BY LaneCountIsPositive
DEF LanesInit, AskingInv, LanesTypeOK, CooldownsAreWaited, TurnsAreTaken, LaneIds, NoQuest

\* A symbol that is done with leaves nothing to hold.
LEMMA DoneKeeps ==
    ASSUME AskingInv, quest' = NoQuest,
           UNCHANGED <<second, asker, freeAt, nextLane, refusedBy, passed>>
    PROVE  AskingInv'
BY DEF AskingInv, LanesTypeOK, CooldownsAreWaited, TurnsAreTaken, NoQuest

LEMMA QuietlyKeeps ==
    ASSUME AskingInv, UNCHANGED <<second, asker, freeAt, nextLane, refusedBy, passed, quest>>
    PROVE  AskingInv'
BY DEF AskingInv, LanesTypeOK, CooldownsAreWaited, TurnsAreTaken, Had, InHand, Refusals, Turn

LEMMA TimeKeeps ==
    ASSUME AskingInv, SecondPasses
    PROVE  AskingInv'
<1>1. second' = second + 1 /\ UNCHANGED <<asker, freeAt, nextLane, quest, refusedBy, passed>>
    BY DEF SecondPasses
<1>2. LanesTypeOK'
    BY <1>1 DEF AskingInv, LanesTypeOK
<1>3. CooldownsAreWaited'
    <2>1. /\ second \in Nat /\ \A l \in refusedBy : freeAt[l] \in Nat
          /\ quest.at # "idle" => quest.backoff \in Nat
          /\ quest.at = "send" => freeAt[quest.lane] \in Nat
        BY DEF AskingInv, LanesTypeOK, Quests, NoQuest
    <2>2. QED BY <1>1, <2>1 DEF AskingInv, CooldownsAreWaited
<1>4. TurnsAreTaken'
    BY <1>1 DEF AskingInv, TurnsAreTaken, Had, InHand, Refusals, Turn
<1>5. QED BY <1>2, <1>3, <1>4 DEF AskingInv

LEMMA AskingForKeeps ==
    ASSUME AskingInv, AsksFor
    PROVE  AskingInv'
<1>1. /\ refusedBy' = {} /\ UNCHANGED <<second, asker, freeAt>>
      /\ quest' = [at |-> "attempt", tries |-> 0, backoff |-> FirstBackoff,
                   refreshed |-> FALSE, lane |-> Acquired(freeAt)]
    BY DEF AsksFor
<1>2. PICK f \in [LaneIds -> Nat] : f = freeAt
    BY DEF AskingInv, LanesTypeOK
<1>3. Acquired(f) \in LaneIds
    BY AcquiredIsALane DEF AskingInv, LanesTypeOK
<1>4. /\ quest' \in Quests /\ quest'.at = "attempt" /\ quest'.tries = 0
      /\ quest'.lane = Acquired(f) /\ quest'.refreshed = FALSE
    BY <1>1, <1>2, <1>3, LaneCountIsPositive DEF Quests
<1>5. \A l \in LaneIds : Turn(l) < LaneCount
    BY TurnMovesOn, LaneCountIsPositive DEF Turn, TurnFrom, AskingInv, LanesTypeOK, LaneIds
<1>6. CASE asker = "timeseries"
    <2>1. nextLane' = nextLane
        BY <1>6 DEF AsksFor
    <2>2. Had' = 0 /\ Refusals' = 0
        BY <1>1, <1>4, <1>6 DEF Had, Refusals
    <2>3. \A l \in LaneIds : Turn(l)' < LaneCount /\ Turn(l)' \in Int
        <3>1. \A l \in LaneIds : Turn(l) \in Int
            BY TurnMovesOn DEF Turn, TurnFrom, AskingInv, LanesTypeOK, LaneIds
        <3>2. QED BY <1>5, <2>1, <3>1 DEF Turn
    <2>4. TurnsAreTaken'
        BY <1>4, <2>2, <2>3, LaneCountIsPositive DEF TurnsAreTaken
    <2>5. QED
        BY <1>1, <1>4, <2>1, <2>4
        DEF AskingInv, LanesTypeOK, CooldownsAreWaited
<1>7. CASE asker # "timeseries"
    <2>1. /\ nextLane' = IF Parked(f) = LaneIds THEN nextLane
                         ELSE (Acquired(f) + 1) % LaneCount
          /\ passed' = Parked(f)
        BY <1>2, <1>7 DEF AsksFor
    <2>2. \A l \in LaneIds : Turn(l) >= LaneCount - 0 => l \in {}
        <3>1. \A l \in LaneIds : Turn(l) \in Int
            BY TurnMovesOn DEF Turn, TurnFrom, AskingInv, LanesTypeOK, LaneIds
        <3>2. QED BY <1>5, <3>1, LaneCountIsPositive
    <2>3. /\ nextLane' \in LaneIds
          /\ \A l \in LaneIds : Turn(l)' >= LaneCount - (0 + 1) =>
                 l \in {} \cup Parked(f) \cup {Acquired(f)}
        BY <2>1, <2>2, AcquiringCovers DEF AskingInv, LanesTypeOK
    <2>4. Had' = 1 /\ Refusals' = 0 /\ InHand' = {Acquired(f)}
        BY <1>1, <1>4, <1>7 DEF Had, Refusals, InHand
    <2>5. TurnsAreTaken'
        BY <1>1, <1>4, <2>1, <2>3, <2>4, LaneCountIsPositive DEF TurnsAreTaken
    <2>6. QED
        BY <1>1, <1>4, <2>3, <2>5
        DEF AskingInv, LanesTypeOK, CooldownsAreWaited
<1>8. QED BY <1>6, <1>7

\* What an invariant of a symbol's state is made from, once the next state is known.
LEMMA AttemptKeeps ==
    ASSUME AskingInv, Attempt
    PROVE  AskingInv'
<1>1. quest \in Quests /\ quest.at = "attempt"
    BY DEF Attempt, AskingInv, LanesTypeOK, NoQuest
<1>2. PICK f \in [LaneIds -> Nat] : f = freeAt
    BY DEF AskingInv, LanesTypeOK
<1>3. PICK lane \in LaneIds : lane = IF asker = "timeseries" THEN Acquired(f) ELSE quest.lane
    BY <1>1, AcquiredIsALane DEF Quests, AskingInv, LanesTypeOK
<1>4. /\ quest.tries \in Nat /\ quest.backoff \in Nat \ {0} /\ quest.refreshed \in BOOLEAN
      /\ second \in Nat /\ \A l \in LaneIds : freeAt[l] \in Nat
    BY <1>1 DEF Quests, AskingInv, LanesTypeOK
<1>5. /\ quest' \in Quests /\ quest'.at = "send" /\ quest'.lane = lane
      /\ quest'.tries = quest.tries /\ quest'.backoff >= quest.backoff
    <2>1. PICK b \in Nat \ {0} :
              b >= quest.backoff /\ quest' = [quest EXCEPT !.at = "send", !.lane = lane, !.backoff = b]
        <3>1. CASE ~OffCooldown(freeAt, lane)
            <4>1. quest' = [quest EXCEPT !.at = "send", !.lane = lane, !.backoff = 2 * quest.backoff]
                BY <1>1, <1>2, <1>3, <3>1 DEF Attempt, Quests
            <4>2. 2 * quest.backoff \in Nat \ {0} /\ 2 * quest.backoff >= quest.backoff
                BY <1>4
            <4>3. QED BY <4>1, <4>2
        <3>2. CASE OffCooldown(freeAt, lane)
            <4>1. PICK b \in Nat \ {0} : b = quest.backoff
                BY <1>4
            <4>2. quest' = [quest EXCEPT !.at = "send", !.lane = lane, !.backoff = b]
                BY <1>1, <1>2, <1>3, <3>2, <4>1 DEF Attempt, Quests
            <4>3. b >= quest.backoff
                BY <4>1
            <4>4. QED BY <4>2, <4>3
        <3>3. QED BY <3>1, <3>2
    <2>2. quest' \in Quests
        BY <1>1, <2>1, Zenon DEF Quests
    <2>3. QED BY <1>1, <2>1, <2>2 DEF Quests
<1>6. quest'.refreshed = quest.refreshed
    <2>1. CASE ~OffCooldown(freeAt, lane)
        BY <1>1, <1>2, <1>3, <2>1, Zenon DEF Attempt, Quests
    <2>2. CASE OffCooldown(freeAt, lane)
        BY <1>1, <1>2, <1>3, <2>2, Zenon DEF Attempt, Quests
    <2>3. QED BY <2>1, <2>2
<1>7. /\ UNCHANGED <<asker, freeAt, refusedBy>>
      /\ second' = IF OffCooldown(freeAt, lane) THEN second ELSE second + quest.backoff
    BY <1>1, <1>2, <1>3 DEF Attempt
<1>8. second' \in Nat /\ second' >= second
    BY <1>4, <1>7
<1>9. CooldownsAreWaited'
    <2>1. \A l \in refusedBy : l \in LaneIds /\ freeAt[l] <= second + quest.backoff
        BY <1>1 DEF AskingInv, LanesTypeOK, CooldownsAreWaited
    <2>2. quest'.backoff \in Nat
        BY <1>5 DEF Quests
    <2>3. \A l \in refusedBy : freeAt[l] <= second' + quest'.backoff
        BY <1>4, <1>5, <1>8, <2>1, <2>2
    <2>4. lane \in refusedBy => freeAt[lane] <= second'
        BY <1>4, <1>7, <2>1 DEF OffCooldown
    <2>5. QED BY <1>5, <1>7, <2>3, <2>4 DEF CooldownsAreWaited
<1>10. Refusals' = Refusals /\ Refusals \in Nat
    <2>1. Refusals' = Refusals
        BY <1>5, <1>6 DEF Refusals
    <2>2. Refusals \in Nat
        BY <1>1, <1>4 DEF AskingInv, TurnsAreTaken, Refusals
    <2>3. QED BY <2>1, <2>2
<1>11. Had' = Refusals + 1 /\ InHand' = {lane}
    BY <1>5, <1>10 DEF Had, InHand
<1>12. CASE asker = "timeseries"
    <2>1. /\ nextLane' = IF Parked(f) = LaneIds THEN nextLane
                         ELSE (Acquired(f) + 1) % LaneCount
          /\ passed' = passed \cup Parked(f)
        BY <1>2, <1>12 DEF Attempt, Acquires
    <2>2. Had = Refusals /\ InHand = {}
        BY <1>1, <1>10, <1>12 DEF Had, InHand
    <2>3. \A l \in LaneIds : Turn(l) >= LaneCount - Refusals => l \in refusedBy \cup passed
        BY <1>1, <2>2 DEF AskingInv, TurnsAreTaken
    <2>4. /\ nextLane' \in LaneIds
          /\ \A l \in LaneIds : Turn(l)' >= LaneCount - (Refusals + 1) =>
                 l \in (refusedBy \cup passed) \cup Parked(f) \cup {Acquired(f)}
        BY <1>10, <2>1, <2>3, AcquiringCovers DEF AskingInv, LanesTypeOK
    <2>5. \A l \in LaneIds : Turn(l)' >= LaneCount - Had' => l \in refusedBy' \cup passed' \cup InHand'
        BY <1>3, <1>7, <1>11, <1>12, <2>1, <2>4
    <2>6. Refusals' >= LaneCount => LaneIds \subseteq refusedBy' \cup passed'
        BY <1>1, <1>7, <1>10, <2>1 DEF AskingInv, TurnsAreTaken
    <2>7. quest'.refreshed => asker' = "profile" /\ quest'.tries >= 1
        BY <1>1, <1>5, <1>6, <1>7 DEF AskingInv, TurnsAreTaken
    <2>8. TurnsAreTaken'
        BY <2>5, <2>6, <2>7 DEF TurnsAreTaken
    <2>9. QED BY <1>5, <1>7, <1>8, <1>9, <2>4, <2>8 DEF AskingInv, LanesTypeOK
<1>13. CASE asker # "timeseries"
    <2>1. UNCHANGED <<nextLane, passed>>
        BY <1>13 DEF Attempt
    <2>2. Had = Refusals + 1 /\ InHand = {lane}
        BY <1>1, <1>3, <1>10, <1>13 DEF Had, InHand
    <2>3. \A l \in LaneIds : Turn(l)' >= LaneCount - Had' => l \in refusedBy' \cup passed' \cup InHand'
        BY <1>1, <1>7, <1>11, <2>1, <2>2 DEF AskingInv, TurnsAreTaken, Turn
    <2>4. Refusals' >= LaneCount => LaneIds \subseteq refusedBy' \cup passed'
        BY <1>1, <1>7, <1>10, <2>1 DEF AskingInv, TurnsAreTaken
    <2>5. quest'.refreshed => asker' = "profile" /\ quest'.tries >= 1
        BY <1>1, <1>5, <1>6, <1>7 DEF AskingInv, TurnsAreTaken
    <2>6. TurnsAreTaken'
        BY <2>3, <2>4, <2>5 DEF TurnsAreTaken
    <2>7. QED BY <1>5, <1>7, <1>8, <1>9, <2>1, <2>6 DEF AskingInv, LanesTypeOK
<1>14. QED BY <1>12, <1>13

LEMMA ExpiryKeeps ==
    ASSUME AskingInv, CrumbExpired
    PROVE  AskingInv'
<1>1. quest \in Quests /\ quest.at = "send" /\ asker = "profile"
    BY DEF CrumbExpired, Sends, AskingInv, LanesTypeOK, NoQuest
<1>2. CASE quest.refreshed
    BY <1>2, DoneKeeps DEF CrumbExpired
<1>3. CASE ~quest.refreshed
    <2>1. /\ quest' = [quest EXCEPT !.at = "attempt", !.tries = @ + 1, !.refreshed = TRUE]
          /\ UNCHANGED <<second, asker, freeAt, nextLane, refusedBy, passed>>
        BY <1>3 DEF CrumbExpired
    <2>2. PICK t \in Nat : t = quest.tries + 1 /\ t >= 1
        BY <1>1 DEF Quests
    <2>3. quest' = [quest EXCEPT !.at = "attempt", !.tries = t, !.refreshed = TRUE]
        BY <1>1, <2>1, <2>2 DEF Quests
    <2>4. quest' \in Quests /\ quest'.refreshed = TRUE
        BY <1>1, <2>3, Zenon DEF Quests
    <2>5. /\ quest'.at = "attempt" /\ quest'.tries = quest.tries + 1
          /\ quest'.lane = quest.lane /\ quest'.backoff = quest.backoff
        BY <1>1, <2>2, <2>3 DEF Quests
    <2>6. Refusals' = Refusals /\ Had' = Had /\ InHand' = InHand
        <3>1. quest.tries \in Nat
            BY <1>1 DEF Quests
        <3>2. Refusals' = Refusals
            BY <1>3, <2>4, <2>5, <3>1 DEF Refusals
        <3>3. QED BY <1>1, <2>1, <2>5, <3>2 DEF Had, InHand
    <2>7. TurnsAreTaken'
        BY <1>1, <2>1, <2>2, <2>4, <2>5, <2>6 DEF AskingInv, TurnsAreTaken, Turn
    <2>8. QED
        BY <1>1, <2>1, <2>4, <2>5, <2>7 DEF AskingInv, LanesTypeOK, CooldownsAreWaited
<1>4. QED BY <1>2, <1>3

LEMMA RefusingKeeps ==
    ASSUME AskingInv, YahooRefuses
    PROVE  AskingInv'
<1>1. quest \in Quests /\ quest.at = "send"
    BY DEF YahooRefuses, Sends, AskingInv, LanesTypeOK, NoQuest
<1>2. /\ quest.tries \in Nat /\ quest.backoff \in Nat \ {0} /\ quest.lane \in LaneIds
      /\ second \in Nat /\ freeAt \in [LaneIds -> Nat] /\ nextLane \in LaneIds
      /\ refusedBy \subseteq LaneIds
    BY <1>1 DEF Quests, AskingInv, LanesTypeOK
<1>3. /\ freeAt' = [freeAt EXCEPT ![quest.lane] = second + quest.backoff]
      /\ refusedBy' = refusedBy \cup {quest.lane}
      /\ UNCHANGED <<second, asker>>
    BY DEF YahooRefuses, Park
<1>4. PICK f \in [LaneIds -> Nat] : f = freeAt'
    BY <1>2, <1>3
<1>5. Refusals \in Nat /\ Had = Refusals + 1 /\ InHand = {quest.lane}
    BY <1>1, <1>2 DEF AskingInv, TurnsAreTaken, Refusals, Had, InHand
<1>6. PICK lane \in LaneIds : lane = IF asker = "timeseries" THEN quest.lane ELSE Acquired(f)
    BY <1>2, AcquiredIsALane
<1>7. /\ quest' \in Quests /\ quest'.at = "attempt" /\ quest'.lane = lane
      /\ quest'.tries = quest.tries + 1 /\ quest'.backoff >= quest.backoff
      /\ quest'.backoff \in Nat
    <2>1. PICK t \in Nat, b \in Nat \ {0} :
              /\ t = quest.tries + 1 /\ b >= quest.backoff
              /\ quest' = [quest EXCEPT !.at = "attempt", !.tries = t, !.lane = lane, !.backoff = b]
        <3>1. CASE asker = "timeseries"
            <4>1. quest' = [quest EXCEPT !.at = "attempt", !.tries = quest.tries + 1, !.lane = lane,
                                        !.backoff = 2 * quest.backoff]
                BY <1>1, <1>6, <3>1 DEF YahooRefuses, Quests
            <4>2. /\ 2 * quest.backoff \in Nat \ {0} /\ 2 * quest.backoff >= quest.backoff
                  /\ quest.tries + 1 \in Nat
                BY <1>2
            <4>3. QED BY <4>1, <4>2
        <3>2. CASE asker # "timeseries"
            <4>1. PICK b \in Nat \ {0} : b = quest.backoff
                BY <1>2
            <4>2. quest' = [quest EXCEPT !.at = "attempt", !.tries = quest.tries + 1,
                                        !.lane = lane, !.backoff = b]
                BY <1>1, <1>4, <1>6, <3>2, <4>1 DEF YahooRefuses, Quests
            <4>3. b >= quest.backoff /\ quest.tries + 1 \in Nat
                BY <1>2, <4>1
            <4>4. QED BY <4>2, <4>3
        <3>3. QED BY <3>1, <3>2
    <2>2. quest' \in Quests
        BY <1>1, <2>1, Zenon DEF Quests
    <2>3. QED BY <1>1, <2>1, <2>2 DEF Quests
<1>8. quest'.refreshed = quest.refreshed
    <2>1. CASE asker = "timeseries"
        BY <1>1, <2>1, Zenon DEF YahooRefuses, Quests
    <2>2. CASE asker # "timeseries"
        BY <1>1, <2>2, Zenon DEF YahooRefuses, Quests
    <2>3. QED BY <2>1, <2>2
<1>9. CooldownsAreWaited'
    <2>1. \A l \in refusedBy : freeAt[l] \in Nat /\ freeAt[l] <= second + quest.backoff
        BY <1>1, <1>2 DEF AskingInv, CooldownsAreWaited
    <2>2. \A l \in refusedBy' : freeAt'[l] <= second + quest'.backoff
        BY <1>2, <1>3, <1>7, <2>1
    <2>3. QED BY <1>3, <1>7, <2>2 DEF CooldownsAreWaited
<1>10. Refusals' = Refusals + 1
    BY <1>2, <1>7, <1>8 DEF Refusals
<1>11. \A l \in LaneIds : Turn(l) >= LaneCount - (Refusals + 1) => l \in refusedBy' \cup passed
    BY <1>1, <1>3, <1>5 DEF AskingInv, TurnsAreTaken
<1>12. \A l \in LaneIds : Turn(l) \in Nat
    BY <1>2, TurnMovesOn DEF Turn, TurnFrom, LaneIds
<1>13. Refusals + 1 >= LaneCount => LaneIds \subseteq refusedBy' \cup passed
    BY <1>5, <1>11, <1>12, LaneCountIsPositive
<1>14. quest'.refreshed => asker' = "profile" /\ quest'.tries >= 1
    BY <1>1, <1>2, <1>3, <1>7, <1>8 DEF AskingInv, TurnsAreTaken
<1>15. CASE asker = "timeseries"
    <2>1. UNCHANGED <<nextLane, passed>>
        BY <1>15 DEF YahooRefuses
    <2>2. Had' = Refusals + 1 /\ InHand' = {}
        BY <1>3, <1>5, <1>7, <1>10, <1>15 DEF Had, InHand
    <2>3. TurnsAreTaken'
        BY <1>10, <1>11, <1>13, <1>14, <2>1, <2>2 DEF TurnsAreTaken, Turn
    <2>4. QED BY <1>2, <1>3, <1>4, <1>7, <1>9, <2>1, <2>3 DEF AskingInv, LanesTypeOK
<1>16. CASE asker # "timeseries"
    <2>1. /\ nextLane' = IF Parked(f) = LaneIds THEN nextLane
                         ELSE (Acquired(f) + 1) % LaneCount
          /\ passed' = passed \cup Parked(f)
        BY <1>4, <1>16 DEF YahooRefuses, Acquires
    <2>0. PICK h \in Nat : h = Refusals + 1
        BY <1>5
    <2>2. /\ nextLane' \in LaneIds
          /\ \A l \in LaneIds : Turn(l)' >= LaneCount - (h + 1) =>
                 l \in (refusedBy' \cup passed) \cup Parked(f) \cup {Acquired(f)}
        <3>1. \A l \in LaneIds : Turn(l) >= LaneCount - h => l \in refusedBy' \cup passed
            BY <1>11, <2>0
        <3>2. QED BY <1>2, <2>1, <3>1, AcquiringCovers
    <2>3. Had' = h + 1 /\ InHand' = {lane}
        BY <1>3, <1>5, <1>7, <1>10, <1>16, <2>0 DEF Had, InHand
    <2>4. \A l \in LaneIds : Turn(l)' >= LaneCount - Had' => l \in refusedBy' \cup passed' \cup InHand'
        BY <1>6, <1>16, <2>1, <2>2, <2>3
    <2>5. Refusals' >= LaneCount => LaneIds \subseteq refusedBy' \cup passed'
        BY <1>10, <1>13, <2>1
    <2>6. TurnsAreTaken'
        BY <1>14, <2>4, <2>5 DEF TurnsAreTaken
    <2>7. QED BY <1>2, <1>3, <1>4, <1>7, <1>9, <2>2, <2>6 DEF AskingInv, LanesTypeOK
<1>17. QED BY <1>15, <1>16

-----------------------------------------------------------------------------
(* Several items shared out to the lanes.                                  *)

\* Every worker is somewhere on its stripe, and has left no item of it behind.
CrewInv ==
    crew.at # "idle" =>
        /\ DOMAIN crew = {"at", "items", "failed", "at_item", "results"}
        /\ crew.items \in Nat
        /\ crew.at_item \in [LaneIds -> Nat]
        /\ crew.results \in [0 .. crew.items - 1 -> BOOLEAN]
        /\ \A l \in LaneIds : crew.at_item[l] % LaneCount = l
        /\ \A i \in 0 .. crew.items - 1 :
               i < crew.at_item[i % LaneCount] => crew.results[i]
        /\ crew.at = "returned" => \A l \in LaneIds : crew.at_item[l] >= crew.items

LEMMA DividesOnce ==
    ASSUME NEW n \in Nat \ {0}, NEW p \in Int, NEW q \in Int, NEW r \in 0 .. n - 1,
           NEW s \in 0 .. n - 1, n * p + r = n * q + s
    PROVE  p = q /\ r = s
<1>1. n * (p - q) = s - r
    OBVIOUS
<1>2. s - r < n /\ s - r > 0 - n
    OBVIOUS
<1>3. ~(p - q >= 1)
    <2>1. ASSUME p - q >= 1 PROVE n * (p - q) >= n
        BY <2>1
    <2>2. QED BY <1>1, <1>2, <2>1
<1>4. ~(p - q <= 0 - 1)
    <2>1. ASSUME p - q <= 0 - 1 PROVE n * (p - q) <= 0 - n
        BY <2>1
    <2>2. QED BY <1>1, <1>2, <2>1
<1>5. p = q
    BY <1>3, <1>4
<1>6. QED BY <1>5

LEMMA DividesWith ==
    ASSUME NEW n \in Nat \ {0}, NEW i \in Int
    PROVE  \E q \in Int, r \in 0 .. n - 1 : i = n * q + r /\ r = i % n
<1>1. /\ i \div n \in Int /\ i % n \in 0 .. n - 1
      /\ i = n * (i \div n) + (i % n)
    OBVIOUS
<1>2. QED BY <1>1, Zenon

LEMMA Residues ==
    /\ \A i \in Nat : i % LaneCount \in LaneIds
    /\ \A l \in LaneIds : l \in Nat /\ l % LaneCount = l
    /\ \A i \in Nat : (i + LaneCount) % LaneCount = i % LaneCount
    /\ \A i, k \in Nat : i % LaneCount = k % LaneCount /\ k <= i /\ i < k + LaneCount => i = k
<1> DEFINE n == LaneCount
<1>1. n \in Nat \ {0} /\ LaneIds = 0 .. n - 1
    BY LaneCountIsPositive DEF LaneIds
<1> HIDE DEF n
<1>2. \A i \in Nat : i % n \in 0 .. n - 1
    BY <1>1
<1>3. \A l \in 0 .. n - 1 : l \in Nat /\ l % n = l
    BY <1>1
<1>4. ASSUME NEW i \in Nat PROVE (i + n) % n = i % n
    <2>0. i \in Int /\ i + n \in Int
        BY <1>1
    <2>1. PICK q \in Int, r \in 0 .. n - 1 : i = n * q + r /\ r = i % n
        BY <1>1, <2>0, DividesWith, Zenon
    <2>2. PICK p \in Int, s \in 0 .. n - 1 : i + n = n * p + s /\ s = (i + n) % n
        BY <1>1, <2>0, DividesWith, Zenon
    <2>3. n * (q + 1) = n * q + n
        BY <1>1
    <2>4. n * (q + 1) + r = n * p + s /\ q + 1 \in Int
        BY <1>1, <2>1, <2>2, <2>3
    <2>5. r = s
        BY <1>1, <2>4, DividesOnce
    <2>6. QED BY <2>1, <2>2, <2>5
<1>5. ASSUME NEW i \in Nat, NEW k \in Nat, i % n = k % n, k <= i, i < k + n
      PROVE  i = k
    <2>0. i \in Int /\ k \in Int
        OBVIOUS
    <2>1. PICK p \in Int, r \in 0 .. n - 1 : i = n * p + r /\ r = i % n
        BY <1>1, <2>0, DividesWith, Zenon
    <2>2. PICK q \in Int, s \in 0 .. n - 1 : k = n * q + s /\ s = k % n
        BY <1>1, <2>0, DividesWith, Zenon
    <2>3. PICK d \in 0 .. n - 1 : d = i - k
        BY <1>1, <1>5
    <2>4. n * p + 0 = n * q + d /\ 0 \in 0 .. n - 1
        <3>1. i = k + d
            BY <2>3
        <3>5. r = s
            BY <1>5, <2>1, <2>2, Zenon
        <3>2. n * p + r = n * q + r + d
            BY <1>1, <2>1, <2>2, <3>1, <3>5
        <3>3. n * p \in Int /\ n * q \in Int
            BY <1>1
        <3>4. QED BY <1>1, <3>2, <3>3
    <2>5. d = 0
        BY <1>1, <2>4, DividesOnce
    <2>6. QED BY <2>3, <2>5
<1>6. QED BY <1>1, <1>2, <1>3, <1>4, <1>5 DEF n

LEMMA CrewStartsKeeps ==
    ASSUME NEW many \in Nat, CrewStarts(many)
    PROVE  CrewInv'
<1>1. crew' = [at |-> "running", items |-> many, failed |-> {},
              at_item |-> [l \in LaneIds |-> l],
              results |-> [i \in 0 .. many - 1 |-> FALSE]]
    BY DEF CrewStarts
<1>2. /\ crew'.at = "running" /\ crew'.items = many
      /\ crew'.at_item = [l \in LaneIds |-> l]
      /\ crew'.results = [i \in 0 .. many - 1 |-> FALSE]
    BY <1>1
<1>3. crew'.at_item \in [LaneIds -> Nat] /\ \A l \in LaneIds : crew'.at_item[l] % LaneCount = l
    BY <1>2, Residues
<1>4. ASSUME NEW i \in 0 .. many - 1, i < crew'.at_item[i % LaneCount]
      PROVE  FALSE
    <2>1. i \in Nat /\ i % LaneCount \in LaneIds /\ crew'.at_item[i % LaneCount] = i % LaneCount
        BY <1>2, Residues
    <2>2. i % LaneCount <= i
        <3>1. \A n \in Nat \ {0} : \A x \in Nat : x % n <= x
            OBVIOUS
        <3>2. QED BY <2>1, <3>1, LaneCountIsPositive
    <2>3. i % LaneCount \in Nat
        BY <2>1, Residues
    <2>4. QED BY <1>4, <2>1, <2>2, <2>3
<1>5. DOMAIN crew' = {"at", "items", "failed", "at_item", "results"}
    BY <1>1
<1>6. QED BY <1>2, <1>3, <1>4, <1>5 DEF CrewInv

LEMMA WorkingKeeps ==
    ASSUME CrewInv, NEW l \in LaneIds, Works(l)
    PROVE  CrewInv'
<1>1. /\ crew.at = "running" /\ crew.at_item[l] < crew.items
      /\ crew' = [crew EXCEPT !.results[crew.at_item[l]] = TRUE,
                              !.at_item[l] = @ + LaneCount]
    BY DEF Works, Working
<1>2. /\ crew.items \in Nat /\ crew.at_item \in [LaneIds -> Nat]
      /\ crew.results \in [0 .. crew.items - 1 -> BOOLEAN]
      /\ \A m \in LaneIds : crew.at_item[m] % LaneCount = m
    BY <1>1 DEF CrewInv
<1>3. PICK k \in 0 .. crew.items - 1 : k = crew.at_item[l]
    BY <1>1, <1>2
<1>4. /\ crew'.at = "running" /\ crew'.items = crew.items
      /\ crew'.at_item = [crew.at_item EXCEPT ![l] = k + LaneCount]
      /\ crew'.results = [crew.results EXCEPT ![k] = TRUE]
    BY <1>1, <1>3
<1>5. /\ crew'.at_item \in [LaneIds -> Nat] /\ crew'.at_item[l] = k + LaneCount
      /\ \A m \in LaneIds \ {l} : crew'.at_item[m] = crew.at_item[m]
    BY <1>2, <1>3, <1>4, LaneCountIsPositive
<1>6. /\ crew'.results \in [0 .. crew.items - 1 -> BOOLEAN]
      /\ crew'.results[k]
      /\ \A i \in 0 .. crew.items - 1 : i # k => crew'.results[i] = crew.results[i]
    BY <1>2, <1>4, Zenon
<1>7. \A m \in LaneIds : crew'.at_item[m] % LaneCount = m
    <2>1. (k + LaneCount) % LaneCount = l
        <3>1. k \in Nat /\ k % LaneCount = l
            BY <1>2, <1>3
        <3>2. QED BY <3>1, Residues
    <2>2. QED BY <1>2, <1>5, <2>1
<1>8. ASSUME NEW i \in 0 .. crew.items - 1, i < crew'.at_item[i % LaneCount]
      PROVE  crew'.results[i]
    <2>1. i \in Nat /\ k \in Nat /\ i % LaneCount \in LaneIds /\ k % LaneCount = l
        BY <1>2, <1>3, Residues
    <2>2. CASE i = k
        BY <1>6, <2>2
    <2>3. CASE i # k /\ i % LaneCount = l
        <3>1. i < k + LaneCount
            BY <1>5, <1>8, <2>3
        <3>2. i < k
            BY <2>1, <2>3, <3>1, Residues
        <3>3. i < crew.at_item[i % LaneCount]
            BY <1>3, <2>3, <3>2
        <3>4. crew.results[i]
            BY <1>1, <3>3 DEF CrewInv
        <3>5. QED BY <1>6, <2>3, <3>4
    <2>4. CASE i % LaneCount # l
        <3>1. i < crew.at_item[i % LaneCount]
            BY <1>5, <1>8, <2>1, <2>4
        <3>2. crew.results[i] /\ i # k
            BY <1>1, <2>1, <2>4, <3>1 DEF CrewInv
        <3>3. QED BY <1>6, <3>2
    <2>5. QED BY <2>2, <2>3, <2>4
<1>9. DOMAIN crew' = {"at", "items", "failed", "at_item", "results"}
    <2>1. DOMAIN crew' = DOMAIN crew
        BY <1>1
    <2>2. QED BY <1>1, <2>1 DEF CrewInv
<1>10. QED BY <1>2, <1>4, <1>5, <1>6, <1>7, <1>8, <1>9 DEF CrewInv

LEMMA RaisingKeeps ==
    ASSUME CrewInv, NEW l \in LaneIds, WorkRaises(l)
    PROVE  CrewInv'
<1>1. crew.at = "running" /\ crew' = [crew EXCEPT !.failed = @ \cup {l}]
    BY DEF WorkRaises
<1>2. /\ crew'.at = crew.at /\ crew'.items = crew.items /\ crew'.at_item = crew.at_item
      /\ crew'.results = crew.results
    BY <1>1
<1>3. QED BY <1>1, <1>2 DEF CrewInv

LEMMA CrewEndsKeeps ==
    ASSUME CrewInv, CrewEnds
    PROVE  CrewInv'
<1>1. PICK how \in {"returned", "raised"} :
          how = (IF crew.failed = {} THEN "returned" ELSE "raised")
    OBVIOUS
<1>2. /\ crew.at = "running" /\ \A l \in LaneIds : ~Working(l)
      /\ crew' = [crew EXCEPT !.at = how]
    BY <1>1 DEF CrewEnds
<1>3. /\ crew.items \in Nat /\ crew.at_item \in [LaneIds -> Nat]
    BY <1>2 DEF CrewInv
<1>4. /\ crew'.items = crew.items /\ crew'.at_item = crew.at_item
      /\ crew'.results = crew.results
    BY <1>2
<1>5. crew'.at = how
    BY <1>2 DEF CrewInv
<1>6. how = "returned" => \A l \in LaneIds : crew.at_item[l] >= crew.items
    BY <1>1, <1>2, <1>3 DEF Working
<1>7. DOMAIN crew' = DOMAIN crew
    BY <1>2
<1>8. QED BY <1>2, <1>4, <1>5, <1>6, <1>7 DEF CrewInv

LanesInv == AskingInv /\ CrewInv

LEMMA LanesStep ==
    ASSUME LanesInv, [LanesNext]_lanesVars
    PROVE  LanesInv'
<1>1. AskingInv /\ CrewInv
    BY DEF LanesInv
<1>2. CASE UNCHANGED lanesVars
    <2>1. AskingInv'
        BY <1>1, <1>2, QuietlyKeeps DEF lanesVars
    <2>2. QED BY <1>1, <1>2, <2>1 DEF lanesVars, LanesInv, CrewInv
<1>3. CASE UNCHANGED crew
    <2>1. CrewInv'
        BY <1>1, <1>3 DEF CrewInv
    <2>2. ASSUME NEW issued \in BOOLEAN, Crumb(issued) PROVE AskingInv'
        BY <1>1, <2>2, DoneKeeps, QuietlyKeeps DEF Crumb
    <2>3. YahooAnswers \/ GivesUp => AskingInv'
        BY <1>1, DoneKeeps DEF YahooAnswers, GivesUp
    <2>4. (\E many \in 1 .. MaxItems : CrewStarts(many))
          \/ (\E l \in LaneIds : Works(l) \/ WorkRaises(l)) \/ CrewEnds => AskingInv'
        BY <1>1, QuietlyKeeps DEF CrewStarts, Works, WorkRaises, CrewEnds
    <2>5. AskingInv'
        BY <1>1, <1>2, <2>2, <2>3, <2>4, AskingForKeeps, AttemptKeeps, ExpiryKeeps,
           RefusingKeeps, TimeKeeps, QuietlyKeeps DEF LanesNext, lanesVars
    <2>6. QED BY <2>1, <2>5 DEF LanesInv
<1>4. CASE \E many \in 1 .. MaxItems : CrewStarts(many)
    BY <1>1, <1>4, CrewStartsKeeps, QuietlyKeeps DEF CrewStarts, LanesInv
<1>5. CASE \E l \in LaneIds : Works(l) \/ WorkRaises(l)
    BY <1>1, <1>5, WorkingKeeps, RaisingKeeps, QuietlyKeeps DEF Works, WorkRaises, LanesInv
<1>6. CASE CrewEnds
    BY <1>1, <1>6, CrewEndsKeeps, QuietlyKeeps DEF CrewEnds, LanesInv
<1>7. QED
    BY <1>2, <1>3, <1>4, <1>5, <1>6
    DEF LanesNext, AsksFor, Attempt, Crumb, YahooAnswers, CrumbExpired, YahooRefuses, GivesUp,
        SecondPasses

\* However many exits there are, a lane that refused a symbol is not asked for it on
\* its cooldown, a symbol is given up on when every lane refused it or was passed over,
\* and across gives back no result that nobody computed.
\* (acquire, park, across, profile, fetch)
THEOREM LanesAreSharedOut == LanesSpec => []LanesAreShared
<1>1. LanesInit => LanesInv
    BY AskingStarts DEF LanesInv, LanesInit, CrewInv, NoCrew
<1>2. LanesInv => LanesAreShared
    <2>1. LanesInv => RefusalsAreHonoured
        BY DEF LanesInv, AskingInv, CooldownsAreWaited, RefusalsAreHonoured, OffCooldown
    <2>2. ASSUME LanesInv, quest.at = "attempt", quest.tries = LaneTries
          PROVE  LaneIds \subseteq refusedBy \cup passed
        <3>1. Refusals >= LaneCount
            BY <2>2, LaneCountIsPositive DEF Refusals, LaneTries
        <3>2. QED BY <2>2, <3>1 DEF LanesInv, AskingInv, TurnsAreTaken
    <2>3. ASSUME LanesInv, crew.at = "returned", NEW i \in DOMAIN crew.results
          PROVE  crew.results[i]
        <3>1. /\ i \in 0 .. crew.items - 1 /\ crew.items \in Nat
              /\ crew.at_item \in [LaneIds -> Nat]
              /\ \A l \in LaneIds : crew.at_item[l] >= crew.items
            BY <2>3 DEF LanesInv, CrewInv
        <3>2. i % LaneCount \in LaneIds
            BY <3>1, Residues
        <3>3. i < crew.at_item[i % LaneCount]
            BY <3>1, <3>2
        <3>4. QED BY <2>3, <3>1, <3>3 DEF LanesInv, CrewInv
    <2>4. QED BY <2>1, <2>2, <2>3 DEF LanesAreShared, EveryLaneIsTried, AcrossIsWhole
<1>3. QED BY <1>1, <1>2, LanesStep, PTL DEF LanesSpec

-----------------------------------------------------------------------------
(* Prices (Ingest).                                                        *)

\* What the assumptions say of the numbers and the queue.
LEMMA IngestConstants ==
    /\ SettlingDays \in Nat /\ RevisedFor \in Nat /\ LastDay \in Nat
    /\ RevisedFor < SettlingDays
    /\ Securities \in Seq(Secs)
    /\ \A i, j \in 1 .. Len(Securities) : Securities[i] = Securities[j] => i = j
<1>1. Securities \in Seq(Secs) /\ IsInjective(Securities)
    BY IngestAssumption DEF Secs
<1>2. DOMAIN Securities = 1 .. Len(Securities)
    BY <1>1
<1>3. QED BY <1>1, <1>2, IngestAssumption DEF IsInjective

\* What Max and Min return of two.
LEMMA MaxAndMinOfTwo ==
    ASSUME NEW a \in Int, NEW b \in Int
    PROVE  /\ Max({a, b}) = IF a >= b THEN a ELSE b
           /\ Min({a, b}) = IF a <= b THEN a ELSE b
<1>1. PICK m \in {a, b} : m >= a /\ m >= b
    OBVIOUS
<1>2. Max({a, b}) = CHOOSE x \in {a, b} : \A y \in {a, b} : x >= y
    BY DEF Max
<1>3. Max({a, b}) \in {a, b} /\ \A y \in {a, b} : Max({a, b}) >= y
    BY <1>1, <1>2
<1>4. PICK l \in {a, b} : l <= a /\ l <= b
    OBVIOUS
<1>5. Min({a, b}) = CHOOSE x \in {a, b} : \A y \in {a, b} : x <= y
    BY DEF Min
<1>6. Min({a, b}) \in {a, b} /\ \A y \in {a, b} : Min({a, b}) <= y
    BY <1>4, <1>5
<1>7. QED BY <1>3, <1>6

\* The last of the days up to one of them.
LEMMA LastHeld ==
    ASSUME NEW upTo \in Nat, NEW days \in SUBSET (0 .. upTo), days # {}
    PROVE  Max(days) \in days /\ \A d \in days : d <= Max(days)
<1> DEFINE Short == {upTo - d : d \in days}
<1>0. \A d \in days : d \in Int /\ upTo - d \in Nat
    OBVIOUS
<1>1. Short \subseteq Nat /\ Short # {}
    BY <1>0
<1> HIDE DEF Short
<1>2. PICK k \in Short : \A j \in Short : k <= j
    BY <1>1, LeastOf
<1> USE DEF Short
<1>3. PICK m \in days : k = upTo - m
    OBVIOUS
<1>4. ASSUME NEW d \in days PROVE m >= d
    <2>1. k <= upTo - d
        BY <1>2
    <2>2. m \in Int /\ d \in Int
        BY <1>0
    <2>3. QED BY <1>3, <2>1, <2>2
<1>5. Max(days) = CHOOSE x \in days : \A y \in days : x >= y
    BY DEF Max
<1>6. Max(days) \in days /\ \A d \in days : Max(days) >= d
    BY <1>4, <1>5
<1>7. QED BY <1>6

-----------------------------------------------------------------------------

\* What a session's bar is, on a scale there has been.
IsBar(b) == b \in Nat \X (0 .. yahoo.splits)

\* Bars of days that have been, with no hole that was not answered by a blank.
Unbroken(held, upTo, blank) ==
    /\ held = [d \in DOMAIN held |-> held[d]]
    /\ DOMAIN held \subseteq 0 .. upTo
    /\ \A e \in DOMAIN held : \A d \in 0 .. e : d \in DOMAIN held \/ d \in blank

\* What is held is bars, and those of the sessions revised no more are as they ended.
TrueUpTo(held, last, blank) ==
    \A d \in DOMAIN held :
        /\ IsBar(held[d])
        /\ d <= last /\ d \notin blank => held[d][1] = yahoo.bar[d]

YahooOK ==
    /\ DOMAIN yahoo = {"bar", "fact", "splits", "revisions"}
    /\ yahoo.bar \in [0 .. LastDay -> Nat] /\ yahoo.splits \in Nat

LastTrue(s) == IF s \in lapsed THEN -1 ELSE lastSeen[s] - RevisedFor

StoreInv ==
    /\ day \in 0 .. LastDay
    /\ YahooOK
    /\ DOMAIN bars = Secs /\ DOMAIN blanks = Secs /\ lastSeen \in [Secs -> 0 .. day]
    /\ \A s \in Secs : Unbroken(bars[s], day, blanks[s])
    /\ \A s \in Secs : TrueUpTo(bars[s], LastTrue(s), blanks[s])

\* No window starts past the first day not held, nor past the settling cutoff, and none
\* that is to be read asks for a settled day that is held.
StartsAreEarly ==
    /\ \A s \in Secs :
        /\ ingest.starts[s] \in Int
        /\ ingest.starts[s] <= 0 \/ ingest.starts[s] <= day - SettlingDays
        /\ ingest.starts[s] <= 0 \/ \E e \in DOMAIN bars[s] : ingest.starts[s] <= e + 1
    /\ \A i \in 1 .. Len(ingest.todo) : \A d \in DOMAIN bars[ingest.todo[i]] :
          ingest.starts[ingest.todo[i]] <= d => day - SettlingDays <= d

\* An answer is of every day from the start on, and is blank or true.
AnswerIsToday ==
    ingest.at \in {"put", "write"} /\ ingest.payload[1] = "bars" =>
        /\ ingest.endpoint = "chart"
        /\ \E first \in 0 .. day :
               /\ first >= ingest.starts[Head(ingest.todo)]
               /\ first = 0 \/ first = ingest.starts[Head(ingest.todo)]
               /\ DOMAIN ingest.payload[2] = first .. day
        /\ \A d \in DOMAIN ingest.payload[2] :
              \/ ingest.payload[2][d] = Blank
              \/ /\ IsBar(ingest.payload[2][d])
                 /\ d <= day - RevisedFor => ingest.payload[2][d][1] = yahoo.bar[d]

TodoOK(todo) ==
    /\ todo \in Seq(Secs)
    /\ \A i, j \in 1 .. Len(todo) : todo[i] = todo[j] => i = j

IngestRunInv ==
    ingest # NoIngest =>
        /\ DOMAIN ingest = {"at", "endpoint", "todo", "ok", "failed", "payload", "path",
                            "isNew", "starts"}
        /\ ingest.at \in {"fetch", "put", "write"}
        /\ TodoOK(ingest.todo) /\ ingest.endpoint \in Endpoints
        /\ ingest.at # "fetch" => ingest.todo # <<>>
        /\ StartsAreEarly
        /\ AnswerIsToday

IngestInv == StoreInv /\ IngestRunInv

\* Nothing is settled before it can be revised no more.
LEMMA SettledIsTrue ==
    ASSUME IngestInv, NEW s \in Secs \ lapsed, NEW d \in DOMAIN bars[s] \ blanks[s],
           d < lastSeen[s] - SettlingDays
    PROVE  bars[s][d][1] = yahoo.bar[d]
<1>1. /\ lastSeen[s] \in 0 .. day /\ day \in Nat
      /\ Unbroken(bars[s], day, blanks[s])
      /\ TrueUpTo(bars[s], lastSeen[s] - RevisedFor, blanks[s])
    BY DEF IngestInv, StoreInv, LastTrue
<1>2. d \in Int /\ lastSeen[s] \in Int
    BY <1>1 DEF Unbroken
<1>3. d <= lastSeen[s] - RevisedFor
    BY <1>2, IngestConstants
<1>4. QED BY <1>1, <1>3 DEF TrueUpTo

\* The property is the invariant read by the day.
LEMMA IngestInvImplies == IngestInv => BarsAreTrue
<1> SUFFICES ASSUME IngestInv PROVE BarsAreTrue
    OBVIOUS
<1>1. HeldIsWhole
    <2>1. SUFFICES ASSUME NEW s \in Secs, bars[s] # NoBars,
                          NEW d \in 0 .. Max(DOMAIN bars[s]), d \notin blanks[s]
                   PROVE  d \in DOMAIN bars[s]
        BY DEF HeldIsWhole
    <2>2. Unbroken(bars[s], day, blanks[s]) /\ day \in Nat
        BY DEF IngestInv, StoreInv
    <2>3. DOMAIN bars[s] # {}
        BY <2>1, <2>2 DEF Unbroken, NoBars
    <2>4. Max(DOMAIN bars[s]) \in DOMAIN bars[s]
        BY <2>2, <2>3, LastHeld DEF Unbroken
    <2>5. QED BY <2>1, <2>2, <2>4 DEF Unbroken
<1>2. SettledIsFinal
    BY SettledIsTrue DEF SettledIsFinal, Cutoff
<1>3. SweepFindsSplits
    <2>1. SUFFICES ASSUME NEW s \in Secs \ lapsed, lastSeen[s] = day,
                          NEW d, d \notin blanks[s]
                   PROVE  d \in Mismatches(s)
                             <=> /\ d \in DOMAIN bars[s] /\ d < Cutoff(day)
                                 /\ bars[s][d][2] < yahoo.splits
        BY DEF SweepFindsSplits, Mismatches
    <2>2. PICK said : said = ParsedBars(Payload("chart", BackfillStart, {}))
        OBVIOUS
    <2>3. Max({0, 0}) = 0
        BY MaxAndMinOfTwo
    <2>4. Payload("chart", BackfillStart, {}) = <<"bars", [e \in 0 .. day |-> Said(e)]>>
        BY <2>3 DEF Payload, BackfillStart
    <2>5. DOMAIN said = 0 .. day /\ \A e \in 0 .. day : said[e] = Said(e)
        <3>1. \A e \in 0 .. day : Said(e) # Blank
            BY DEF Said, Blank
        <3>2. PICK whole : whole = [e \in 0 .. day |-> Said(e)]
            OBVIOUS
        <3>3. DOMAIN whole = 0 .. day /\ \A e \in 0 .. day : whole[e] = Said(e)
            BY <3>2
        <3>4. PICK payload : payload = <<"bars", whole>>
            OBVIOUS
        <3>5. payload = Payload("chart", BackfillStart, {})
            BY <2>4, <3>2, <3>4
        <3>6. payload[1] = "bars" /\ payload[2] = whole
            BY <3>4
        <3>7. said = Restrict(whole, {e \in DOMAIN whole : whole[e] # Blank})
            BY <2>2, <3>5, <3>6 DEF ParsedBars
        <3>8. {e \in DOMAIN whole : whole[e] # Blank} = 0 .. day
            BY <3>1, <3>3
        <3>9. QED BY <3>3, <3>7, <3>8 DEF Restrict
    <2>6. d \in Mismatches(s)
             <=> /\ d \in DOMAIN bars[s] /\ d \in DOMAIN said
                 /\ d < Cutoff(day) /\ bars[s][d] # said[d]
        BY <2>2 DEF Mismatches
    <2>7. ASSUME d \in DOMAIN bars[s], d < Cutoff(day)
          PROVE  d \in DOMAIN said /\ (bars[s][d] # said[d] <=> bars[s][d][2] < yahoo.splits)
        <3>1. d \in 0 .. day /\ IsBar(bars[s][d]) /\ yahoo.splits \in Nat
            BY <2>7 DEF IngestInv, StoreInv, Unbroken, TrueUpTo, YahooOK
        <3>2. bars[s][d][1] = yahoo.bar[d]
            BY <2>1, <2>7, SettledIsTrue DEF Cutoff
        <3>3. PICK r \in Nat, k \in 0 .. yahoo.splits : bars[s][d] = <<r, k>>
            BY <3>1 DEF IsBar
        <3>4. said[d] = <<r, yahoo.splits>>
            BY <2>5, <3>1, <3>2, <3>3 DEF Said
        <3>5. QED BY <2>5, <3>1, <3>3, <3>4
    <2>8. QED BY <2>6, <2>7
<1>4. QED BY <1>1, <1>2, <1>3 DEF BarsAreTrue

\* Nothing is held.
LEMMA IngestStarts == IngestInit => IngestInv
<1> SUFFICES ASSUME IngestInit PROVE IngestInv
    OBVIOUS
<1>1. bars = [s \in Secs |-> NoBars] /\ blanks = [s \in Secs |-> {}]
    BY DEF IngestInit
<1>2. \A s \in Secs : DOMAIN bars[s] = {} /\ bars[s] = [d \in {} |-> <<>>]
    BY <1>1 DEF NoBars
<1>3. \A s \in Secs : Unbroken(bars[s], day, blanks[s])
    BY <1>2 DEF Unbroken
<1>4. \A s \in Secs : TrueUpTo(bars[s], LastTrue(s), blanks[s])
    BY <1>2 DEF TrueUpTo
<1>5. day = 0 /\ lastSeen = [s \in Secs |-> 0] /\ ingest = NoIngest
    BY DEF IngestInit
<1>6. YahooOK
    BY DEF IngestInit, YahooOK
<1>7. StoreInv
    BY <1>1, <1>3, <1>4, <1>5, <1>6, IngestConstants DEF StoreInv
<1>8. QED BY <1>5, <1>7 DEF IngestInv, IngestRunInv

\* Steps that leave the store alone.
LEMMA StoreStays ==
    ASSUME StoreInv, UNCHANGED <<day, yahoo, bars, lastSeen, lapsed, blanks>>
    PROVE  StoreInv'
BY DEF StoreInv, Unbroken, TrueUpTo, YahooOK, LastTrue, IsBar

\* What is left to read is some of what was.
LEMMA TailIsOK ==
    ASSUME NEW todo, TodoOK(todo), todo # <<>>
    PROVE  /\ TodoOK(Tail(todo)) /\ Len(todo) >= 1 /\ Head(todo) = todo[1]
           /\ \A i \in 1 .. Len(Tail(todo)) :
                 /\ i + 1 \in 1 .. Len(todo)
                 /\ Tail(todo)[i] = todo[i + 1] /\ Tail(todo)[i] # Head(todo)
<1>1. /\ todo \in Seq(Secs) /\ Tail(todo) \in Seq(Secs) /\ Len(todo) \in Nat
      /\ Len(todo) >= 1 /\ Len(Tail(todo)) = Len(todo) - 1 /\ Head(todo) = todo[1]
      /\ \A i \in 1 .. Len(Tail(todo)) : Tail(todo)[i] = todo[i + 1]
    BY DEF TodoOK
<1>2. \A i \in 1 .. Len(Tail(todo)) : i + 1 \in 1 .. Len(todo) /\ i + 1 # 1
    BY <1>1
<1>3. \A i, j \in 1 .. Len(Tail(todo)) : Tail(todo)[i] = Tail(todo)[j] => i = j
    <2>1. SUFFICES ASSUME NEW i \in 1 .. Len(Tail(todo)), NEW j \in 1 .. Len(Tail(todo)),
                          Tail(todo)[i] = Tail(todo)[j]
                   PROVE  i = j
        OBVIOUS
    <2>2. i + 1 = j + 1
        BY <1>1, <1>2, <2>1 DEF TodoOK
    <2>3. QED BY <2>2
<1>4. \A i \in 1 .. Len(Tail(todo)) : Tail(todo)[i] # Head(todo)
    BY <1>1, <1>2 DEF TodoOK
<1>5. QED BY <1>1, <1>2, <1>3, <1>4 DEF TodoOK

\* The run goes on to the next security, with the windows it has and no answer, or ends.
LEMMA RunGoesOn ==
    ASSUME IngestInv, ingest # NoIngest,
           UNCHANGED <<day, yahoo, bars, lastSeen, lapsed, blanks>>,
           \/ ingest' = NoIngest
           \/ /\ DOMAIN ingest' = DOMAIN ingest
              /\ ingest'.starts = ingest.starts /\ ingest'.at = "fetch"
              /\ ingest'.endpoint = ingest.endpoint
              /\ ingest.todo # <<>> /\ ingest'.todo = Tail(ingest.todo)
    PROVE  IngestInv'
<1>1. StoreInv'
    BY StoreStays DEF IngestInv
<1>2. CASE ingest' = NoIngest
    BY <1>1, <1>2 DEF IngestInv, IngestRunInv
<1>3. CASE ingest' # NoIngest
    <2>1. TodoOK(ingest.todo) /\ StartsAreEarly /\ ingest.todo # <<>>
        BY <1>3 DEF IngestInv, IngestRunInv
    <2>2. TodoOK(ingest'.todo)
        BY <1>3, <2>1, TailIsOK
    <2>3. StartsAreEarly'
        <3>1. PICK rest : rest = ingest'.todo
            OBVIOUS
        <3>2. rest = Tail(ingest.todo)
            BY <1>3, <3>1
        <3>3. \A i \in 1 .. Len(rest) :
                  i + 1 \in 1 .. Len(ingest.todo) /\ rest[i] = ingest.todo[i + 1]
            BY <2>1, <3>2, TailIsOK
        <3>4. QED BY <1>3, <2>1, <3>1, <3>3 DEF StartsAreEarly
    <2>4. AnswerIsToday'
        BY <1>3 DEF AnswerIsToday
    <2>5. QED BY <1>1, <1>3, <2>2, <2>3, <2>4 DEF IngestInv, IngestRunInv, TodoOK
<1>4. QED BY <1>2, <1>3


\* A run opens over what is held.
LEMMA OpenRunKeeps ==
    ASSUME IngestInv, NEW endpoint \in Endpoints, OpenRun(endpoint)
    PROVE  IngestInv'
<1>1. StoreInv'
    BY StoreStays DEF IngestInv, OpenRun
<1>2. /\ DOMAIN ingest' = {"at", "endpoint", "todo", "ok", "failed", "payload", "path",
                           "isNew", "starts"}
      /\ ingest'.at = "fetch" /\ ingest'.todo = Securities /\ ingest'.endpoint = endpoint
      /\ ingest'.starts = [s \in Secs |-> WindowStart(s, day)]
      /\ UNCHANGED <<day, bars>>
    BY DEF OpenRun
<1>3. ASSUME NEW s \in Secs
      PROVE  /\ ingest'.starts[s] \in Int
             /\ ingest'.starts[s] <= 0 \/ ingest'.starts[s] <= day - SettlingDays
             /\ ingest'.starts[s] <= 0 \/ \E e \in DOMAIN bars[s] : ingest'.starts[s] <= e + 1
             /\ \A d \in DOMAIN bars[s] : ingest'.starts[s] <= d => day - SettlingDays <= d
    <2>1. ingest'.starts[s] = WindowStart(s, day)
        BY <1>2
    <2>2. Unbroken(bars[s], day, blanks[s]) /\ day \in Nat
        BY DEF IngestInv, StoreInv
    <2>3. CASE bars[s] = NoBars
        <3>1. DOMAIN bars[s] = {}
            BY <2>3 DEF NoBars
        <3>2. QED BY <2>1, <2>3, <3>1 DEF WindowStart, BackfillStart
    <2>4. CASE bars[s] # NoBars
        <3>1. DOMAIN bars[s] # {} /\ DOMAIN bars[s] \subseteq 0 .. day
            BY <2>2, <2>4 DEF Unbroken, NoBars
        <3>2. PICK n : n = Max(DOMAIN bars[s])
            OBVIOUS
        <3>3. n \in DOMAIN bars[s] /\ \A d \in DOMAIN bars[s] : d <= n
            BY <2>2, <3>1, <3>2, LastHeld
        <3>4. n \in Nat
            BY <2>2, <3>1, <3>3
        <3>5. PICK a \in Int : a = n + 1
            BY <3>4
        <3>6. PICK b \in Int : b = day - SettlingDays
            BY <2>2, IngestConstants
        <3>7. WindowStart(s, day) = Min({a, b})
            BY <2>4, <3>2, <3>5, <3>6 DEF WindowStart, Cutoff
        <3>8. Min({a, b}) = IF a <= b THEN a ELSE b
            BY MaxAndMinOfTwo
        <3>9. PICK start \in Int : start = ingest'.starts[s] /\ start = IF a <= b THEN a ELSE b
            BY <2>1, <3>7, <3>8
        <3>10. start <= b /\ start <= n + 1
            BY <3>4, <3>5, <3>9
        <3>11. ASSUME NEW d \in DOMAIN bars[s], start <= d PROVE b <= d
            <4>1. d \in Int /\ d <= n
                BY <2>2, <3>1, <3>3
            <4>2. QED BY <3>4, <3>5, <3>9, <3>11, <4>1
        <3>12. QED BY <3>3, <3>6, <3>9, <3>10, <3>11
    <2>5. QED BY <2>3, <2>4
<1>4. TodoOK(Securities)
    BY IngestConstants DEF TodoOK
<1>5. StartsAreEarly'
    <2>1. \A i \in 1 .. Len(Securities) : Securities[i] \in Secs
        BY IngestConstants
    <2>2. QED BY <1>2, <1>3, <2>1 DEF StartsAreEarly
<1>6. AnswerIsToday'
    BY <1>2 DEF AnswerIsToday
<1>7. QED BY <1>1, <1>2, <1>4, <1>5, <1>6 DEF IngestInv, IngestRunInv, TodoOK

\* An answer is of today, from the start that was asked for.
LEMMA AnswersKeeps ==
    ASSUME IngestInv, NEW malformed \in BOOLEAN, NEW blank, ingest # NoIngest,
           Answers(malformed, blank)
    PROVE  IngestInv'
<1>1. StoreInv'
    BY StoreStays DEF IngestInv, Answers
<1>2. /\ ingest.at = "fetch" /\ ingest.todo # <<>>
      /\ DOMAIN ingest = {"at", "endpoint", "todo", "ok", "failed", "payload", "path",
                          "isNew", "starts"}
      /\ TodoOK(ingest.todo) /\ StartsAreEarly
    BY DEF Answers, IngestInv, IngestRunInv
<1>3. PICK p : p = IF malformed THEN <<"malformed">>
                   ELSE Payload(ingest.endpoint, ingest.starts[Security], blank)
    OBVIOUS
<1>4. \E at \in {"put", "write"} : \E isNew, path :
         ingest' = [ingest EXCEPT !.at = at, !.payload = p, !.isNew = isNew, !.path = path]
    BY <1>3 DEF Answers
<1>5. /\ DOMAIN ingest' = DOMAIN ingest /\ ingest'.at \in {"put", "write"}
      /\ ingest'.payload = p
      /\ ingest'.todo = ingest.todo /\ ingest'.starts = ingest.starts
      /\ ingest'.endpoint = ingest.endpoint /\ ingest.endpoint \in Endpoints
      /\ UNCHANGED <<day, yahoo, bars>>
    BY <1>2, <1>4 DEF Answers, IngestInv, IngestRunInv
<1>6. StartsAreEarly'
    BY <1>2, <1>5 DEF StartsAreEarly
<1>7. PICK s \in Secs : s = Head(ingest.todo) /\ s = Security
    BY <1>2 DEF Security, TodoOK
<1>8. ASSUME p[1] = "bars"
      PROVE  /\ ingest.endpoint = "chart"
             /\ \E first \in 0 .. day : /\ first >= ingest.starts[s]
                                        /\ first = 0 \/ first = ingest.starts[s]
                                        /\ DOMAIN p[2] = first .. day
             /\ \A d \in DOMAIN p[2] :
                   \/ p[2][d] = Blank
                   \/ IsBar(p[2][d]) /\ p[2][d][1] = yahoo.bar[d]
    <2>1. ~malformed /\ ingest.endpoint = "chart"
        BY <1>3, <1>5, <1>8 DEF Payload, Endpoints
    <2>2. PICK a \in Int : a = ingest.starts[s]
        BY <1>2, <1>7 DEF StartsAreEarly
    <2>3. Max({a, 0}) = IF a >= 0 THEN a ELSE 0
        BY MaxAndMinOfTwo
    <2>4. PICK f \in Int : f = Max({a, 0})
        BY <2>3
    <2>5. f \in 0 .. day /\ f >= a /\ (f = 0 \/ f = a)
        <3>1. a <= 0 \/ a <= day - SettlingDays
            BY <1>2, <1>7, <2>2 DEF StartsAreEarly
        <3>2. day \in Nat
            BY DEF IngestInv, StoreInv
        <3>3. QED BY <2>3, <2>4, <3>1, <3>2, IngestConstants
    <2>6. p = <<"bars", [d \in f .. day |-> IF d \in blank THEN Blank ELSE Said(d)]>>
        BY <1>3, <1>7, <2>1, <2>2, <2>4 DEF Payload
    <2>7. /\ DOMAIN p[2] = f .. day
          /\ \A d \in f .. day : p[2][d] = Blank \/ p[2][d] = Said(d)
        BY <2>6
    <2>8. ASSUME NEW d \in f .. day
          PROVE  IsBar(Said(d)) /\ Said(d)[1] = yahoo.bar[d]
        <3>1. yahoo.bar[d] \in Nat /\ yahoo.splits \in Nat
            BY <2>5, IngestConstants DEF IngestInv, StoreInv, YahooOK
        <3>2. QED BY <3>1 DEF IsBar, Said
    <2>9. \A d \in f .. day :
              p[2][d] = Blank \/ (IsBar(p[2][d]) /\ p[2][d][1] = yahoo.bar[d])
        BY <2>7, <2>8
    <2>10. QED BY <2>1, <2>2, <2>5, <2>7, <2>9
<1>9. AnswerIsToday'
    BY <1>5, <1>7, <1>8 DEF AnswerIsToday, IsBar
<1>10. QED BY <1>1, <1>2, <1>5, <1>6, <1>9 DEF IngestInv, IngestRunInv, TodoOK

\* A payload is filed.
LEMMA PutBlobKeeps ==
    ASSUME IngestInv, ingest # NoIngest, PutBlob
    PROVE  IngestInv'
<1>1. StoreInv'
    BY StoreStays DEF IngestInv, PutBlob
<1>2. /\ DOMAIN ingest = {"at", "endpoint", "todo", "ok", "failed", "payload", "path",
                          "isNew", "starts"}
      /\ TodoOK(ingest.todo) /\ StartsAreEarly /\ AnswerIsToday
      /\ ingest.at = "put" /\ ingest.todo # <<>>
    BY DEF PutBlob, IngestInv, IngestRunInv
<1>3. /\ DOMAIN ingest' = DOMAIN ingest /\ ingest'.at = "write"
      /\ ingest'.payload = ingest.payload /\ ingest'.todo = ingest.todo
      /\ ingest'.starts = ingest.starts /\ ingest'.endpoint = ingest.endpoint
      /\ UNCHANGED <<day, yahoo, bars>>
    BY <1>2 DEF PutBlob
<1>4. StartsAreEarly' /\ AnswerIsToday'
    BY <1>2, <1>3 DEF StartsAreEarly, AnswerIsToday, IsBar
<1>5. QED BY <1>1, <1>2, <1>3, <1>4 DEF IngestInv, IngestRunInv, TodoOK

\* Nothing upserted over bars held.
LEMMA NothingUpserted ==
    ASSUME NEW held, held = [d \in DOMAIN held |-> held[d]], NEW cutoff
    PROVE  WithBars(held, NoBars, cutoff) = held
<1>1. DOMAIN NoBars = {}
    BY DEF NoBars
<1>2. WithBars(held, NoBars, cutoff) = [d \in DOMAIN held |-> held[d]]
    BY <1>1 DEF WithBars
<1>3. QED BY <1>2

\* What is asked of bars held: from a day that leaves no hole, and no settled day of them.
AsksOn(held, asked, unsaid, upTo, cutoff, first) ==
    /\ upTo \in Nat /\ cutoff \in Int /\ first \in 0 .. upTo
    /\ Unbroken(held, upTo, unsaid)
    /\ DOMAIN asked = first .. upTo
    /\ first = 0 \/ (first <= cutoff /\ \E e \in DOMAIN held : first <= e + 1)
    /\ \A d \in DOMAIN held : first <= d => cutoff <= d

NotBlank(asked) == Restrict(asked, {d \in DOMAIN asked : asked[d] # Blank})
Left(asked, unsaid) == (unsaid \ DOMAIN asked) \cup {d \in DOMAIN asked : asked[d] = Blank}

\* What is held afterwards: what was, unless it was asked for, and what was answered.
Upserts(held, asked, unsaid, upTo, cutoff, first, now) ==
    /\ Unbroken(now, upTo, Left(asked, unsaid))
    /\ DOMAIN held \subseteq DOMAIN now
    /\ \A d \in DOMAIN now :
          \/ d \in DOMAIN held /\ now[d] = held[d]
                /\ (d \in Left(asked, unsaid) \/ (d < cutoff /\ d \notin unsaid))
          \/ d \in DOMAIN asked /\ now[d] = asked[d] /\ asked[d] # Blank
    /\ \A d \in DOMAIN now \ DOMAIN held : first <= d

\* Bars upserted over bars held: no hole but the blank days, and nothing settled is touched.
LEMMA UpsertedBars ==
    ASSUME NEW held, NEW asked, NEW unsaid, NEW upTo, NEW cutoff, NEW first,
           AsksOn(held, asked, unsaid, upTo, cutoff, first)
    PROVE  Upserts(held, asked, unsaid, upTo, cutoff, first,
                   WithBars(held, NotBlank(asked), cutoff))
<1> USE DEF AsksOn
<1> PICK new : new = NotBlank(asked)
    OBVIOUS
<1> PICK now : now = WithBars(held, new, cutoff)
    OBVIOUS
<1> PICK left : left = Left(asked, unsaid)
    OBVIOUS
<1>1. /\ DOMAIN new = {d \in first .. upTo : asked[d] # Blank}
      /\ \A d \in DOMAIN new : new[d] = asked[d]
    BY DEF Restrict, NotBlank
<1>2. now = [d \in DOMAIN held \cup DOMAIN new |->
                IF d \in DOMAIN held /\ (d < cutoff \/ d \notin DOMAIN new) THEN held[d]
                ELSE new[d]]
    BY DEF WithBars
<1>3. DOMAIN now = DOMAIN held \cup DOMAIN new /\ now = [d \in DOMAIN now |-> now[d]]
    BY <1>2
<1>4. \A d \in DOMAIN now :
          now[d] = IF d \in DOMAIN held /\ (d < cutoff \/ d \notin DOMAIN new) THEN held[d]
                   ELSE new[d]
    BY <1>2
<1>0. \A d \in DOMAIN new : d \in 0 .. upTo /\ first <= d
    BY <1>1
<1>5. DOMAIN held \subseteq 0 .. upTo /\ DOMAIN now \subseteq 0 .. upTo
    BY <1>0, <1>3 DEF Unbroken
<1>6. \A d \in first .. upTo : d \in DOMAIN now \/ d \in left
    BY <1>1, <1>3 DEF Left
<1>7. ASSUME NEW e \in DOMAIN now, NEW d \in 0 .. e
      PROVE  d \in DOMAIN now \/ d \in left
    <2>1. e \in 0 .. upTo /\ d \in 0 .. upTo
        BY <1>5
    <2>2. CASE first <= d
        BY <1>6, <2>1, <2>2
    <2>3. CASE d < first
        <3>1. PICK f \in DOMAIN held : first <= f + 1
            BY <2>1, <2>3
        <3>2. f \in 0 .. upTo /\ d \in 0 .. f
            BY <1>5, <2>1, <2>3, <3>1
        <3>3. d \in DOMAIN held \/ d \in unsaid
            BY <3>1, <3>2 DEF Unbroken
        <3>4. d \notin DOMAIN asked
            BY <2>1, <2>3
        <3>5. QED BY <1>3, <3>3, <3>4 DEF Left
    <2>4. QED BY <2>1, <2>2, <2>3
<1>8. Unbroken(now, upTo, left)
    BY <1>3, <1>5, <1>7 DEF Unbroken
<1>9. ASSUME NEW d \in DOMAIN now
      PROVE  \/ d \in DOMAIN held /\ now[d] = held[d]
                   /\ (d \in left \/ (d < cutoff /\ d \notin unsaid))
             \/ d \in DOMAIN asked /\ now[d] = asked[d] /\ asked[d] # Blank
    <2>1. d \in 0 .. upTo
        BY <1>5
    <2>2. CASE d \notin DOMAIN held
        BY <1>1, <1>3, <1>4, <2>2
    <2>3. CASE d \in DOMAIN held /\ d \in DOMAIN new
        <3>1. first <= d /\ cutoff <= d
            BY <1>1, <2>1, <2>3
        <3>2. now[d] = new[d]
            BY <1>4, <2>1, <2>3, <3>1
        <3>3. QED BY <1>1, <2>3, <3>2
    <2>4. CASE d \in DOMAIN held /\ d \notin DOMAIN new
        <3>1. now[d] = held[d]
            BY <1>4, <2>4
        <3>2. CASE first <= d
            BY <1>1, <2>1, <2>4, <3>1, <3>2 DEF Left
        <3>3. CASE d < first
            <4>1. d \notin DOMAIN asked /\ first <= cutoff
                BY <2>1, <3>3
            <4>2. d < cutoff
                BY <2>1, <3>3, <4>1
            <4>3. QED BY <2>4, <3>1, <4>1, <4>2 DEF Left
        <3>4. QED BY <2>1, <3>2, <3>3
    <2>5. QED BY <2>2, <2>3, <2>4
<1>10. \A d \in DOMAIN now \ DOMAIN held : first <= d
    BY <1>0, <1>3
<1>11. QED BY <1>3, <1>8, <1>9, <1>10 DEF Upserts


\* What is written meets what is held.
LEMMA WriteSecurityKeeps ==
    ASSUME IngestInv, ingest # NoIngest, WriteSecurity
    PROVE  IngestInv'
<1>1. /\ DOMAIN ingest = {"at", "endpoint", "todo", "ok", "failed", "payload", "path",
                          "isNew", "starts"}
      /\ TodoOK(ingest.todo) /\ ingest.todo # <<>>
      /\ StartsAreEarly /\ AnswerIsToday /\ ingest.at = "write"
    BY DEF WriteSecurity, IngestInv, IngestRunInv
<1>2. PICK s \in Secs : s = Head(ingest.todo) /\ s = Security
    BY <1>1 DEF TodoOK, Security
<1>3. PICK asked : asked = ingest.payload[2]
    OBVIOUS
<1>4. PICK chart \in BOOLEAN :
          chart = (ingest.endpoint = "chart" /\ ingest.payload[1] = "bars")
    BY Zenon
<1>5. /\ DOMAIN bars = Secs /\ DOMAIN blanks = Secs /\ lastSeen \in [Secs -> 0 .. day]
      /\ day \in 0 .. LastDay /\ day \in Nat /\ YahooOK
      /\ \A t \in Secs : Unbroken(bars[t], day, blanks[t])
      /\ \A t \in Secs : TrueUpTo(bars[t], LastTrue(t), blanks[t])
    BY IngestConstants DEF IngestInv, StoreInv
<1>6. PICK now : now = WithBars(bars[s], ParsedBars(ingest.payload), day - SettlingDays)
    OBVIOUS
<1>7. PICK left : left = IF chart THEN Unsaid(blanks[s], ingest.payload) ELSE blanks[s]
    OBVIOUS
<1>8. /\ bars' = [bars EXCEPT ![s] = now]
      /\ lastSeen' = IF chart THEN [lastSeen EXCEPT ![s] = day] ELSE lastSeen
      /\ lapsed' = IF /\ chart /\ bars[s] # NoBars
                      /\ day - lastSeen[s] > SettlingDays - RevisedFor
                   THEN lapsed \cup {s} ELSE lapsed
      /\ blanks' = IF chart THEN [blanks EXCEPT ![s] = Unsaid(blanks[s], ingest.payload)]
                   ELSE blanks
      /\ ingest' = [ingest EXCEPT !.at = "fetch", !.todo = Tail(ingest.todo),
                                  !.ok = ingest.ok + 1]
      /\ UNCHANGED <<day, yahoo>>
    BY <1>2, <1>4, <1>6 DEF WriteSecurity, Cutoff
<1>9. /\ bars'[s] = now /\ blanks'[s] = left /\ DOMAIN bars' = Secs /\ DOMAIN blanks' = Secs
      /\ \A t \in Secs \ {s} : bars'[t] = bars[t] /\ blanks'[t] = blanks[t]
    BY <1>5, <1>7, <1>8
<1>10. lastSeen' \in [Secs -> 0 .. day'] /\ \A t \in Secs \ {s} : lastSeen'[t] = lastSeen[t]
    BY <1>5, <1>8
\* What is there now, and since when it is true.
<1>11. /\ Unbroken(now, day, left) /\ DOMAIN bars[s] \subseteq DOMAIN now
       /\ \A d \in DOMAIN now \ DOMAIN bars[s] : ingest.starts[s] <= d
       /\ TrueUpTo(now, LastTrue(s)', left)
    <2>1. CASE ~chart
        <3>1. ingest.payload[1] # "bars"
            BY <1>1, <1>4, <2>1 DEF AnswerIsToday
        <3>2. ParsedBars(ingest.payload) = NoBars
            BY <3>1 DEF ParsedBars
        <3>3. bars[s] = [d \in DOMAIN bars[s] |-> bars[s][d]]
            BY <1>5 DEF Unbroken
        <3>4. now = bars[s]
            BY <1>6, <3>2, <3>3, NothingUpserted
        <3>5. left = blanks[s] /\ LastTrue(s)' = LastTrue(s)
            BY <1>7, <1>8, <2>1 DEF LastTrue
        <3>6. QED BY <1>5, <3>4, <3>5
    <2>2. CASE chart
        <3>1. PICK first \in 0 .. day :
                  /\ first >= ingest.starts[s]
                  /\ first = 0 \/ first = ingest.starts[s]
                  /\ DOMAIN asked = first .. day
            BY <1>1, <1>2, <1>3, <1>4, <2>2 DEF AnswerIsToday
        <3>2. \A d \in DOMAIN asked :
                 \/ asked[d] = Blank
                 \/ /\ IsBar(asked[d])
                    /\ d <= day - RevisedFor => asked[d][1] = yahoo.bar[d]
            BY <1>1, <1>3, <1>4, <2>2 DEF AnswerIsToday
        <3>3. PICK start \in Int : start = ingest.starts[s]
            BY <1>1 DEF StartsAreEarly
        <3>4. PICK cutoff \in Int : cutoff = day - SettlingDays
            BY <1>5, IngestConstants
        <3>5. /\ start <= 0 \/ (start <= cutoff /\ \E e \in DOMAIN bars[s] : start <= e + 1)
              /\ \A d \in DOMAIN bars[s] : start <= d => cutoff <= d
            <4>1. Len(ingest.todo) \in Nat /\ Len(ingest.todo) >= 1 /\ ingest.todo[1] = s
                BY <1>1, <1>2, TailIsOK DEF TodoOK
            <4>2. 1 \in 1 .. Len(ingest.todo)
                BY <4>1
            <4>3. QED BY <1>1, <3>3, <3>4, <4>1, <4>2 DEF StartsAreEarly
        <3>6. first = 0 \/ (first <= cutoff /\ \E e \in DOMAIN bars[s] : first <= e + 1)
            BY <3>1, <3>3, <3>5
        <3>7. \A d \in DOMAIN bars[s] : first <= d => cutoff <= d
            <4>1. \A d \in DOMAIN bars[s] : d \in Int
                BY <1>5 DEF Unbroken
            <4>2. QED BY <3>1, <3>3, <3>5, <4>1
        <3>8. AsksOn(bars[s], asked, blanks[s], day, cutoff, first)
            BY <1>5, <3>1, <3>4, <3>6, <3>7 DEF AsksOn
        <3>9. ParsedBars(ingest.payload) = NotBlank(asked)
            BY <1>3, <1>4, <2>2 DEF ParsedBars, NotBlank
        <3>10. now = WithBars(bars[s], NotBlank(asked), cutoff)
            BY <1>6, <3>4, <3>9
        <3>11. left = Left(asked, blanks[s])
            BY <1>3, <1>7, <2>2 DEF Unsaid, Left
        <3>12. Upserts(bars[s], asked, blanks[s], day, cutoff, first, now)
            BY <3>8, <3>10, UpsertedBars
        <3>13. /\ Unbroken(now, day, left)
               /\ DOMAIN bars[s] \subseteq DOMAIN now
               /\ \A d \in DOMAIN now :
                     \/ d \in DOMAIN bars[s] /\ now[d] = bars[s][d]
                           /\ (d \in left \/ (d < cutoff /\ d \notin blanks[s]))
                     \/ d \in DOMAIN asked /\ now[d] = asked[d] /\ asked[d] # Blank
               /\ \A d \in DOMAIN now \ DOMAIN bars[s] : first <= d
            BY <3>11, <3>12 DEF Upserts
        <3>14. \A d \in DOMAIN now \ DOMAIN bars[s] : start <= d
            <4>1. \A d \in DOMAIN now : d \in Int
                BY <3>13 DEF Unbroken
            <4>2. QED BY <3>1, <3>3, <3>13, <4>1
        <3>15. ASSUME NEW d \in DOMAIN now
               PROVE  /\ IsBar(now[d])
                      /\ d <= LastTrue(s)' /\ d \notin left => now[d][1] = yahoo.bar[d]
            <4>1. CASE d \in DOMAIN asked /\ now[d] = asked[d] /\ asked[d] # Blank
                <5>1. IsBar(now[d]) /\ (d <= day - RevisedFor => now[d][1] = yahoo.bar[d])
                    BY <3>2, <4>1
                <5>2. d \in 0 .. day
                    BY <3>13 DEF Unbroken
                <5>3. LastTrue(s)' = -1 \/ LastTrue(s)' = day - RevisedFor
                    BY <1>5, <1>8, <2>2 DEF LastTrue
                <5>4. d <= LastTrue(s)' => d <= day - RevisedFor
                    BY <5>2, <5>3
                <5>5. QED BY <5>1, <5>4
            <4>2. CASE /\ d \in DOMAIN bars[s] /\ now[d] = bars[s][d]
                       /\ (d \in left \/ (d < cutoff /\ d \notin blanks[s]))
                <5>1. IsBar(now[d])
                    BY <1>5, <4>2 DEF TrueUpTo
                <5>2. ASSUME d <= LastTrue(s)', d \notin left
                      PROVE  now[d][1] = yahoo.bar[d]
                    <6>1. d \in 0 .. day /\ d < cutoff /\ d \notin blanks[s]
                        BY <3>13, <4>2, <5>2 DEF Unbroken
                    <6>2. LastTrue(s)' = IF s \in lapsed' THEN -1 ELSE day - RevisedFor
                        BY <1>5, <1>8, <2>2 DEF LastTrue
                    <6>3. s \notin lapsed'
                        BY <5>2, <6>1, <6>2
                    <6>4. bars[s] # NoBars
                        BY <4>2 DEF NoBars
                    <6>5. s \notin lapsed /\ ~(day - lastSeen[s] > SettlingDays - RevisedFor)
                        BY <1>8, <2>2, <6>3, <6>4
                    <6>6. lastSeen[s] \in Nat
                        BY <1>5
                    <6>7. d <= lastSeen[s] - RevisedFor
                        BY <1>5, <3>4, <6>1, <6>5, <6>6, IngestConstants
                    <6>8. LastTrue(s) = lastSeen[s] - RevisedFor
                        BY <6>5 DEF LastTrue
                    <6>9. bars[s][d][1] = yahoo.bar[d]
                        BY <1>5, <4>2, <6>1, <6>7, <6>8 DEF TrueUpTo
                    <6>10. QED BY <4>2, <6>9
                <5>3. QED BY <5>1, <5>2
            <4>3. QED BY <3>13, <4>1, <4>2
        <3>16. TrueUpTo(now, LastTrue(s)', left)
            BY <3>15 DEF TrueUpTo
        <3>17. QED BY <3>3, <3>13, <3>14, <3>16
    <2>3. QED BY <1>4, <2>1, <2>2
<1>12. StoreInv'
    <2>1. \A t \in Secs : Unbroken(bars[t], day, blanks[t])'
        <3>1. TAKE t \in Secs
        <3>2. CASE t = s
            <4>1. bars'[t] = now /\ blanks'[t] = left /\ day' = day
                BY <1>8, <1>9, <3>2
            <4>2. QED BY <1>11, <4>1 DEF Unbroken
        <3>3. CASE t # s
            <4>1. bars'[t] = bars[t] /\ blanks'[t] = blanks[t] /\ day' = day
                BY <1>8, <1>9, <3>3
            <4>2. Unbroken(bars[t], day, blanks[t])
                BY <1>5
            <4>3. QED BY <4>1, <4>2 DEF Unbroken
        <3>4. QED BY <3>2, <3>3
    <2>2. \A t \in Secs : TrueUpTo(bars[t], LastTrue(t), blanks[t])'
        <3>1. TAKE t \in Secs
        <3>2. CASE t = s
            <4>1. bars'[t] = now /\ blanks'[t] = left /\ yahoo' = yahoo
                BY <1>8, <1>9, <3>2
            <4>2. QED BY <1>11, <3>2, <4>1 DEF TrueUpTo, IsBar
        <3>3. CASE t # s
            <4>1. bars'[t] = bars[t] /\ blanks'[t] = blanks[t] /\ yahoo' = yahoo
                BY <1>8, <1>9, <3>3
            <4>2. LastTrue(t)' = LastTrue(t)
                BY <1>8, <1>10, <3>3 DEF LastTrue
            <4>3. TrueUpTo(bars[t], LastTrue(t), blanks[t])
                BY <1>5
            <4>4. QED BY <4>1, <4>2, <4>3 DEF TrueUpTo, IsBar
        <3>4. QED BY <3>2, <3>3
    <2>3. day' \in 0 .. LastDay /\ YahooOK'
        BY <1>5, <1>8 DEF YahooOK
    <2>4. QED BY <1>9, <1>10, <2>1, <2>2, <2>3 DEF StoreInv
<1>13. IngestRunInv'
    <2>1. /\ DOMAIN ingest' = DOMAIN ingest /\ ingest'.at = "fetch"
          /\ ingest'.todo = Tail(ingest.todo) /\ ingest'.starts = ingest.starts
          /\ ingest'.endpoint = ingest.endpoint
        BY <1>1, <1>8
    <2>2. PICK rest : rest = Tail(ingest.todo)
        OBVIOUS
    <2>3. /\ TodoOK(rest)
          /\ \A i \in 1 .. Len(rest) : /\ i + 1 \in 1 .. Len(ingest.todo)
                                       /\ rest[i] = ingest.todo[i + 1] /\ rest[i] # s
        BY <1>1, <1>2, <2>2, TailIsOK
    <2>4. ASSUME NEW t \in Secs
          PROVE  /\ ingest.starts[t] \in Int
                 /\ ingest.starts[t] <= 0 \/ ingest.starts[t] <= day - SettlingDays
                 /\ ingest.starts[t] <= 0 \/ \E e \in DOMAIN bars'[t] : ingest.starts[t] <= e + 1
        <3>1. DOMAIN bars[t] \subseteq DOMAIN bars'[t]
            BY <1>9, <1>11
        <3>2. QED BY <1>1, <3>1 DEF StartsAreEarly
    <2>5. ASSUME NEW i \in 1 .. Len(rest), NEW d \in DOMAIN bars'[rest[i]],
                 ingest.starts[rest[i]] <= d
          PROVE  day - SettlingDays <= d
        <3>1. rest[i] \in Secs
            BY <2>3 DEF TodoOK
        <3>2. bars'[rest[i]] = bars[rest[i]]
            BY <1>9, <2>3, <3>1
        <3>3. QED BY <1>1, <2>3, <2>5, <3>2 DEF StartsAreEarly
    <2>6. StartsAreEarly'
        BY <1>8, <2>1, <2>2, <2>4, <2>5 DEF StartsAreEarly
    <2>7. AnswerIsToday'
        BY <2>1 DEF AnswerIsToday
    <2>8. TodoOK(ingest.todo)'
        BY <2>1, <2>2, <2>3 DEF TodoOK
    <2>9. ingest'.endpoint \in Endpoints
        BY <2>1 DEF IngestInv, IngestRunInv
    <2>10. QED BY <1>1, <2>1, <2>6, <2>7, <2>8, <2>9 DEF IngestRunInv
<1>14. QED BY <1>12, <1>13 DEF IngestInv

\* What the provider revises is later than what is revised no more, and its scale grows.
LEMMA YahooRevises ==
    ASSUME IngestInv, Revises
    PROVE  /\ YahooOK' /\ yahoo.splits <= yahoo'.splits
           /\ \A d \in 0 .. LastDay : d <= day - RevisedFor => yahoo'.bar[d] = yahoo.bar[d]
<1>1. /\ YahooOK /\ day \in 0 .. LastDay /\ day \in Nat
    BY IngestConstants DEF IngestInv, StoreInv
<1>2. CASE \E d \in 0 .. day :
              /\ day - d < RevisedFor
              /\ yahoo' = [yahoo EXCEPT !.bar[d] = @ + 1, !.revisions = @ + 1]
    <2>1. PICK d \in 0 .. day :
              /\ day - d < RevisedFor
              /\ yahoo' = [yahoo EXCEPT !.bar[d] = @ + 1, !.revisions = @ + 1]
        BY <1>2
    <2>2. /\ yahoo'.bar = [yahoo.bar EXCEPT ![d] = @ + 1] /\ DOMAIN yahoo' = DOMAIN yahoo
          /\ yahoo'.splits = yahoo.splits
        BY <1>1, <2>1 DEF YahooOK
    <2>3. yahoo'.bar \in [0 .. LastDay -> Nat]
        BY <1>1, <2>2, IngestConstants DEF YahooOK
    <2>4. \A e \in 0 .. LastDay : e <= day - RevisedFor => e # d
        BY <1>1, <2>1, IngestConstants
    <2>5. QED BY <1>1, <2>2, <2>3, <2>4 DEF YahooOK
<1>3. CASE yahoo' = [yahoo EXCEPT !.splits = @ + 1, !.revisions = @ + 1]
    BY <1>1, <1>3 DEF YahooOK
<1>4. CASE yahoo' = [yahoo EXCEPT !.fact = @ + 1, !.revisions = @ + 1]
    BY <1>1, <1>4 DEF YahooOK
<1>5. QED BY <1>2, <1>3, <1>4 DEF Revises

\* A session that is revised no more is not revised.
LEMMA RevisesKeeps ==
    ASSUME IngestInv, Revises
    PROVE  IngestInv'
<1>1. /\ YahooOK /\ YahooOK' /\ yahoo.splits <= yahoo'.splits
      /\ \A d \in 0 .. LastDay : d <= day - RevisedFor => yahoo'.bar[d] = yahoo.bar[d]
      /\ day \in 0 .. LastDay /\ day \in Nat /\ lastSeen \in [Secs -> 0 .. day]
      /\ UNCHANGED <<day, bars, ingest, lastSeen, lapsed, blanks>>
    <2>1. UNCHANGED <<day, bars, ingest, lastSeen, lapsed, blanks>>
        BY DEF Revises
    <2>2. QED BY <2>1, YahooRevises, IngestConstants DEF IngestInv, StoreInv
<1>2. \A b : IsBar(b) => IsBar(b)'
    BY <1>1 DEF IsBar, YahooOK
<1>3. \A s \in Secs : TrueUpTo(bars[s], LastTrue(s), blanks[s])'
    <2>1. SUFFICES ASSUME NEW s \in Secs, NEW d \in DOMAIN bars[s]
                   PROVE  /\ IsBar(bars[s][d])'
                          /\ d <= LastTrue(s) /\ d \notin blanks[s]
                                => bars[s][d][1] = yahoo'.bar[d]
        BY <1>1 DEF TrueUpTo, LastTrue
    <2>2. TrueUpTo(bars[s], LastTrue(s), blanks[s]) /\ d \in 0 .. day
        BY DEF IngestInv, StoreInv, Unbroken
    <2>3. IsBar(bars[s][d])'
        <3>1. PICK b : b = bars[s][d]
            OBVIOUS
        <3>2. IsBar(b)
            BY <2>2, <3>1 DEF TrueUpTo
        <3>3. IsBar(b)'
            BY <1>2, <3>2
        <3>4. QED BY <1>1, <3>1, <3>3
    <2>4. ASSUME d <= LastTrue(s), d \notin blanks[s]
          PROVE  bars[s][d][1] = yahoo'.bar[d]
        <3>1. bars[s][d][1] = yahoo.bar[d]
            BY <2>2, <2>4 DEF TrueUpTo
        <3>2. lastSeen[s] \in 0 .. day
            BY <1>1
        <3>3. LastTrue(s) = -1 \/ LastTrue(s) = lastSeen[s] - RevisedFor
            BY DEF LastTrue
        <3>4. d \in 0 .. LastDay /\ d <= day - RevisedFor
            BY <1>1, <2>2, <2>4, <3>2, <3>3, IngestConstants
        <3>5. QED BY <1>1, <3>1, <3>4
    <2>5. QED BY <2>3, <2>4
<1>4. StoreInv'
    BY <1>1, <1>3 DEF IngestInv, StoreInv, Unbroken
<1>5. IngestRunInv'
    <2>1. SUFFICES ASSUME ingest # NoIngest PROVE IngestRunInv'
        BY <1>1 DEF IngestRunInv
    <2>2. StartsAreEarly'
        BY <1>1, <2>1 DEF IngestInv, IngestRunInv, StartsAreEarly
    <2>3. AnswerIsToday'
        <3>1. SUFFICES ASSUME ingest.at \in {"put", "write"}, ingest.payload[1] = "bars"
                       PROVE  AnswerIsToday'
            BY <1>1 DEF AnswerIsToday
        <3>2. PICK asked : asked = ingest.payload[2]
            OBVIOUS
        <3>3. AnswerIsToday
            BY <2>1 DEF IngestInv, IngestRunInv
        <3>4. ASSUME NEW d \in DOMAIN asked
              PROVE  \/ asked[d] = Blank
                     \/ /\ IsBar(asked[d])'
                        /\ d <= day - RevisedFor => asked[d][1] = yahoo'.bar[d]
            <4>1. CASE asked[d] = Blank
                BY <4>1
            <4>2. CASE IsBar(asked[d]) /\ (d <= day - RevisedFor => asked[d][1] = yahoo.bar[d])
                <5>1. PICK b : b = asked[d]
                    OBVIOUS
                <5>2. IsBar(b)'
                    BY <1>2, <4>2, <5>1
                <5>3. d \in 0 .. LastDay
                    <6>1. PICK first \in 0 .. day : DOMAIN asked = first .. day
                        BY <3>1, <3>2, <3>3 DEF AnswerIsToday
                    <6>2. QED BY <1>1, <6>1, IngestConstants
                <5>4. d <= day - RevisedFor => asked[d][1] = yahoo'.bar[d]
                    BY <1>1, <4>2, <5>3
                <5>5. IsBar(asked[d])'
                    BY <1>1, <3>2, <5>1, <5>2 DEF IsBar
                <5>6. QED BY <5>4, <5>5
            <4>3. QED BY <3>1, <3>2, <3>3, <4>1, <4>2 DEF AnswerIsToday
        <3>5. QED BY <1>1, <3>1, <3>2, <3>3, <3>4 DEF AnswerIsToday, IsBar
    <2>4. QED BY <1>1, <2>1, <2>2, <2>3 DEF IngestInv, IngestRunInv, TodoOK
<1>6. QED BY <1>4, <1>5 DEF IngestInv

\* A day more: the oldest that was revised is revised no more.
LEMMA NextDayKeeps ==
    ASSUME IngestInv, NextDay
    PROVE  IngestInv'
<1>1. /\ day \in 0 .. LastDay /\ day \in Nat /\ day' = day + 1 /\ day < LastDay
      /\ ingest' = NoIngest /\ UNCHANGED <<yahoo, bars, lastSeen, lapsed, blanks>>
    BY IngestConstants DEF IngestInv, StoreInv, NextDay
<1>2. day' \in 0 .. LastDay /\ 0 .. day \subseteq 0 .. day'
    BY <1>1, IngestConstants
<1>3. lastSeen' \in [Secs -> 0 .. day']
    BY <1>1, <1>2 DEF IngestInv, StoreInv
<1>4. \A s \in Secs : Unbroken(bars[s], day, blanks[s])'
    BY <1>1, <1>2 DEF IngestInv, StoreInv, Unbroken
<1>5. \A s \in Secs : TrueUpTo(bars[s], LastTrue(s), blanks[s])'
    BY <1>1 DEF IngestInv, StoreInv, TrueUpTo, LastTrue, IsBar
<1>6. YahooOK' /\ DOMAIN bars' = Secs /\ DOMAIN blanks' = Secs
    BY <1>1 DEF IngestInv, StoreInv, YahooOK
<1>7. QED BY <1>1, <1>2, <1>3, <1>4, <1>5, <1>6 DEF IngestInv, StoreInv, IngestRunInv

\* The invariant is kept by every step.
LEMMA IngestStep == IngestInv /\ [IngestNext]_ingestVars => IngestInv'
<1> SUFFICES ASSUME IngestInv, [IngestNext]_ingestVars PROVE IngestInv'
    OBVIOUS
<1>1. CASE NextDay
    BY <1>1, NextDayKeeps
<1>2. CASE Revises
    BY <1>2, RevisesKeeps
<1>3. ASSUME NEW endpoint \in Endpoints, OpenRun(endpoint) PROVE IngestInv'
    BY <1>3, OpenRunKeeps
<1>4. ASSUME NEW malformed \in BOOLEAN, NEW blank, Answers(malformed, blank) PROVE IngestInv'
    <2>1. ingest # NoIngest
        BY <1>4 DEF Answers, NoIngest
    <2>2. QED BY <1>4, <2>1, AnswersKeeps
<1>5. CASE PutBlob
    <2>1. ingest # NoIngest
        BY <1>5 DEF PutBlob, NoIngest
    <2>2. QED BY <1>5, <2>1, PutBlobKeeps
<1>6. CASE WriteSecurity
    <2>1. ingest # NoIngest
        BY <1>6 DEF WriteSecurity, NoIngest
    <2>2. QED BY <1>6, <2>1, WriteSecurityKeeps
<1>7. CASE Fails
    <2>1. ingest # NoIngest
        BY <1>7 DEF Fails, NoIngest
    <2>2. /\ DOMAIN ingest = {"at", "endpoint", "todo", "ok", "failed", "payload", "path",
                              "isNew", "starts"}
          /\ ingest.todo # <<>>
        BY <1>7, <2>1 DEF Fails, IngestInv, IngestRunInv
    <2>3. /\ DOMAIN ingest' = DOMAIN ingest /\ ingest'.starts = ingest.starts
          /\ ingest'.at = "fetch" /\ ingest'.endpoint = ingest.endpoint
          /\ ingest'.todo = Tail(ingest.todo)
          /\ UNCHANGED <<day, yahoo, bars, lastSeen, lapsed, blanks>>
        BY <1>7, <2>2 DEF Fails
    <2>4. QED BY <2>1, <2>2, <2>3, RunGoesOn
<1>8. CASE CloseRun
    <2>1. /\ ingest # NoIngest /\ ingest' = NoIngest
          /\ UNCHANGED <<day, yahoo, bars, lastSeen, lapsed, blanks>>
        BY <1>8 DEF CloseRun, NoIngest
    <2>2. QED BY <2>1, RunGoesOn
<1>9. CASE RunEnds
    <2>1. /\ ingest # NoIngest /\ ingest' = NoIngest
          /\ UNCHANGED <<day, yahoo, bars, lastSeen, lapsed, blanks>>
        BY <1>9 DEF RunEnds
    <2>2. QED BY <2>1, RunGoesOn
<1>10. CASE UNCHANGED ingestVars
    <2>1. StoreInv'
        BY <1>10, StoreStays DEF ingestVars, IngestInv
    <2>2. IngestRunInv'
        BY <1>10 DEF ingestVars, IngestInv, IngestRunInv, StartsAreEarly, AnswerIsToday,
                     TodoOK, IsBar
    <2>3. QED BY <2>1, <2>2 DEF IngestInv
<1>11. CASE Answers(TRUE, {}) \/ Answers(FALSE, {}) \/ \E d \in 0 .. day : Answers(FALSE, {d})
    BY <1>4, <1>11
<1>12. QED BY <1>1, <1>2, <1>3, <1>5, <1>6, <1>7, <1>8, <1>9, <1>10, <1>11 DEF IngestNext

\* For any securities, days, window and blank values: what is held has no hole but at days
\* that were blank when last they were asked for, what is settled is what the provider
\* ended with, and a sweep that follows finds the bars fetched before a split and no
\* others, whatever runs died and whatever was revised. (windows, run_prices,
\* insert_settled_bars, parse, run_sweep)
THEOREM PricesAreTrue == IngestSpec => []BarsAreTrue
<1>1. IngestInit => IngestInv
    BY IngestStarts
<1>2. IngestInv /\ [IngestNext]_ingestVars => IngestInv'
    BY IngestStep
<1>3. IngestInv => BarsAreTrue
    BY IngestInvImplies
<1>4. QED BY <1>1, <1>2, <1>3, PTL DEF IngestSpec

-----------------------------------------------------------------------------
(* The start of a container (Startup).  The lock has one holder between the reading  *)
(* of what is applied and the end, what the holder has to do is what it    *)
(* ships and nobody has applied, and what it has passed is covered.        *)

Booting == [at : {"wait", "read", "migrate", "look", "create", "serve"},
            ships : SUBSET Nat, todo : SUBSET Nat, next : Int, through : Int,
            missing : BOOLEAN]

StartupTypeOK ==
    /\ year \in Int
    /\ applied \in Seq(Nat)
    /\ attached \subseteq SUBSET Int
    /\ byHand \subseteq Int
    /\ holder \subseteq Containers
    /\ boot \in [Containers -> {Down} \cup Booting]
    /\ boots \in Nat

\* Who is between the lock and its end holds it.
LockIsHeld ==
    \A c \in Containers :
        boot[c].at \in {"read", "migrate", "look", "create"} => holder = {c}

\* What is left to apply is what is shipped and is not applied.
TodoIsTheRest ==
    \A c \in Containers :
        /\ boot[c].at = "migrate" => boot[c].todo = boot[c].ships \ Applied
        /\ boot[c].at \in {"look", "create", "serve"} => boot[c].ships \subseteq Applied

AppliedOnce == \A j, k \in DOMAIN applied : applied[j] = applied[k] => j = k

\* A partition is of a year, or of a part of one by hand.
PartitionsAreKnown ==
    \A p \in attached :
        \/ \E y \in Int : p = Halves(y)
        \/ \E h \in Int : p = {h} /\ (h \div 2) \in byHand

Covered(y) == y \in byHand \/ Halves(y) \in attached

\* The years that were looked at are covered.
PassedIsCovered ==
    \A c \in Containers :
        /\ boot[c].at \in {"wait", "read", "migrate"} => boot[c].next = FirstYear
        /\ boot[c].at \in {"look", "create", "serve"} =>
               \A y \in FirstYear .. boot[c].next - 1 : Covered(y)
        /\ boot[c].at = "create" /\ ~boot[c].missing => Covered(boot[c].next)
        /\ boot[c].at = "serve" => boot[c].next > boot[c].through

StartupInv ==
    /\ StartupTypeOK /\ LockIsHeld /\ TodoIsTheRest /\ AppliedOnce
    /\ PartitionsAreKnown /\ PartitionsAreApart /\ PassedIsCovered

\* The halves of a year are its own.
LEMMA HalvesAreOfTheirYear ==
    /\ \A x, y \in Int : Halves(x) \cap Halves(y) # {} => x = y
    /\ \A y, h \in Int : h \in Halves(y) => h \div 2 = y
    /\ \A y \in Int : Halves(y) \subseteq Int
<1>1. \A y, h \in Int : h \in Halves(y) => h \div 2 = y
    BY DEF Halves
<1>2. \A x, y \in Int : Halves(x) \cap Halves(y) # {} => x = y
    BY DEF Halves
<1>3. QED BY <1>1, <1>2 DEF Halves

\* What overlaps a year covers it, as the code reads it.
LEMMA OverlapCovers ==
    ASSUME PartitionsAreKnown, NEW y \in Int, Overlaps(Halves(y))
    PROVE  Covered(y)
<1>1. PICK p \in attached : p \cap Halves(y) # {}
    BY DEF Overlaps
<1>2. CASE \E x \in Int : p = Halves(x)
    <2>1. p = Halves(y)
        BY <1>1, <1>2, HalvesAreOfTheirYear
    <2>2. QED BY <2>1 DEF Covered
<1>3. CASE \E h \in Int : p = {h} /\ (h \div 2) \in byHand
    BY <1>1, <1>3, HalvesAreOfTheirYear DEF Covered
<1>4. QED BY <1>2, <1>3 DEF PartitionsAreKnown

\* One more migration in the record.
LEMMA Recorded ==
    ASSUME applied \in Seq(Nat), AppliedOnce, NEW v \in Nat, v \notin Applied,
           applied' = Append(applied, v)
    PROVE  applied' \in Seq(Nat) /\ AppliedOnce' /\ Applied' = Applied \cup {v}
<1>1. /\ DOMAIN applied' = DOMAIN applied \cup {Len(applied) + 1}
      /\ applied'[Len(applied) + 1] = v
      /\ \A k \in DOMAIN applied : applied'[k] = applied[k]
      /\ Len(applied) + 1 \notin DOMAIN applied
      /\ applied' \in Seq(Nat)
    OBVIOUS
<1>2. AppliedOnce'
    BY <1>1 DEF AppliedOnce, Applied
<1>3. Applied' = Applied \cup {v}
    BY <1>1 DEF Applied
<1>4. QED BY <1>1, <1>2, <1>3

LEMMA StartupStarts == StartupInit => StartupInv
BY StartupAssumption DEF StartupInit, StartupInv, StartupTypeOK, LockIsHeld, TodoIsTheRest,
   AppliedOnce, PartitionsAreKnown, PartitionsAreApart, PassedIsCovered, Down

\* One container's record is replaced.
LEMMA OneContainer ==
    ASSUME StartupTypeOK, NEW c \in Containers, NEW r \in {Down} \cup Booting,
           boot' = [boot EXCEPT ![c] = r]
    PROVE  /\ boot' \in [Containers -> {Down} \cup Booting]
           /\ boot'[c] = r
           /\ \A d \in Containers \ {c} : boot'[d] = boot[d]
BY DEF StartupTypeOK

\* Who is anywhere but down is booting.
LEMMA UpIsBooting ==
    ASSUME StartupTypeOK, NEW c \in Containers, boot[c].at # "down"
    PROVE  boot[c] \in Booting
BY DEF StartupTypeOK, Down

\* What keeps the tables, moves one container and takes the lock from nobody else.
LEMMA MovingKeeps ==
    ASSUME StartupInv, NEW c \in Containers, NEW r \in {Down} \cup Booting,
           boot' = [boot EXCEPT ![c] = r], holder' \subseteq Containers, boots' \in Nat,
           UNCHANGED <<year, applied, attached, byHand>>,
           \A d \in Containers \ {c} : holder = {d} => holder' = {d},
           r.at \in {"read", "migrate", "look", "create"} => holder' = {c},
           r.at = "migrate" => r.todo = r.ships \ Applied,
           r.at \in {"look", "create", "serve"} => r.ships \subseteq Applied,
           r.at \in {"wait", "read", "migrate"} => r.next = FirstYear,
           r.at \in {"look", "create", "serve"} => \A y \in FirstYear .. r.next - 1 : Covered(y),
           r.at = "create" /\ ~r.missing => Covered(r.next),
           r.at = "serve" => r.next > r.through
    PROVE  StartupInv'
<1>1. /\ boot' \in [Containers -> {Down} \cup Booting]
      /\ boot'[c] = r
      /\ \A d \in Containers \ {c} : boot'[d] = boot[d]
    BY OneContainer DEF StartupInv
<1>2. StartupTypeOK'
    BY <1>1 DEF StartupInv, StartupTypeOK
<1>3. LockIsHeld'
    BY <1>1 DEF StartupInv, LockIsHeld
<1>4. TodoIsTheRest'
    BY <1>1 DEF StartupInv, TodoIsTheRest, Applied
<1>5. PassedIsCovered'
    BY <1>1 DEF StartupInv, PassedIsCovered, Covered
<1>6. (AppliedOnce /\ PartitionsAreKnown /\ PartitionsAreApart)'
    BY DEF StartupInv, AppliedOnce, PartitionsAreKnown, PartitionsAreApart
<1>7. QED BY <1>2, <1>3, <1>4, <1>5, <1>6 DEF StartupInv

LEMMA BootStartsKeeps ==
    ASSUME StartupInv, NEW c \in Containers, NEW ships \in Releases, Starts(c, ships)
    PROVE  StartupInv'
<1> DEFINE r == [at |-> "wait", ships |-> ships, todo |-> {}, next |-> FirstYear,
                 through |-> FirstYear, missing |-> FALSE]
<1>1. r \in {Down} \cup Booting
    BY StartupAssumption DEF Booting
<1>2. boot' = [boot EXCEPT ![c] = r] /\ boots' \in Nat
    BY DEF Starts, StartupInv, StartupTypeOK
<1>3. r.at = "wait" /\ r.next = FirstYear
    OBVIOUS
<1> HIDE DEF r
<1>4. QED BY <1>1, <1>2, <1>3, MovingKeeps DEF Starts, StartupInv, StartupTypeOK

LEMMA LocksKeeps ==
    ASSUME StartupInv, NEW c \in Containers, Locks(c)
    PROVE  StartupInv'
<1> DEFINE r == [boot[c] EXCEPT !.at = "read"]
<1>1. r \in {Down} \cup Booting /\ r.at = "read" /\ r.next = FirstYear
    BY UpIsBooting DEF Locks, Booting, StartupInv, PassedIsCovered
<1>2. boot' = [boot EXCEPT ![c] = r]
    BY DEF Locks, StartupInv, StartupTypeOK
<1> HIDE DEF r
<1>3. QED BY <1>1, <1>2, MovingKeeps DEF Locks, StartupInv, StartupTypeOK

LEMMA ReadingKeeps ==
    ASSUME StartupInv, NEW c \in Containers, ReadsApplied(c)
    PROVE  StartupInv'
<1> DEFINE r == [boot[c] EXCEPT !.at = "migrate", !.todo = boot[c].ships \ Applied]
<1>1. /\ r \in {Down} \cup Booting /\ r.at = "migrate" /\ r.next = FirstYear
      /\ r.todo = r.ships \ Applied
    BY UpIsBooting DEF ReadsApplied, Booting, StartupInv, PassedIsCovered
<1>2. boot' = [boot EXCEPT ![c] = r]
    BY DEF ReadsApplied, StartupInv, StartupTypeOK
<1> HIDE DEF r
<1>3. holder = {c}
    BY DEF ReadsApplied, StartupInv, LockIsHeld
<1>4. QED BY <1>1, <1>2, <1>3, MovingKeeps DEF ReadsApplied, StartupInv, StartupTypeOK

LEMMA EndingKeeps ==
    ASSUME StartupInv, NEW c \in Containers, BootEnds(c)
    PROVE  StartupInv'
<1>1. \A d \in Containers \ {c} : holder = {d} => holder' = {d}
    BY DEF BootEnds
<1>2. QED BY <1>1, MovingKeeps DEF BootEnds, Down, StartupInv, StartupTypeOK

LEMMA MigratedKeeps ==
    ASSUME StartupInv, NEW c \in Containers, Migrated(c)
    PROVE  StartupInv'
<1> DEFINE r == [boot[c] EXCEPT !.at = "look", !.through = year + HeadroomYears]
<1>0. boot[c] \in Booting /\ year + HeadroomYears \in Int
    BY UpIsBooting, StartupAssumption DEF Migrated, StartupInv, StartupTypeOK
<1>1. /\ r \in {Down} \cup Booting /\ r.at = "look" /\ r.next = FirstYear
      /\ r.ships \subseteq Applied
    BY <1>0 DEF Migrated, Booting, StartupInv, PassedIsCovered, TodoIsTheRest
<1>2. boot' = [boot EXCEPT ![c] = r]
    BY DEF Migrated, StartupInv, StartupTypeOK
<1> HIDE DEF r
<1>3. holder = {c}
    BY DEF Migrated, StartupInv, LockIsHeld
<1>4. \A y \in FirstYear .. r.next - 1 : Covered(y)
    BY <1>1, StartupAssumption
<1>5. QED
    BY <1>1, <1>2, <1>3, <1>4, MovingKeeps DEF Migrated, StartupInv, StartupTypeOK

LEMMA LookingKeeps ==
    ASSUME StartupInv, NEW c \in Containers, LooksAtYear(c)
    PROVE  StartupInv'
<1> DEFINE r == [boot[c] EXCEPT !.at = "create", !.missing = ~Overlaps(Halves(boot[c].next))]
<1>1. boot[c] \in Booting
    BY UpIsBooting DEF LooksAtYear, StartupInv
<1>2. /\ r \in {Down} \cup Booting /\ r.at = "create" /\ r.next = boot[c].next
      /\ r.ships = boot[c].ships
    BY <1>1 DEF Booting
<1>3. r.missing = ~Overlaps(Halves(boot[c].next))
    BY <1>1, Zenon DEF Booting
<1>4. boot' = [boot EXCEPT ![c] = r]
    BY DEF LooksAtYear, StartupInv, StartupTypeOK
<1> HIDE DEF r
<1>5. ~r.missing => Covered(r.next)
    BY <1>1, <1>2, <1>3, OverlapCovers DEF StartupInv, Booting
<1>6. /\ r.ships \subseteq Applied
      /\ \A y \in FirstYear .. r.next - 1 : Covered(y)
      /\ holder = {c}
    BY <1>2 DEF LooksAtYear, StartupInv, TodoIsTheRest, PassedIsCovered, LockIsHeld
<1>7. QED
    BY <1>2, <1>4, <1>5, <1>6, MovingKeeps DEF LooksAtYear, StartupInv, StartupTypeOK

LEMMA ServingKeeps ==
    ASSUME StartupInv, NEW c \in Containers, Serves(c)
    PROVE  StartupInv'
<1> DEFINE r == [boot[c] EXCEPT !.at = "serve"]
<1>1. /\ r \in {Down} \cup Booting /\ r.at = "serve" /\ r.next = boot[c].next
      /\ r.ships = boot[c].ships /\ r.through = boot[c].through
    BY UpIsBooting DEF Serves, Booting, StartupInv
<1>2. boot' = [boot EXCEPT ![c] = r]
    BY DEF Serves, StartupInv, StartupTypeOK
<1> HIDE DEF r
<1>3. /\ r.ships \subseteq Applied
      /\ \A y \in FirstYear .. r.next - 1 : Covered(y)
      /\ r.next > r.through
    BY <1>1 DEF Serves, StartupInv, TodoIsTheRest, PassedIsCovered
<1>4. \A d \in Containers \ {c} : holder = {d} => holder' = {d}
    BY DEF Serves
<1>5. QED
    BY <1>1, <1>2, <1>3, <1>4, MovingKeeps DEF Serves, StartupInv, StartupTypeOK

\* Whatever else is written, nobody but the holder is between the lock and its end.
LEMMA NobodyElse ==
    ASSUME StartupInv, NEW c \in Containers,
           boot[c].at \in {"read", "migrate", "look", "create"}
    PROVE  \A d \in Containers \ {c} :
               boot[d].at \notin {"read", "migrate", "look", "create"}
BY DEF StartupInv, LockIsHeld

LEMMA MigratingKeeps ==
    ASSUME StartupInv, NEW c \in Containers, Migrates(c)
    PROVE  StartupInv'
<1>1. PICK v \in boot[c].todo :
          IF v \in Applied THEN BootEnds(c)
          ELSE /\ applied' = Append(applied, v)
               /\ boot' = [boot EXCEPT ![c].todo = @ \ {v}]
               /\ UNCHANGED <<year, attached, byHand, holder, boots>>
    BY DEF Migrates
<1>2. v \notin Applied
    BY <1>1 DEF Migrates, StartupInv, TodoIsTheRest
<1>3. boot[c] \in Booting /\ boot[c].at = "migrate"
    BY UpIsBooting DEF Migrates, StartupInv
<1> DEFINE r == [boot[c] EXCEPT !.todo = boot[c].todo \ {v}]
<1>4. /\ r \in {Down} \cup Booting /\ r.at = "migrate" /\ r.next = boot[c].next
      /\ r.ships = boot[c].ships /\ r.todo = boot[c].todo \ {v}
    BY <1>3 DEF Booting
<1>5. boot' = [boot EXCEPT ![c] = r]
    BY <1>1, <1>2 DEF StartupInv, StartupTypeOK
<1> HIDE DEF r
<1>6. v \in Nat
    BY <1>3 DEF Booting
<1>7. applied' \in Seq(Nat) /\ AppliedOnce' /\ Applied' = Applied \cup {v}
    BY <1>1, <1>2, <1>6, Recorded DEF StartupInv, StartupTypeOK
<1>8. /\ boot' \in [Containers -> {Down} \cup Booting]
      /\ boot'[c] = r
      /\ \A d \in Containers \ {c} : boot'[d] = boot[d]
    BY <1>4, <1>5, OneContainer DEF StartupInv
<1>9. StartupTypeOK'
    BY <1>1, <1>2, <1>7, <1>8 DEF StartupInv, StartupTypeOK
<1>10. LockIsHeld'
    BY <1>1, <1>2, <1>3, <1>4, <1>8 DEF StartupInv, LockIsHeld
<1>11. TodoIsTheRest'
    <2>1. r.todo = r.ships \ Applied'
        BY <1>3, <1>4, <1>7 DEF StartupInv, TodoIsTheRest
    <2>2. \A d \in Containers \ {c} : boot[d].at # "migrate"
        BY <1>3, NobodyElse
    <2>3. QED BY <1>4, <1>7, <1>8, <2>1, <2>2 DEF StartupInv, TodoIsTheRest
<1>12. PassedIsCovered'
    BY <1>1, <1>2, <1>3, <1>4, <1>8 DEF StartupInv, PassedIsCovered, Covered
<1>13. (PartitionsAreKnown /\ PartitionsAreApart)'
    BY <1>1, <1>2 DEF StartupInv, PartitionsAreKnown, PartitionsAreApart
<1>14. QED BY <1>7, <1>9, <1>10, <1>11, <1>12, <1>13 DEF StartupInv

LEMMA CreatingKeeps ==
    ASSUME StartupInv, NEW c \in Containers, CreatesYear(c)
    PROVE  StartupInv'
<1>1. boot[c] \in Booting /\ boot[c].at = "create" /\ boot[c].missing \in BOOLEAN
    <2>1. boot[c] \in Booting /\ boot[c].at = "create"
        BY UpIsBooting DEF CreatesYear, StartupInv
    <2>2. QED BY <2>1 DEF Booting
<1>y. PICK y \in Int : y = boot[c].next
    BY <1>1 DEF Booting
<1> DEFINE r == [boot[c] EXCEPT !.at = "look", !.next = y + 1]
<1>2. CASE boot[c].missing /\ Overlaps(Halves(y))
    BY <1>y, <1>2, EndingKeeps DEF CreatesYear
<1>3. CASE ~(boot[c].missing /\ Overlaps(Halves(y)))
    <2>1. /\ attached' = IF boot[c].missing THEN attached \cup {Halves(y)} ELSE attached
          /\ boot' = [boot EXCEPT ![c].at = "look", ![c].next = @ + 1]
          /\ UNCHANGED <<year, applied, byHand, holder, boots>>
        BY <1>y, <1>3 DEF CreatesYear
    <2>2. /\ r \in {Down} \cup Booting /\ r.at = "look" /\ r.next = y + 1
          /\ r.ships = boot[c].ships
        <3>1. y + 1 \in Int
            OBVIOUS
        <3>2. r \in Booting
            BY <1>1, <3>1, Zenon DEF Booting
        <3>3. QED BY <1>1, <3>2 DEF Booting
    <2>3. boot' = [boot EXCEPT ![c] = r]
        BY <1>y, <2>1 DEF StartupInv, StartupTypeOK
    <2> HIDE DEF r
    <2>4. /\ boot' \in [Containers -> {Down} \cup Booting]
          /\ boot'[c] = r
          /\ \A d \in Containers \ {c} : boot'[d] = boot[d]
        BY <2>2, <2>3, OneContainer DEF StartupInv
    <2>5. attached \subseteq attached' /\ \A p \in attached' \ attached :
              p = Halves(y) /\ ~Overlaps(Halves(y))
        BY <1>3, <2>1
    <2>6. StartupTypeOK'
        BY <1>1, <2>1, <2>4, <2>5, HalvesAreOfTheirYear DEF StartupInv, StartupTypeOK
    <2>7. LockIsHeld'
        BY <1>1, <2>1, <2>2, <2>4 DEF StartupInv, LockIsHeld
    <2>8. TodoIsTheRest' /\ AppliedOnce'
        BY <1>1, <2>1, <2>2, <2>4 DEF StartupInv, TodoIsTheRest, Applied, AppliedOnce
    <2>9. PartitionsAreKnown'
        BY <1>1, <2>1, <2>5 DEF StartupInv, PartitionsAreKnown
    <2>10. PartitionsAreApart'
        BY <2>5 DEF StartupInv, PartitionsAreApart, Overlaps
    <2>11. \A x \in Int : Covered(x) => Covered(x)'
        BY <2>1, <2>5 DEF Covered
    <2>12. Covered(y)'
        <3>1. CASE boot[c].missing
            BY <2>1, <3>1 DEF Covered
        <3>2. CASE ~boot[c].missing
            BY <1>y, <1>1, <2>11, <3>2 DEF StartupInv, PassedIsCovered
        <3>3. QED BY <3>1, <3>2
    <2>13. \A x \in FirstYear .. r.next - 1 : Covered(x)'
        <3>1. \A x \in FirstYear .. y - 1 : Covered(x)
            BY <1>y, <1>1 DEF StartupInv, PassedIsCovered
        <3>2. r.next - 1 = y
            BY <2>2
        <3>3. TAKE x \in FirstYear .. r.next - 1
        <3>4. x \in FirstYear .. y - 1 \/ x = y
            BY <3>2, StartupAssumption
        <3>5. x \in Int
            BY StartupAssumption
        <3>6. QED BY <2>11, <2>12, <3>1, <3>4, <3>5
    <2>14. PassedIsCovered'
        <3>1. \A d \in Containers \ {c} : boot[d].at \notin {"look", "create"}
            BY <1>1, NobodyElse
        <3>2. r.at = "look" /\ boot'[c] = r
            BY <2>2, <2>4
        <3>3. ASSUME NEW d \in Containers \ {c}
              PROVE  /\ boot[d].at \in {"wait", "read", "migrate"} => boot[d].next = FirstYear
                     /\ boot[d].at = "serve" => /\ \A x \in FirstYear .. boot[d].next - 1 : Covered(x)'
                                                /\ boot[d].next > boot[d].through
            <4>1. /\ boot[d].at \in {"wait", "read", "migrate"} => boot[d].next = FirstYear
                  /\ boot[d].at = "serve" => /\ \A x \in FirstYear .. boot[d].next - 1 : Covered(x)
                                             /\ boot[d].next > boot[d].through
                BY DEF StartupInv, PassedIsCovered
            <4>2. FirstYear .. boot[d].next - 1 \subseteq Int
                OBVIOUS
            <4>3. QED BY <2>11, <4>1, <4>2
        <3>4. \A d \in Containers \ {c} : boot'[d] = boot[d]
            BY <2>4
        <3>5. QED
            BY <2>13, <3>1, <3>2, <3>3, <3>4 DEF PassedIsCovered
    <2>15. QED
        BY <2>6, <2>7, <2>8, <2>9, <2>10, <2>14 DEF StartupInv
<1>4. QED BY <1>2, <1>3

LEMMA ByHandKeeps ==
    ASSUME StartupInv, NEW half \in Int, PartitionsByHand(half)
    PROVE  StartupInv'
<1>1. /\ ~Overlaps({half})
      /\ attached' = attached \cup {{half}}
      /\ byHand' = byHand \cup {half \div 2}
      /\ UNCHANGED <<year, applied, holder, boot, boots>>
    BY DEF PartitionsByHand
<1>2. StartupTypeOK' /\ LockIsHeld' /\ AppliedOnce'
    BY <1>1 DEF StartupInv, StartupTypeOK, LockIsHeld, AppliedOnce
<1>3. TodoIsTheRest'
    BY <1>1 DEF StartupInv, TodoIsTheRest, Applied
<1>4. PartitionsAreKnown'
    BY <1>1 DEF StartupInv, PartitionsAreKnown
<1>5. PartitionsAreApart'
    BY <1>1 DEF StartupInv, PartitionsAreApart, Overlaps
<1>6. \A x : Covered(x) => Covered(x)'
    BY <1>1 DEF Covered
<1>7. PassedIsCovered'
    BY <1>1, <1>6 DEF StartupInv, PassedIsCovered
<1>8. QED BY <1>2, <1>3, <1>4, <1>5, <1>7 DEF StartupInv

LEMMA StartupStep ==
    ASSUME StartupInv, [StartupNext]_startupVars
    PROVE  StartupInv'
<1>1. CASE UNCHANGED startupVars
    BY <1>1 DEF startupVars, StartupInv, StartupTypeOK, LockIsHeld, TodoIsTheRest, Applied,
       AppliedOnce, PartitionsAreKnown, PartitionsAreApart, PassedIsCovered, Covered
<1>2. CASE YearPasses
    BY <1>2 DEF YearPasses, StartupInv, StartupTypeOK, LockIsHeld, TodoIsTheRest, Applied,
       AppliedOnce, PartitionsAreKnown, PartitionsAreApart, PassedIsCovered, Covered
<1>3. CASE \E half \in 2 * FirstYear .. 2 * LastYear + 1 : PartitionsByHand(half)
    BY <1>3, ByHandKeeps, StartupAssumption
<1>4. ASSUME NEW c \in Containers,
             \/ \E ships \in Releases : Starts(c, ships)
             \/ Locks(c) \/ ReadsApplied(c) \/ Migrates(c) \/ Migrated(c)
             \/ LooksAtYear(c) \/ CreatesYear(c) \/ Serves(c) \/ Dies(c)
      PROVE  StartupInv'
    BY <1>4, BootStartsKeeps, LocksKeeps, ReadingKeeps, MigratingKeeps, MigratedKeeps,
       LookingKeeps, CreatingKeeps, ServingKeeps, EndingKeeps DEF Dies
<1>5. QED BY <1>1, <1>2, <1>3, <1>4 DEF StartupNext

\* Every container that serves found its schema and its partitions, no migration ran
\* twice and no partitions overlap, whatever starts, dies, ships and is made by hand.
\* (prepare_database, apply_migrations, ensure_partitions)
THEOREM StartsAreWhole == StartupSpec => []StartsWhole
<1>1. StartupInv => StartsWhole
    <2>1. StartupInv => MigrationsRunOnce
        BY DEF StartupInv, TodoIsTheRest, AppliedOnce, MigrationsRunOnce
    <2>2. StartupInv => ServedIsPrepared
        <3> SUFFICES ASSUME StartupInv, NEW c \in Containers, boot[c].at = "serve"
                     PROVE  /\ boot[c].ships \subseteq Applied
                            /\ \A y \in (FirstYear .. boot[c].through) \ byHand :
                                   Halves(y) \in attached
            BY DEF ServedIsPrepared
        <3>1. boot[c].next \in Int /\ boot[c].through \in Int
            BY UpIsBooting DEF StartupInv, Booting
        <3>2. QED
            BY <3>1, StartupAssumption
            DEF StartupInv, TodoIsTheRest, PassedIsCovered, Covered
    <2>3. QED BY <2>1, <2>2 DEF StartsWhole, StartupInv
<1>2. QED BY <1>1, StartupStarts, StartupStep, PTL DEF StartupSpec

-----------------------------------------------------------------------------
(* The walk of a stream (Reddit).  What is known of a walk is told of the  *)
(* span at hand: what is missing of it lies no later than the cursor and   *)
(* than the oldest item that was yielded, whatever a page repeats or cuts  *)
(* off within a second.  That makes 'ok' whole.                            *)

\* What is first of a sequence, and the rest of it.
LEMMA HeadIs ==
    ASSUME NEW S, NEW s \in Seq(S), s # <<>>
    PROVE  Head(s) \in S /\ Tail(s) \in Seq(S)
OBVIOUS

\* What the assumptions say of the numbers and of what may be posted.
LEMMA RedditConstants ==
    /\ Overlap \in Nat /\ Tolerance \in Nat /\ Page \in Nat \ {0} /\ Window \in Nat
    /\ MinReach \in Nat /\ BackfillDays \in Nat /\ GapLimit \in Nat
    /\ \A some \in Postings :
          IsFiniteSet(some) /\ \A p \in some : At(p) \in Int /\ At(p) % 2 = 0
BY RedditAssumption DEF At

\* A finite set of numbers has its ends.
LEMMA FiniteHasEnds ==
    ASSUME NEW S, IsFiniteSet(S), S \subseteq Int, S # {}
    PROVE  \E l, m \in S : \A t \in S : l <= t /\ t <= m
<1> DEFINE Ends(T) == \E l, m \in T : \A t \in T : l <= t /\ t <= m
           Bad == {n \in Nat : \E T \in SUBSET S : T # {} /\ Cardinality(T) = n /\ ~Ends(T)}
<1>1. \A T \in SUBSET S : IsFiniteSet(T) /\ Cardinality(T) \in Nat
    BY FS_Subset, FS_CardinalityType
<1>2. CASE Bad = {}
    <2>1. Cardinality(S) \in Nat /\ S \in SUBSET S
        BY <1>1
    <2>2. Ends(S)
        BY <1>2, <2>1
    <2>3. QED BY <2>2
<1>3. CASE Bad # {}
    <2>1. Bad \subseteq Nat
        OBVIOUS
    <2> HIDE DEF Bad
    <2>2. PICK n \in Bad : \A o \in Bad : n <= o
        BY <1>3, <2>1, LeastOf
    <2> USE DEF Bad
    <2>3. PICK T \in SUBSET S : T # {} /\ Cardinality(T) = n /\ ~Ends(T)
        OBVIOUS
    <2>4. PICK x \in T : TRUE
        BY <2>3
    <2>5. PICK U : U = T \ {x}
        OBVIOUS
    <2>6. IsFiniteSet(T) /\ U \in SUBSET S
        BY <1>1, <2>5
    <2>7. Cardinality(U) = n - 1 /\ Cardinality(U) \in Nat
        BY <1>1, <2>3, <2>4, <2>5, <2>6, Smaller
    <2>8. U = {} \/ Ends(U)
        <3>1. n \in Nat /\ n - 1 \notin Bad
            BY <2>2, <2>7
        <3>2. QED BY <2>6, <2>7, <3>1
    <2>9. x \in Int /\ T \subseteq Int
        BY <2>4
    <2>10. CASE U = {}
        <3>1. T = {x}
            BY <2>4, <2>5, <2>10
        <3>2. QED BY <2>3, <2>9, <3>1
    <2>11. CASE U # {} /\ Ends(U)
        <3>1. PICK l \in U, m \in U : \A t \in U : l <= t /\ t <= m
            BY <2>11
        <3>2. l \in T /\ m \in T /\ l \in Int /\ m \in Int
            BY <2>5, <2>9
        <3>3. PICK a \in T, b \in T : /\ a \in Int /\ b \in Int
                                      /\ a <= l /\ a <= x /\ m <= b /\ x <= b
            BY <2>4, <2>9, <3>2
        <3>4. ASSUME NEW t \in T PROVE a <= t /\ t <= b
            <4>1. t \in Int /\ (t = x \/ t \in U)
                BY <2>5, <2>9
            <4>2. QED BY <2>9, <3>1, <3>2, <3>3, <4>1
        <3>5. QED BY <2>3, <3>4
    <2>12. QED BY <2>8, <2>10, <2>11
<1>4. QED BY <1>2, <1>3

\* What Min and Max return of such a set.
LEMMA EndsAreIn ==
    ASSUME NEW S, IsFiniteSet(S), S \subseteq Int, S # {}
    PROVE  Max(S) \in Int /\ Min(S) \in Int
<1>1. PICK l \in S, m \in S : \A t \in S : l <= t /\ t <= m
    BY FiniteHasEnds
<1>2. Max(S) = CHOOSE x \in S : \A y \in S : x >= y
    BY DEF Max
<1>3. Min(S) = CHOOSE x \in S : \A y \in S : x <= y
    BY DEF Min
<1>4. Max(S) \in S
    BY <1>1, <1>2
<1>5. Min(S) \in S
    BY <1>1, <1>3
<1>6. QED BY <1>4, <1>5

\* The second an instant is in, and the whole seconds around it.
LEMMA WholeIs ==
    ASSUME NEW t \in Int
    PROVE  /\ Whole(t) \in Int /\ Whole(t) <= t
           /\ \A e \in Int : e % 2 = 0 =>
                 /\ e <= t => e <= Whole(t)
                 /\ e < Whole(t) => e <= Whole(t) - Second
BY DEF Whole, Second

-----------------------------------------------------------------------------
(* A walk, and its span at hand.                                           *)

SpanSet == [after : Int, before : Int, gap : BOOLEAN]

WalkFields == {"at", "spans", "from", "moment", "start", "width", "cursor", "reach", "clean",
               "tries", "page", "seen", "short", "batch", "frontier", "stored", "failed"}

\* The fields of a walk are what they are.
FieldsOK(w, P) ==
    /\ DOMAIN w = WalkFields
    /\ w.spans \in Seq(SpanSet)
    /\ w.from \in Int /\ w.moment \in Int /\ w.start \in Int /\ w.cursor \in Int
    /\ w.frontier \in Int /\ w.width \in Int /\ w.reach \in Int
    /\ w.page \subseteq P /\ w.batch \subseteq P /\ w.seen \subseteq P
    /\ w.failed \in BOOLEAN

AtAHead(w) == w.at \in {"ask", "page", "except", "bank"}
FloorOf(w) == Max({w.start, w.cursor - w.reach})

\* What the mirror will say between two instants: the seconds that a page can hold.
Sayable(P, after, before) ==
    {p \in P : /\ after < At(p) /\ At(p) < before
               /\ ~(Cardinality({q \in P : At(q) = At(p)}) > Page)}

\* What is missing of the span at hand.
Missing(w, P, I) ==
    Sayable(P, Head(w.spans).after, Head(w.spans).before) \ (I \cup w.batch)

\* Before a request: what is missing is no later than the cursor.
AskOK(w, P, I) ==
    /\ \A p \in Missing(w, P, I) : At(p) <= w.cursor /\ At(p) <= w.frontier
    /\ w.seen \subseteq I \cup w.batch
    /\ \A q \in w.seen : w.frontier <= At(q)

\* Over a page: what is neither had nor on the page is no later than all of the page, is
\* below the slice when the page is short, and below its upper edge when the page is full
\* and gets nowhere.
PageOK(w, P, I) ==
    /\ \A p \in Missing(w, P, I) : At(p) <= w.frontier
    /\ w.seen \subseteq I \cup w.batch \cup w.page
    /\ \A q \in w.seen \ w.page : w.frontier <= At(q)
    /\ \A p \in Missing(w, P, I) \ w.page : \A q \in w.page : At(p) <= At(q)
    /\ w.short => \A p \in Missing(w, P, I) \ w.page : At(p) < FloorOf(w)
    /\ ~w.short => \/ w.frontier < w.cursor
                   \/ \E q \in w.page : At(q) < w.cursor
                   \/ \A p \in Missing(w, P, I) \ w.page : At(p) < Whole(w.cursor)

HeadOK(w, P, I) ==
    /\ AtAHead(w) \/ w.at = "drop" => w.spans # <<>>
    /\ w.at = "ask" => AskOK(w, P, I)
    /\ w.at = "page" => PageOK(w, P, I)
    /\ w.at = "bank" => Missing(w, P, I) = {}

\* What was asked for first is had, or is being walked, or the pass has failed.
FirstOK(w, P, I) ==
    \/ w.failed
    \/ Sayable(P, w.from, w.moment) \subseteq I
    \/ AtAHead(w) /\ Head(w.spans).after = w.from /\ Head(w.spans).before = w.moment

GoodWalk(w, P, I) == FieldsOK(w, P) /\ HeadOK(w, P, I) /\ FirstOK(w, P, I)

RedditInv ==
    /\ time \in Int /\ posted \in Postings /\ items \subseteq posted
    /\ IsFiniteSet(DOMAIN gaps) /\ DOMAIN gaps \subseteq Int \X Int
    /\ walk # NoWalk => GoodWalk(walk, posted, items)

\* What a step must leave for the invariant to hold after it.
LEMMA InvAgain ==
    ASSUME RedditInv, time' \in Int, posted' = posted, items' \subseteq posted,
           IsFiniteSet(DOMAIN gaps'), DOMAIN gaps' \subseteq Int \X Int,
           walk' = NoWalk \/ GoodWalk(walk', posted, items')
    PROVE  RedditInv'
BY DEF RedditInv, GoodWalk, FieldsOK, HeadOK, FirstOK, AskOK, PageOK, Missing, Sayable,
       AtAHead, FloorOf

\* A walk that is somewhere is a good one.
LEMMA WalkIsGood ==
    ASSUME RedditInv, walk # NoWalk
    PROVE  /\ GoodWalk(walk, posted, items) /\ FieldsOK(walk, posted)
           /\ HeadOK(walk, posted, items) /\ FirstOK(walk, posted, items)
           /\ time \in Int /\ items \subseteq posted
           /\ IsFiniteSet(DOMAIN gaps) /\ DOMAIN gaps \subseteq Int \X Int
BY DEF RedditInv, GoodWalk

\* Items are of whole seconds.
LEMMA PostedAre ==
    ASSUME RedditInv
    PROVE  IsFiniteSet(posted) /\ \A p \in posted : At(p) \in Int /\ At(p) % 2 = 0
BY RedditConstants DEF RedditInv

\* What the start of a window changes of a walk.
LEMMA OpensWindow ==
    ASSUME NEW w, NEW P, FieldsOK(w, P), NEW end \in Int, NEW reach \in Int,
           w.spans # <<>>, NEW o, o = OpenWindow(w, end, reach)
    PROVE  /\ FieldsOK(o, P) /\ o.at = "ask" /\ o.cursor = end
           /\ o.spans = w.spans /\ o.from = w.from /\ o.moment = w.moment
           /\ o.batch = w.batch /\ o.frontier = w.frontier /\ o.failed = w.failed
           /\ o.seen = w.seen
<1>1. w.spans \in Seq(SpanSet) /\ DOMAIN w = WalkFields
    BY DEF FieldsOK
<1>2. PICK a \in Int : a = Head(w.spans).after
    <2>1. Head(w.spans) \in SpanSet
        BY <1>1, HeadIs
    <2>2. QED BY <2>1 DEF SpanSet
<1>3. PICK c \in Int : c = end - Window
    BY RedditConstants
<1>4. PICK start \in Int : start = Max({a, c})
    BY MaxAndMinOfTwo
<1>5. PICK d \in Int : d = end - start
    OBVIOUS
<1>6. PICK r \in Int : r = Min({reach, d})
    BY MaxAndMinOfTwo
<1>7. o = [w EXCEPT !.at = "ask", !.start = start, !.cursor = end, !.width = d,
                    !.reach = r, !.clean = 0, !.tries = 0]
    BY <1>2, <1>3, <1>4, <1>5, <1>6 DEF OpenWindow
<1>8. /\ DOMAIN o = WalkFields /\ o.at = "ask" /\ o.start = start /\ o.cursor = end
      /\ o.width = d /\ o.reach = r
    BY <1>1, <1>7 DEF WalkFields
<1>9. /\ o.spans = w.spans /\ o.from = w.from /\ o.moment = w.moment
      /\ o.page = w.page /\ o.seen = w.seen
      /\ o.batch = w.batch /\ o.frontier = w.frontier /\ o.failed = w.failed
    BY <1>1, <1>7 DEF WalkFields
<1>10. FieldsOK(o, P)
    BY <1>8, <1>9 DEF FieldsOK
<1>11. QED BY <1>8, <1>9, <1>10

\* Instants are numbers.
Timed(P) == \A p \in P : At(p) \in Int

\* A span is opened at its newer end, with nothing batched, or there is none.
LEMMA OpensSpan ==
    ASSUME NEW w, NEW P, NEW I, FieldsOK(w, P), Timed(P), NEW o, o = OpenSpan(w)
    PROVE  /\ FieldsOK(o, P) /\ HeadOK(o, P, I)
           /\ o.spans = w.spans /\ o.from = w.from /\ o.moment = w.moment
           /\ o.failed = w.failed
           /\ w.spans # <<>> => o.at = "ask"
           /\ w.spans = <<>> => o.at = "finish"
<1>1. w.spans \in Seq(SpanSet) /\ DOMAIN w = WalkFields
    BY DEF FieldsOK
<1>2. CASE w.spans = <<>>
    <2>1. o = [w EXCEPT !.at = "finish"]
        BY <1>2 DEF OpenSpan
    <2>2. /\ DOMAIN o = WalkFields /\ o.at = "finish"
          /\ o.spans = w.spans /\ o.from = w.from /\ o.moment = w.moment
          /\ o.page = w.page /\ o.seen = w.seen /\ o.start = w.start
          /\ o.width = w.width /\ o.cursor = w.cursor /\ o.reach = w.reach
          /\ o.batch = w.batch /\ o.frontier = w.frontier /\ o.failed = w.failed
        BY <1>1, <2>1 DEF WalkFields
    <2>3. FieldsOK(o, P)
        BY <2>2 DEF FieldsOK
    <2>4. QED BY <1>2, <2>2, <2>3 DEF HeadOK, AtAHead
<1>3. CASE w.spans # <<>>
    <2>1. Head(w.spans) \in SpanSet
        BY <1>1, <1>3, HeadIs
    <2>2. PICK e \in Int : e = Head(w.spans).before
        BY <2>1 DEF SpanSet
    <2>3. PICK v : v = [w EXCEPT !.batch = {}, !.seen = {}, !.frontier = e]
        OBVIOUS
    <2>4. /\ DOMAIN v = WalkFields /\ v.at = w.at
          /\ v.spans = w.spans /\ v.from = w.from /\ v.moment = w.moment
          /\ v.page = w.page /\ v.start = w.start
          /\ v.width = w.width /\ v.cursor = w.cursor /\ v.reach = w.reach
          /\ v.batch = {} /\ v.seen = {} /\ v.frontier = e /\ v.failed = w.failed
        BY <1>1, <2>3 DEF WalkFields
    <2>5. FieldsOK(v, P)
        BY <2>2, <2>4 DEF FieldsOK
    <2>6. o = OpenWindow(v, e, Window)
        BY <1>3, <2>2, <2>3 DEF OpenSpan
    <2>7. Window \in Int /\ v.spans # <<>>
        BY <1>3, <2>4, RedditConstants
    <2>8. /\ FieldsOK(o, P) /\ o.at = "ask" /\ o.cursor = e
          /\ o.spans = v.spans /\ o.from = v.from /\ o.moment = v.moment
          /\ o.batch = v.batch /\ o.frontier = v.frontier /\ o.failed = v.failed
          /\ o.seen = v.seen
        BY <2>5, <2>6, <2>7, OpensWindow
    <2>9. \A p \in Missing(o, P, I) : At(p) <= e
        BY <2>2, <2>4, <2>8 DEF Missing, Sayable, Timed
    <2>10. HeadOK(o, P, I)
        BY <1>3, <2>4, <2>8, <2>9 DEF HeadOK, AtAHead, AskOK
    <2>11. QED BY <1>3, <2>4, <2>8, <2>10
<1>4. QED BY <1>2, <1>3

\* The span at hand is left for good: what was asked for first is had, or the pass failed.
LEMMA LeavesKeeps ==
    ASSUME NEW w, NEW P, NEW I, FieldsOK(w, P), Timed(P), w.spans # <<>>,
           w.failed \/ Sayable(P, w.from, w.moment) \subseteq I,
           NEW o, o = LeaveSpan(w)
    PROVE  GoodWalk(o, P, I)
<1>1. w.spans \in Seq(SpanSet) /\ DOMAIN w = WalkFields
    BY DEF FieldsOK
<1>2. PICK v : v = [w EXCEPT !.spans = Tail(@)]
    OBVIOUS
<1>3. /\ DOMAIN v = WalkFields /\ v.spans = Tail(w.spans)
      /\ v.from = w.from /\ v.moment = w.moment
      /\ v.page = w.page /\ v.seen = w.seen /\ v.start = w.start
      /\ v.width = w.width /\ v.cursor = w.cursor /\ v.reach = w.reach
      /\ v.batch = w.batch /\ v.frontier = w.frontier /\ v.failed = w.failed
    BY <1>1, <1>2 DEF WalkFields
<1>4. Tail(w.spans) \in Seq(SpanSet)
    BY <1>1, HeadIs
<1>5. FieldsOK(v, P)
    BY <1>3, <1>4 DEF FieldsOK
<1>6. o = OpenSpan(v)
    BY <1>2 DEF LeaveSpan
<1>7. /\ FieldsOK(o, P) /\ HeadOK(o, P, I)
      /\ o.from = v.from /\ o.moment = v.moment /\ o.failed = v.failed
    BY <1>5, <1>6, OpensSpan
<1>8. FirstOK(o, P, I)
    BY <1>3, <1>7 DEF FirstOK
<1>9. QED BY <1>7, <1>8 DEF GoodWalk

\* What a step at the head of a walk leaves as it was.
SameSpan(w, o) ==
    /\ AtAHead(w) /\ AtAHead(o)
    /\ o.spans = w.spans /\ o.from = w.from /\ o.moment = w.moment /\ o.failed = w.failed

LEMMA FirstStays ==
    ASSUME NEW w, NEW P, NEW I, FirstOK(w, P, I), NEW o, NEW J, I \subseteq J, SameSpan(w, o)
    PROVE  FirstOK(o, P, J)
BY DEF FirstOK, SameSpan

-----------------------------------------------------------------------------
(* One lemma for each thing a pass does.                                   *)

\* A request that is refused is made again, of less, or interrupts the span.
LEMMA RefusalKeeps ==
    ASSUME RedditInv, TimedOut \/ Refused
    PROVE  RedditInv'
<1>1. walk.at = "ask" /\ walk # NoWalk /\ UNCHANGED <<time, posted, items, gaps>>
    BY DEF TimedOut, Refused, NoWalk
<1>2. /\ FieldsOK(walk, posted) /\ HeadOK(walk, posted, items)
      /\ FirstOK(walk, posted, items)
    BY <1>1, WalkIsGood
<1>3. DOMAIN walk = WalkFields /\ walk.reach \in Int
    BY <1>2 DEF FieldsOK
<1>4. PICK m \in Int : m = Max({MinReach, walk.reach \div 2})
    <2>1. PICK h \in Int : h = walk.reach \div 2
        BY <1>3
    <2>2. QED BY <2>1, RedditConstants, MaxAndMinOfTwo
<1>5. \/ walk' = [walk EXCEPT !.tries = @ + 1]
      \/ walk' = [walk EXCEPT !.at = "except"]
      \/ walk' = [walk EXCEPT !.reach = m, !.clean = 0, !.tries = 0]
    BY <1>4 DEF TimedOut, Refused
<1>6. /\ DOMAIN walk' = WalkFields /\ walk'.at \in {"ask", "except"} /\ walk'.reach \in Int
      /\ walk'.spans = walk.spans /\ walk'.from = walk.from /\ walk'.moment = walk.moment
      /\ walk'.page = walk.page /\ walk'.seen = walk.seen /\ walk'.start = walk.start
      /\ walk'.width = walk.width /\ walk'.cursor = walk.cursor
      /\ walk'.batch = walk.batch /\ walk'.frontier = walk.frontier
      /\ walk'.failed = walk.failed
    BY <1>1, <1>3, <1>5 DEF WalkFields
<1>7. FieldsOK(walk', posted)
    BY <1>2, <1>6 DEF FieldsOK
<1>8. HeadOK(walk', posted, items)
    BY <1>1, <1>2, <1>6 DEF HeadOK, AtAHead, AskOK, Missing
<1>9. FirstOK(walk', posted, items)
    <2>1. SameSpan(walk, walk')
        BY <1>1, <1>6 DEF SameSpan, AtAHead
    <2>2. QED BY <1>2, <2>1, FirstStays
<1>10. GoodWalk(walk', posted, items)
    BY <1>7, <1>8, <1>9 DEF GoodWalk
<1>11. QED BY <1>1, <1>10, InvAgain DEF RedditInv

\* What a page says: the newest that is held, all of it when it is short.
LEMMA PageIs ==
    ASSUME NEW held, IsFiniteSet(held), NEW page \in PagesOf(held)
    PROVE  /\ page \subseteq held /\ \A p \in page, q \in held \ page : At(q) <= At(p)
           /\ Cardinality(held) < Page => page = held
           /\ ~(Cardinality(held) < Page) => Cardinality(page) = Page
<1>1. PICK n \in Nat : n = Cardinality(held)
    BY FS_CardinalityType
<1>2. Page \in Nat
    BY RedditConstants
<1>3. Min({Page, n}) = IF Page <= n THEN Page ELSE n
    BY <1>2, MaxAndMinOfTwo
<1>4. /\ page \in SUBSET held /\ Cardinality(page) = Min({Page, Cardinality(held)})
      /\ \A p \in page, q \in held \ page : At(q) <= At(p)
    BY DEF PagesOf
<1>5. ASSUME n < Page PROVE page = held
    <2>1. Cardinality(page) = Cardinality(held)
        BY <1>1, <1>2, <1>3, <1>4, <1>5
    <2>2. QED BY <1>4, <2>1, FS_Subset
<1>6. QED BY <1>1, <1>2, <1>3, <1>4, <1>5

\* A full page that is all of one second is all of what is posted in it.
LEMMA SecondIsWhole ==
    ASSUME NEW P, IsFiniteSet(P), NEW page \in SUBSET P, NEW t, Cardinality(page) = Page,
           \A q \in page : At(q) = t,
           NEW p \in P, At(p) = t, ~(Cardinality({q \in P : At(q) = At(p)}) > Page)
    PROVE  p \in page
<1>1. PICK same : same = {q \in P : At(q) = t}
    OBVIOUS
<1>2. same \in SUBSET P /\ page \in SUBSET same
    BY <1>1
<1>3. IsFiniteSet(same) /\ Cardinality(same) \in Nat
    BY <1>2, FS_Subset, FS_CardinalityType
<1>4. Cardinality(page) <= Cardinality(same)
    BY <1>2, <1>3, FS_Subset
<1>5. ~(Cardinality(same) > Page)
    BY <1>1
<1>6. Cardinality(same) = Cardinality(page)
    BY <1>3, <1>4, <1>5, RedditConstants
<1>7. same = page
    BY <1>2, <1>3, <1>6, FS_Subset
<1>8. QED BY <1>1, <1>7

LEMMA AnsweredKeeps ==
    ASSUME RedditInv, Answered
    PROVE  RedditInv'
<1>1. walk.at = "ask" /\ walk # NoWalk /\ UNCHANGED <<time, posted, items, gaps>>
    BY DEF Answered, NoWalk
<1>2. /\ FieldsOK(walk, posted) /\ HeadOK(walk, posted, items)
      /\ FirstOK(walk, posted, items)
    BY <1>1, WalkIsGood
<1>3. AskOK(walk, posted, items) /\ walk.spans # <<>>
    BY <1>1, <1>2 DEF HeadOK, AtAHead
<1>4. PICK cursor \in Int : cursor = walk.cursor
    BY <1>2 DEF FieldsOK
<1>5. PICK floor \in Int : floor = FloorOf(walk)
    <2>1. PICK a \in Int : a = walk.start
        BY <1>2 DEF FieldsOK
    <2>2. PICK b \in Int : b = walk.cursor - walk.reach
        BY <1>2 DEF FieldsOK
    <2>3. QED BY <2>1, <2>2, MaxAndMinOfTwo DEF FloorOf
<1>6. PICK held : held = {p \in posted : Whole(floor) <= At(p) /\ At(p) <= Whole(cursor)}
    OBVIOUS
<1>7. PICK page \in PagesOf(held) :
          walk' = [walk EXCEPT !.at = "page", !.page = page \ walk.seen,
                               !.seen = @ \cup page,
                               !.short = Cardinality(held) < Page, !.tries = 0]
    BY <1>4, <1>5, <1>6 DEF Answered, Floor, FloorOf
<1>8. /\ DOMAIN walk' = WalkFields /\ walk'.at = "page"
      /\ walk'.page = page \ walk.seen /\ walk'.seen = walk.seen \cup page
      /\ walk'.short = (Cardinality(held) < Page)
    <2>1. DOMAIN walk = WalkFields
        BY <1>2 DEF FieldsOK
    <2>2. QED BY <1>7, <2>1 DEF WalkFields
<1>9. /\ walk'.spans = walk.spans /\ walk'.from = walk.from /\ walk'.moment = walk.moment
      /\ walk'.start = walk.start /\ walk'.width = walk.width
      /\ walk'.cursor = walk.cursor /\ walk'.reach = walk.reach
      /\ walk'.batch = walk.batch /\ walk'.frontier = walk.frontier
      /\ walk'.failed = walk.failed
    <2>1. DOMAIN walk = WalkFields
        BY <1>2 DEF FieldsOK
    <2>2. QED BY <1>7, <2>1 DEF WalkFields
<1>10. /\ page \subseteq held /\ \A p \in page, q \in held \ page : At(q) <= At(p)
       /\ Cardinality(held) < Page => page = held
       /\ ~(Cardinality(held) < Page) => Cardinality(page) = Page
    <2>1. IsFiniteSet(held)
        BY <1>6, PostedAre, FS_Subset
    <2>2. QED BY <2>1, PageIs
<1>11. held \subseteq posted
    BY <1>6
<1>12. FieldsOK(walk', posted)
    BY <1>2, <1>8, <1>9, <1>10, <1>11 DEF FieldsOK
<1>13. PICK missing : missing = Missing(walk, posted, items)
    OBVIOUS
<1>14. Missing(walk', posted, items) = missing /\ FloorOf(walk') = floor
    BY <1>5, <1>9, <1>13 DEF Missing, FloorOf
<1>15. \A p \in missing : At(p) <= cursor /\ At(p) <= walk.frontier
    BY <1>3, <1>4, <1>13 DEF AskOK
<1>16. /\ missing \subseteq posted /\ \A p \in missing : p \notin walk.seen
       /\ \A p \in missing : ~(Cardinality({q \in posted : At(q) = At(p)}) > Page)
    BY <1>3, <1>13 DEF AskOK, Missing, Sayable
<1>17. \A p \in posted : At(p) \in Int /\ At(p) % 2 = 0
    BY PostedAre
\* What is missing and not on the page is not held, and then it is earlier, or is earlier.
<1>18. /\ Whole(floor) \in Int /\ Whole(floor) <= floor
       /\ Whole(cursor) \in Int /\ Whole(cursor) <= cursor
    BY WholeIs
<1>19. ASSUME NEW p \in missing \ page
       PROVE  /\ p \notin held => At(p) < Whole(floor)
              /\ \A q \in page : At(p) <= At(q)
    <2>1. At(p) \in Int /\ At(p) % 2 = 0 /\ At(p) <= cursor
        BY <1>15, <1>16, <1>17
    <2>2. At(p) <= Whole(cursor)
        BY <2>1, WholeIs
    <2>3. p \notin held => At(p) < Whole(floor)
        BY <1>6, <1>16, <1>18, <2>1, <2>2
    <2>4. ASSUME NEW q \in page PROVE At(p) <= At(q)
        <3>1. At(q) \in Int /\ Whole(floor) <= At(q)
            BY <1>6, <1>10, <1>17
        <3>2. p \in held => At(p) <= At(q)
            BY <1>10
        <3>3. QED BY <1>18, <2>1, <2>3, <3>1, <3>2
    <2>5. QED BY <2>3, <2>4
<1>20. ASSUME Cardinality(held) < Page, NEW p \in missing \ page
       PROVE  At(p) < floor
    <2>1. p \notin held /\ At(p) \in Int
        BY <1>10, <1>16, <1>17, <1>20
    <2>2. QED BY <1>18, <1>19, <2>1
<1>21. ASSUME ~(Cardinality(held) < Page)
       PROVE  \/ walk.frontier < cursor
              \/ \E q \in page \ walk.seen : At(q) < cursor
              \/ \A p \in missing \ page : At(p) < Whole(cursor)
    <2>1. CASE \E q \in page \cap walk.seen : At(q) < cursor
        <3>1. PICK q \in walk.seen : At(q) < cursor /\ q \in page
            BY <2>1
        <3>2. walk.frontier <= At(q) /\ At(q) \in Int /\ walk.frontier \in Int
            BY <1>2, <1>3, <1>10, <1>11, <1>17, <3>1 DEF AskOK, FieldsOK
        <3>3. QED BY <3>1, <3>2
    <2>2. CASE \E q \in page \ walk.seen : At(q) < cursor
        BY <2>2
    <2>3. CASE \A q \in page : ~(At(q) < cursor)
        <3>1. \A q \in page : At(q) = Whole(cursor)
            <4>1. TAKE q \in page
            <4>2. At(q) \in Int /\ At(q) <= Whole(cursor)
                BY <1>6, <1>10, <1>17
            <4>3. QED BY <1>18, <2>3, <4>2
        <3>2. ASSUME NEW p \in missing \ page, ~(At(p) < Whole(cursor))
              PROVE  FALSE
            <4>1. At(p) \in Int /\ At(p) % 2 = 0 /\ At(p) <= cursor
                BY <1>15, <1>16, <1>17
            <4>2. At(p) = Whole(cursor)
                BY <1>18, <3>2, <4>1, WholeIs
            <4>3. IsFiniteSet(posted) /\ page \in SUBSET posted /\ Cardinality(page) = Page
                BY <1>10, <1>11, <1>21, PostedAre
            <4>4. p \in posted /\ ~(Cardinality({q \in posted : At(q) = At(p)}) > Page)
                BY <1>16
            <4>5. p \in page
                BY <3>1, <4>2, <4>3, <4>4, SecondIsWhole
            <4>6. QED BY <3>2, <4>5
        <3>3. QED BY <3>2
    <2>4. QED BY <2>1, <2>2, <2>3
<1>22. missing \ walk'.page = missing \ page
    BY <1>8, <1>16
<1>23. PageOK(walk', posted, items)
    <2>1. \A p \in missing : At(p) <= walk'.frontier
        BY <1>9, <1>15
    <2>2. walk'.seen \subseteq items \cup walk'.batch \cup walk'.page
        BY <1>3, <1>8, <1>9 DEF AskOK
    <2>3. \A q \in walk'.seen \ walk'.page : walk'.frontier <= At(q)
        BY <1>3, <1>8, <1>9 DEF AskOK
    <2>4. \A p \in missing \ page : \A q \in walk'.page : At(p) <= At(q)
        BY <1>8, <1>19
    <2>5. walk'.short => \A p \in missing \ page : At(p) < floor
        BY <1>8, <1>20
    <2>6. ~walk'.short => \/ walk'.frontier < walk'.cursor
                          \/ \E q \in walk'.page : At(q) < walk'.cursor
                          \/ \A p \in missing \ page : At(p) < Whole(walk'.cursor)
        BY <1>4, <1>8, <1>9, <1>21
    <2>7. QED BY <1>14, <1>22, <2>1, <2>2, <2>3, <2>4, <2>5, <2>6 DEF PageOK
<1>24. HeadOK(walk', posted, items)
    BY <1>3, <1>8, <1>9, <1>23 DEF HeadOK
<1>25. FirstOK(walk', posted, items)
    <2>1. SameSpan(walk, walk')
        BY <1>1, <1>8, <1>9 DEF SameSpan, AtAHead
    <2>2. QED BY <1>2, <2>1, FirstStays
<1>26. GoodWalk(walk', posted, items)
    BY <1>12, <1>24, <1>25 DEF GoodWalk
<1>27. QED BY <1>1, <1>26, InvAgain DEF RedditInv


\* What is batched is banked.
LEMMA BankedIsGood ==
    ASSUME NEW w, NEW P, NEW I, GoodWalk(w, P, I), w.at \in {"page", "bank"}, NEW stored,
           NEW o, o = [w EXCEPT !.batch = {}, !.stored = stored], NEW J, J = I \cup w.batch
    PROVE  GoodWalk(o, P, J) /\ o.spans = w.spans
<1>1. FieldsOK(w, P) /\ HeadOK(w, P, I) /\ FirstOK(w, P, I) /\ DOMAIN w = WalkFields
    BY DEF GoodWalk, FieldsOK
<1>2. /\ DOMAIN o = WalkFields /\ o.at = w.at /\ o.batch = {}
      /\ o.spans = w.spans /\ o.from = w.from /\ o.moment = w.moment
      /\ o.page = w.page /\ o.seen = w.seen /\ o.start = w.start
    BY <1>1 DEF WalkFields
<1>3. /\ o.width = w.width /\ o.cursor = w.cursor /\ o.reach = w.reach
      /\ o.short = w.short /\ o.frontier = w.frontier /\ o.failed = w.failed
    BY <1>1 DEF WalkFields
<1>4. FieldsOK(o, P)
    BY <1>1, <1>2, <1>3 DEF FieldsOK
<1>5. Missing(o, P, J) = Missing(w, P, I) /\ FloorOf(o) = FloorOf(w)
      /\ I \cup w.batch = J \cup o.batch
    BY <1>2, <1>3 DEF Missing, FloorOf
<1>6. HeadOK(o, P, J)
    <2>1. o.spans # <<>> /\ (o.at = "bank" => Missing(o, P, J) = {})
        BY <1>1, <1>2, <1>5 DEF HeadOK, AtAHead
    <2>2. ASSUME w.at = "page" PROVE PageOK(o, P, J)
        <3>1. PageOK(w, P, I)
            BY <1>1, <2>2 DEF HeadOK
        <3>2. QED BY <1>2, <1>3, <1>5, <3>1 DEF PageOK
    <2>3. QED BY <1>2, <2>1, <2>2 DEF HeadOK
<1>7. FirstOK(o, P, J)
    <2>1. SameSpan(w, o)
        BY <1>2, <1>3 DEF SameSpan, AtAHead
    <2>2. QED BY <1>1, <2>1, FirstStays
<1>8. QED BY <1>2, <1>4, <1>6, <1>7 DEF GoodWalk

\* The batch cannot be banked: the span is interrupted with it in hand.
LEMMA UnsavedIsGood ==
    ASSUME NEW w, NEW P, NEW I, GoodWalk(w, P, I), w.at \in {"page", "bank"},
           NEW o, o = [w EXCEPT !.at = "except"]
    PROVE  GoodWalk(o, P, I)
<1>1. FieldsOK(w, P) /\ HeadOK(w, P, I) /\ FirstOK(w, P, I) /\ DOMAIN w = WalkFields
    BY DEF GoodWalk, FieldsOK
<1>2. /\ DOMAIN o = WalkFields /\ o.at = "except" /\ o.batch = w.batch
      /\ o.spans = w.spans /\ o.from = w.from /\ o.moment = w.moment
      /\ o.page = w.page /\ o.seen = w.seen /\ o.start = w.start
    BY <1>1 DEF WalkFields
<1>3. /\ o.width = w.width /\ o.cursor = w.cursor /\ o.reach = w.reach
      /\ o.short = w.short /\ o.frontier = w.frontier /\ o.failed = w.failed
    BY <1>1 DEF WalkFields
<1>4. FieldsOK(o, P)
    BY <1>1, <1>2, <1>3 DEF FieldsOK
<1>5. HeadOK(o, P, I)
    BY <1>1, <1>2 DEF HeadOK, AtAHead
<1>6. FirstOK(o, P, I)
    <2>1. SameSpan(w, o)
        BY <1>2, <1>3 DEF SameSpan, AtAHead
    <2>2. QED BY <1>1, <2>1, FirstStays
<1>7. QED BY <1>4, <1>5, <1>6 DEF GoodWalk

\* The newest item of a page is taken.
LEMMA YieldedIsGood ==
    ASSUME NEW w, NEW P, NEW I, GoodWalk(w, P, I), Timed(P), w.at = "page",
           NEW p \in w.page, \A q \in w.page : At(q) <= At(p),
           NEW o, o = [w EXCEPT !.page = @ \ {p}, !.batch = @ \cup {p},
                                !.frontier = Min({@, At(p)})]
    PROVE  GoodWalk(o, P, I) /\ o.at = "page"
<1>1. /\ FieldsOK(w, P) /\ HeadOK(w, P, I) /\ FirstOK(w, P, I) /\ DOMAIN w = WalkFields
      /\ w.page \subseteq P
    BY DEF GoodWalk, FieldsOK
<1>2. PageOK(w, P, I) /\ w.spans # <<>>
    BY <1>1 DEF HeadOK, AtAHead
<1>3. PICK f \in Int : f = w.frontier
    BY <1>1 DEF FieldsOK
<1>4. PICK a \in Int : a = At(p)
    BY <1>1 DEF Timed
<1>5. PICK m \in Int : m = Min({f, a}) /\ m <= f /\ m <= a /\ (m = f \/ m = a)
    BY MaxAndMinOfTwo
<1>6. /\ DOMAIN o = WalkFields /\ o.at = w.at
      /\ o.page = w.page \ {p} /\ o.batch = w.batch \cup {p} /\ o.frontier = m
    BY <1>1, <1>3, <1>4, <1>5 DEF WalkFields
<1>7. /\ o.spans = w.spans /\ o.from = w.from /\ o.moment = w.moment
      /\ o.seen = w.seen /\ o.start = w.start
      /\ o.width = w.width /\ o.cursor = w.cursor /\ o.reach = w.reach
      /\ o.short = w.short /\ o.failed = w.failed
    BY <1>1 DEF WalkFields
<1>8. FieldsOK(o, P)
    BY <1>1, <1>6, <1>7 DEF FieldsOK
<1>9. PICK before : before = Missing(w, P, I)
    OBVIOUS
<1>10. PICK after : after = Missing(o, P, I)
    OBVIOUS
<1>11. after = before \ {p} /\ after \ o.page = before \ w.page /\ before \subseteq P
    BY <1>6, <1>7, <1>9, <1>10 DEF Missing, Sayable
<1>12. FloorOf(o) = FloorOf(w)
    BY <1>7 DEF FloorOf
<1>13. PageOK(o, P, I)
    <2>1. ASSUME NEW q \in after PROVE At(q) <= o.frontier
        <3>1. At(q) \in Int /\ At(q) <= f
            BY <1>2, <1>3, <1>9, <1>11 DEF PageOK, Timed
        <3>2. At(q) <= a
            <4>1. CASE q \in w.page
                BY <1>4, <4>1
            <4>2. CASE q \notin w.page
                BY <1>2, <1>4, <1>9, <1>11, <4>2 DEF PageOK
            <4>3. QED BY <4>1, <4>2
        <3>3. QED BY <1>5, <1>6, <3>1, <3>2
    <2>2. o.seen \subseteq I \cup o.batch \cup o.page
        BY <1>2, <1>6, <1>7 DEF PageOK
    <2>3. ASSUME NEW q \in o.seen \ o.page PROVE o.frontier <= At(q)
        <3>1. CASE q = p
            BY <1>4, <1>5, <1>6, <3>1
        <3>2. CASE q # p
            <4>1. q \in w.seen \ w.page
                BY <1>6, <1>7, <3>2
            <4>2. f <= At(q) /\ At(q) \in Int
                BY <1>1, <1>2, <1>3, <4>1 DEF PageOK, FieldsOK, Timed
            <4>3. QED BY <1>5, <1>6, <4>2
        <3>3. QED BY <3>1, <3>2
    <2>4. \A q \in after \ o.page : \A r \in o.page : At(q) <= At(r)
        BY <1>2, <1>6, <1>9, <1>11 DEF PageOK
    <2>5. o.short => \A q \in after \ o.page : At(q) < FloorOf(o)
        BY <1>2, <1>7, <1>9, <1>11, <1>12 DEF PageOK
    <2>6. ~o.short => \/ o.frontier < o.cursor
                      \/ \E q \in o.page : At(q) < o.cursor
                      \/ \A q \in after \ o.page : At(q) < Whole(o.cursor)
        <3>1. SUFFICES ASSUME ~o.short
                       PROVE  \/ o.frontier < o.cursor
                              \/ \E q \in o.page : At(q) < o.cursor
                              \/ \A q \in after \ o.page : At(q) < Whole(o.cursor)
            OBVIOUS
        <3>2. PICK c \in Int : c = w.cursor /\ c = o.cursor
            BY <1>1, <1>7 DEF FieldsOK
        <3>3. \/ f < c \/ \E q \in w.page : At(q) < c
              \/ \A q \in before \ w.page : At(q) < Whole(c)
            BY <1>2, <1>3, <1>7, <1>9, <3>1, <3>2 DEF PageOK
        <3>4. CASE f < c
            BY <1>5, <1>6, <3>2, <3>4
        <3>5. CASE \E q \in w.page : At(q) < c
            <4>1. PICK q \in w.page : At(q) < c
                BY <3>5
            <4>2. CASE q = p
                BY <1>4, <1>5, <1>6, <3>2, <4>1, <4>2
            <4>3. CASE q # p
                BY <1>6, <3>2, <4>1, <4>3
            <4>4. QED BY <4>2, <4>3
        <3>6. CASE \A q \in before \ w.page : At(q) < Whole(c)
            BY <1>11, <3>2, <3>6
        <3>7. QED BY <3>3, <3>4, <3>5, <3>6
    <2>7. QED BY <1>10, <2>1, <2>2, <2>3, <2>4, <2>5, <2>6 DEF PageOK
<1>14. HeadOK(o, P, I)
    BY <1>2, <1>6, <1>7, <1>13 DEF HeadOK
<1>15. FirstOK(o, P, I)
    <2>1. SameSpan(w, o)
        BY <1>6, <1>7 DEF SameSpan, AtAHead
    <2>2. QED BY <1>1, <2>1, FirstStays
<1>16. QED BY <1>6, <1>8, <1>14, <1>15 DEF GoodWalk

LEMMA TimedPosted == RedditInv => Timed(posted)
BY PostedAre DEF Timed

LEMMA YieldsKeeps ==
    ASSUME RedditInv, Yields
    PROVE  RedditInv'
<1>1. walk.at = "page" /\ walk # NoWalk /\ UNCHANGED <<time, posted, gaps>>
    BY DEF Yields, NoWalk
<1>2. GoodWalk(walk, posted, items) /\ Timed(posted) /\ items \subseteq posted
    BY <1>1, WalkIsGood, TimedPosted
<1>3. PICK p \in walk.page :
          /\ \A q \in walk.page : At(q) <= At(p)
          /\ LET w == [walk EXCEPT !.page = @ \ {p}, !.batch = @ \cup {p},
                                   !.frontier = Min({@, At(p)})]
             IN  IF Cardinality(w.batch) < BankAt
                 THEN walk' = w /\ UNCHANGED <<items, trouble, lost>>
                 ELSE Banks(w) \/ Unsaved(w)
    BY DEF Yields
<1>4. PICK w : w = [walk EXCEPT !.page = @ \ {p}, !.batch = @ \cup {p},
                                !.frontier = Min({@, At(p)})]
    OBVIOUS
<1>5. GoodWalk(w, posted, items) /\ w.at = "page"
    BY <1>1, <1>2, <1>3, <1>4, YieldedIsGood
<1>6. \/ walk' = w /\ items' = items
      \/ walk' = [w EXCEPT !.batch = {}, !.stored = w.stored \/ ~(w.batch \subseteq items)]
            /\ items' = items \cup w.batch
      \/ walk' = [w EXCEPT !.at = "except"] /\ items' = items
    BY <1>3, <1>4 DEF Banks, Unsaved
<1>7. GoodWalk(walk', posted, items') /\ items' \subseteq posted
    <2>1. w.batch \subseteq posted
        BY <1>5 DEF GoodWalk, FieldsOK
    <2>2. CASE walk' = w /\ items' = items
        BY <1>2, <1>5, <2>2
    <2>3. CASE walk' = [w EXCEPT !.at = "except"] /\ items' = items
        BY <1>2, <1>5, <2>3, UnsavedIsGood
    <2>4. CASE /\ walk' = [w EXCEPT !.batch = {},
                                    !.stored = w.stored \/ ~(w.batch \subseteq items)]
               /\ items' = items \cup w.batch
        <3>1. PICK stored : stored = (w.stored \/ ~(w.batch \subseteq items))
            OBVIOUS
        <3>2. walk' = [w EXCEPT !.batch = {}, !.stored = stored]
            BY <2>4, <3>1
        <3>3. GoodWalk(walk', posted, items')
            BY <1>5, <2>4, <3>2, BankedIsGood
        <3>4. QED BY <1>2, <2>1, <2>4, <3>3
    <2>5. QED BY <1>6, <2>2, <2>3, <2>4
<1>8. QED BY <1>1, <1>7, InvAgain DEF RedditInv

\* What is left of a page that is used up lies no later than where it steps to.
LEMMA StepsDown ==
    ASSUME NEW w, NEW P, NEW I, GoodWalk(w, P, I), Timed(P),
           \A p \in P : At(p) % 2 = 0, w.at = "page", w.page = {},
           NEW c, c = IF w.short THEN FloorOf(w)
                      ELSE IF w.frontier >= w.cursor THEN Whole(w.cursor) - Second
                      ELSE w.frontier
    PROVE  c \in Int /\ \A p \in Missing(w, P, I) : At(p) <= c
<1>1. FieldsOK(w, P) /\ PageOK(w, P, I)
    BY DEF GoodWalk, HeadOK
<1>2. PICK f \in Int : f = w.frontier
    BY <1>1 DEF FieldsOK
<1>3. PICK k \in Int : k = w.cursor
    BY <1>1 DEF FieldsOK
<1>4. PICK floor \in Int : floor = FloorOf(w)
    <2>1. PICK a \in Int : a = w.start
        BY <1>1 DEF FieldsOK
    <2>2. PICK b \in Int : b = w.cursor - w.reach
        BY <1>1 DEF FieldsOK
    <2>3. QED BY <2>1, <2>2, MaxAndMinOfTwo DEF FloorOf
<1>5. Whole(k) \in Int
    BY WholeIs
<1>6. c \in Int
    BY <1>2, <1>3, <1>4, <1>5 DEF Second
<1>7. ASSUME NEW p \in Missing(w, P, I) PROVE At(p) <= c
    <2>1. p \in P /\ At(p) \in Int /\ At(p) % 2 = 0
        BY DEF Missing, Sayable, Timed
    <2>2. CASE w.short
        BY <1>1, <1>4, <2>1, <2>2 DEF PageOK
    <2>3. CASE ~w.short /\ f < k
        BY <1>1, <1>2, <1>3, <2>1, <2>3 DEF PageOK
    <2>4. CASE ~w.short /\ f >= k
        <3>1. At(p) < Whole(k)
            BY <1>1, <1>2, <1>3, <2>4 DEF PageOK
        <3>2. At(p) <= Whole(k) - Second
            BY <2>1, <3>1, WholeIs
        <3>3. QED BY <1>2, <1>3, <2>4, <3>2
    <2>5. QED BY <2>2, <2>3, <2>4
<1>8. QED BY <1>6, <1>7

LEMMA TurnsKeeps ==
    ASSUME RedditInv, Turns
    PROVE  RedditInv'
<1>1. /\ walk.at = "page" /\ walk.page = {} /\ walk # NoWalk
      /\ UNCHANGED <<time, posted, items, gaps>>
    BY DEF Turns, NoWalk
<1>2. GoodWalk(walk, posted, items) /\ FieldsOK(walk, posted) /\ FirstOK(walk, posted, items)
    BY <1>1, WalkIsGood
<1>3. PageOK(walk, posted, items) /\ walk.spans # <<>> /\ DOMAIN walk = WalkFields
    BY <1>1, <1>2 DEF GoodWalk, HeadOK, AtAHead, FieldsOK
<1>4. PICK c : c = IF walk.short THEN FloorOf(walk)
                   ELSE IF walk.frontier >= walk.cursor THEN Whole(walk.cursor) - Second
                   ELSE walk.frontier
    OBVIOUS
<1>5. c \in Int /\ \A p \in Missing(walk, posted, items) : At(p) <= c
    <2>1. \A p \in posted : At(p) % 2 = 0
        BY PostedAre
    <2>2. QED BY <1>1, <1>2, <1>4, <2>1, TimedPosted, StepsDown
<1>6. PICK reach \in Int : \E clean :
          Stepped = [walk EXCEPT !.at = "ask", !.cursor = c, !.clean = clean, !.reach = reach]
    <2>1. PICK r \in Int : r = walk.reach
        BY <1>2 DEF FieldsOK
    <2>2. PICK w \in Int : w = walk.width
        BY <1>2 DEF FieldsOK
    <2>3. PICK b \in Int : b = 2 * r
        OBVIOUS
    <2>4. PICK m \in Int : m = Min({w, b})
        BY MaxAndMinOfTwo
    <2>5. \E clean, reach : /\ reach = r \/ reach = m
                            /\ Stepped = [walk EXCEPT !.at = "ask", !.cursor = c,
                                                      !.clean = clean, !.reach = reach]
        <3>1. PICK widens \in BOOLEAN :
                  widens = (walk.clean + 1 >= WidenAfter /\ walk.reach < walk.width)
            BY Zenon
        <3>2. PICK clean : clean = IF widens THEN 0 ELSE walk.clean + 1
            OBVIOUS
        <3>3. PICK reach : reach = IF widens THEN m ELSE r
            OBVIOUS
        <3>4. Stepped = [walk EXCEPT !.at = "ask", !.cursor = c,
                                     !.clean = clean, !.reach = reach]
            BY <1>4, <2>1, <2>2, <2>3, <2>4, <3>1, <3>2, <3>3 DEF Stepped, Floor, FloorOf
        <3>5. QED BY <3>3, <3>4
    <2>6. QED BY <2>5
<1>7. PICK stepped : stepped = Stepped
    OBVIOUS
<1>8. /\ DOMAIN stepped = WalkFields /\ stepped.at = "ask" /\ stepped.cursor = c
      /\ stepped.reach = reach
      /\ stepped.spans = walk.spans /\ stepped.from = walk.from
      /\ stepped.moment = walk.moment /\ stepped.page = walk.page
      /\ stepped.seen = walk.seen /\ stepped.start = walk.start
      /\ stepped.width = walk.width /\ stepped.batch = walk.batch
      /\ stepped.frontier = walk.frontier /\ stepped.failed = walk.failed
    <2>1. PICK clean : stepped = [walk EXCEPT !.at = "ask", !.cursor = c, !.clean = clean,
                                              !.reach = reach]
        BY <1>6, <1>7
    <2>2. /\ DOMAIN stepped = WalkFields /\ stepped.at = "ask" /\ stepped.cursor = c
          /\ stepped.reach = reach
          /\ stepped.spans = walk.spans /\ stepped.from = walk.from
          /\ stepped.moment = walk.moment /\ stepped.page = walk.page
        BY <1>3, <2>1 DEF WalkFields
    <2>3. /\ stepped.seen = walk.seen /\ stepped.start = walk.start
          /\ stepped.width = walk.width /\ stepped.batch = walk.batch
          /\ stepped.frontier = walk.frontier /\ stepped.failed = walk.failed
        BY <1>3, <2>1 DEF WalkFields
    <2>4. QED BY <2>2, <2>3
<1>9. PICK start \in Int : start = walk.start
    BY <1>2 DEF FieldsOK
<1>10. PICK missing : missing = Missing(walk, posted, items)
    OBVIOUS
<1>11. /\ \A p \in missing : At(p) \in Int /\ At(p) <= c /\ At(p) <= walk.frontier
       /\ walk.seen \subseteq items \cup walk.batch
       /\ \A q \in walk.seen : walk.frontier <= At(q)
    <2>1. missing \subseteq posted /\ Timed(posted)
        BY <1>10, TimedPosted DEF Missing, Sayable
    <2>2. QED BY <1>1, <1>3, <1>5, <1>10, <2>1 DEF PageOK, Timed
\* What is common to a step and to the next window.
<1>12. ASSUME NEW o, FieldsOK(o, posted), o.at = "ask", o.spans = walk.spans,
              o.from = walk.from, o.moment = walk.moment, o.batch = walk.batch,
              o.frontier = walk.frontier, o.failed = walk.failed, o.seen = walk.seen,
              o.cursor \in Int, c <= o.cursor
       PROVE  GoodWalk(o, posted, items)
    <2>1. Missing(o, posted, items) = missing
        BY <1>10, <1>12 DEF Missing
    <2>2. \A p \in missing : At(p) <= o.cursor
        BY <1>5, <1>11, <1>12
    <2>3. AskOK(o, posted, items)
        BY <1>11, <1>12, <2>1, <2>2 DEF AskOK
    <2>4. HeadOK(o, posted, items)
        BY <1>3, <1>12, <2>3 DEF HeadOK
    <2>5. SameSpan(walk, o)
        BY <1>1, <1>12 DEF SameSpan, AtAHead
    <2>6. FirstOK(o, posted, items)
        BY <1>2, <2>5, FirstStays
    <2>7. QED BY <1>12, <2>4, <2>6 DEF GoodWalk
<1>13. CASE Stepped.cursor > walk.start
    <2>1. walk' = stepped
        BY <1>7, <1>13 DEF Turns
    <2>2. FieldsOK(stepped, posted)
        BY <1>2, <1>5, <1>8 DEF FieldsOK
    <2>3. GoodWalk(stepped, posted, items)
        BY <1>5, <1>8, <1>12, <2>2
    <2>4. QED BY <1>1, <2>1, <2>3, InvAgain DEF RedditInv
<1>14. CASE ~(Stepped.cursor > walk.start) /\ walk.start > Head(walk.spans).after
    <2>1. c <= start
        BY <1>5, <1>7, <1>8, <1>9, <1>14
    <2>2. walk' = OpenWindow(walk, start, ReachAfter)
        BY <1>9, <1>14 DEF Turns
    <2>3. PICK r \in Int : r = ReachAfter
        BY <1>2, <1>7, <1>8 DEF ReachAfter, FieldsOK
    <2>4. PICK o : o = OpenWindow(walk, start, r)
        OBVIOUS
    <2>5. /\ FieldsOK(o, posted) /\ o.at = "ask" /\ o.cursor = start
          /\ o.spans = walk.spans /\ o.from = walk.from /\ o.moment = walk.moment
          /\ o.batch = walk.batch /\ o.frontier = walk.frontier /\ o.failed = walk.failed
          /\ o.seen = walk.seen
        BY <1>2, <1>3, <2>4, OpensWindow
    <2>6. GoodWalk(o, posted, items)
        BY <1>12, <2>1, <2>5
    <2>7. walk' = o
        BY <2>2, <2>3, <2>4
    <2>8. QED BY <1>1, <2>6, <2>7, InvAgain DEF RedditInv
<1>15. CASE ~(Stepped.cursor > walk.start) /\ ~(walk.start > Head(walk.spans).after)
    <2>1. c <= start
        BY <1>5, <1>7, <1>8, <1>9, <1>15
    <2>2. walk' = [walk EXCEPT !.at = "bank"]
        BY <1>15 DEF Turns
    <2>3. /\ DOMAIN walk' = WalkFields /\ walk'.at = "bank"
          /\ walk'.spans = walk.spans /\ walk'.from = walk.from
          /\ walk'.moment = walk.moment /\ walk'.page = walk.page
          /\ walk'.seen = walk.seen /\ walk'.start = walk.start
        BY <1>3, <2>2 DEF WalkFields
    <2>4. /\ walk'.width = walk.width /\ walk'.batch = walk.batch
          /\ walk'.cursor = walk.cursor /\ walk'.reach = walk.reach
          /\ walk'.frontier = walk.frontier /\ walk'.failed = walk.failed
        BY <1>3, <2>2 DEF WalkFields
    <2>5. FieldsOK(walk', posted)
        BY <1>2, <2>3, <2>4 DEF FieldsOK
    <2>6. missing = {}
        <3>1. PICK a \in Int : a = Head(walk.spans).after
            <4>1. Head(walk.spans) \in SpanSet
                BY <1>2, <1>3, HeadIs DEF FieldsOK
            <4>2. QED BY <4>1 DEF SpanSet
        <3>2. start <= a
            BY <1>9, <1>15, <3>1
        <3>3. \A p \in missing : a < At(p)
            BY <1>10, <3>1 DEF Missing, Sayable
        <3>4. QED BY <1>5, <1>11, <2>1, <3>2, <3>3
    <2>7. Missing(walk', posted, items) = {}
        BY <1>10, <2>3, <2>4, <2>6 DEF Missing
    <2>8. HeadOK(walk', posted, items)
        BY <1>3, <2>3, <2>7 DEF HeadOK
    <2>9. SameSpan(walk, walk')
        BY <1>1, <2>3, <2>4 DEF SameSpan, AtAHead
    <2>10. FirstOK(walk', posted, items)
        BY <1>2, <2>9, FirstStays
    <2>11. GoodWalk(walk', posted, items)
        BY <2>5, <2>8, <2>10 DEF GoodWalk
    <2>12. QED BY <1>1, <2>11, InvAgain DEF RedditInv
<1>16. QED BY <1>13, <1>14, <1>15


-----------------------------------------------------------------------------
(* The end of a span, and what is written down of it.                      *)

\* The table of gaps stays a finite one of pairs of instants.
GapsOK(G) == IsFiniteSet(G) /\ G \subseteq Int \X Int

LEMMA RecordsOne ==
    ASSUME RedditInv, NEW a \in Int, NEW b \in Int
    PROVE  GapsOK(DOMAIN RecordGap(a, b))
<1>1. IsFiniteSet(DOMAIN gaps) /\ DOMAIN gaps \subseteq Int \X Int
    BY DEF RedditInv
<1>2. PICK key : key = <<a, b>>
    OBVIOUS
<1>3. key \in Int \X Int
    BY <1>2
<1>4. CASE DOMAIN RecordGap(a, b) = DOMAIN gaps
    BY <1>1, <1>4 DEF GapsOK
<1>5. CASE DOMAIN RecordGap(a, b) = DOMAIN gaps \cup {key}
    <2>1. IsFiniteSet(DOMAIN gaps \cup {key})
        BY <1>1, FS_AddElement
    <2>2. QED BY <1>1, <1>3, <1>5, <2>1 DEF GapsOK
<1>6. CASE b <= a
    BY <1>4, <1>6 DEF RecordGap
<1>7. CASE ~(b <= a) /\ key \in DOMAIN gaps
    <2>1. RecordGap(a, b) = Bumped(key)
        BY <1>2, <1>7 DEF RecordGap
    <2>2. DOMAIN Bumped(key) = DOMAIN gaps
        BY DEF Bumped
    <2>3. QED BY <1>4, <2>1, <2>2
<1>8. CASE ~(b <= a) /\ key \notin DOMAIN gaps
    <2>1. DOMAIN RecordGap(a, b) = DOMAIN gaps \cup {key}
        BY <1>2, <1>8 DEF RecordGap
    <2>2. QED BY <1>5, <2>1
<1>9. QED BY <1>6, <1>7, <1>8

LEMMA OneGapLess ==
    ASSUME RedditInv, NEW key
    PROVE  GapsOK(DOMAIN Without(key)) /\ GapsOK(DOMAIN Bumped(key)) /\ GapsOK(DOMAIN gaps)
<1>1. IsFiniteSet(DOMAIN gaps) /\ DOMAIN gaps \subseteq Int \X Int
    BY DEF RedditInv
<1>2. DOMAIN Without(key) = DOMAIN gaps \ {key} /\ DOMAIN Bumped(key) = DOMAIN gaps
    BY DEF Without, Bumped
<1>3. IsFiniteSet(DOMAIN gaps \ {key})
    BY <1>1, FS_RemoveElement
<1>4. QED BY <1>1, <1>2, <1>3 DEF GapsOK

LEMMA SpanDoneKeeps ==
    ASSUME RedditInv, SpanDone
    PROVE  RedditInv'
<1>1. walk.at = "bank" /\ walk # NoWalk /\ UNCHANGED <<time, posted>>
    BY DEF SpanDone, NoWalk
<1>2. /\ GoodWalk(walk, posted, items) /\ FieldsOK(walk, posted)
      /\ FirstOK(walk, posted, items) /\ items \subseteq posted /\ GapsOK(DOMAIN gaps)
    BY <1>1, WalkIsGood DEF GapsOK
<1>3. walk.spans # <<>> /\ Missing(walk, posted, items) = {}
    BY <1>1, <1>2 DEF GoodWalk, HeadOK, AtAHead
<1>4. CASE walk.batch = {}
    <2>1. walk' = LeaveSpan(walk) /\ items' = items
        BY <1>4 DEF SpanDone
    <2>2. gaps' = gaps \/ \E key : gaps' = Without(key)
        BY <1>4 DEF SpanDone
    <2>3. walk.failed \/ Sayable(posted, walk.from, walk.moment) \subseteq items
        BY <1>2, <1>3, <1>4 DEF FirstOK, Missing
    <2>4. GoodWalk(walk', posted, items)
        BY <1>2, <1>3, <2>1, <2>3, TimedPosted, LeavesKeeps
    <2>5. GapsOK(DOMAIN gaps')
        BY <2>2, OneGapLess
    <2>6. QED BY <1>1, <1>2, <2>1, <2>4, <2>5, InvAgain DEF RedditInv, GapsOK
<1>5. CASE walk.batch # {}
    <2>1. gaps' = gaps /\ (Banks(walk) \/ Unsaved(walk))
        BY <1>5 DEF SpanDone
    <2>2. CASE Banks(walk)
        <3>1. PICK stored : stored = (walk.stored \/ ~(walk.batch \subseteq items))
            OBVIOUS
        <3>2. /\ walk' = [walk EXCEPT !.batch = {}, !.stored = stored]
              /\ items' = items \cup walk.batch
            BY <2>2, <3>1 DEF Banks
        <3>3. GoodWalk(walk', posted, items')
            BY <1>1, <1>2, <3>2, BankedIsGood
        <3>4. items' \subseteq posted
            BY <1>2, <3>2 DEF FieldsOK
        <3>5. QED BY <1>1, <1>2, <2>1, <3>3, <3>4, InvAgain DEF RedditInv, GapsOK
    <2>3. CASE Unsaved(walk)
        <3>1. walk' = [walk EXCEPT !.at = "except"] /\ items' = items
            BY <2>3 DEF Unsaved
        <3>2. GoodWalk(walk', posted, items)
            BY <1>1, <1>2, <3>1, UnsavedIsGood
        <3>3. QED BY <1>1, <1>2, <2>1, <3>1, <3>2, InvAgain DEF RedditInv, GapsOK
    <2>4. QED BY <2>1, <2>2, <2>3
<1>6. QED BY <1>4, <1>5

\* What is left of a span is written down, and the pass has failed.
LEMMA WritesDown ==
    ASSUME RedditInv, NEW w, FieldsOK(w, posted), w.spans # <<>>, NEW reached \in Int,
           NEW I, WriteDown(w, reached)
    PROVE  GoodWalk(walk', posted, I) /\ GapsOK(DOMAIN gaps')
<1>1. DOMAIN w = WalkFields /\ w.spans \in Seq(SpanSet)
    BY DEF FieldsOK
<1>2. PICK span \in SpanSet : span = Head(w.spans)
    BY <1>1, HeadIs
<1>3. span.after \in Int /\ span.before \in Int
    BY <1>2 DEF SpanSet
<1>4. GapsOK(DOMAIN gaps')
    <2>1. \/ gaps' = RecordGap(span.after, reached) \/ gaps' = gaps
          \/ \E key : gaps' = Bumped(key)
        BY <1>2 DEF WriteDown
    <2>2. QED BY <1>3, <2>1, RecordsOne, OneGapLess
<1>5. PICK v : v = [w EXCEPT !.failed = TRUE]
    OBVIOUS
<1>6. /\ DOMAIN v = WalkFields /\ v.failed = TRUE
      /\ v.spans = w.spans /\ v.from = w.from /\ v.moment = w.moment
      /\ v.page = w.page /\ v.seen = w.seen /\ v.start = w.start
    BY <1>1, <1>5 DEF WalkFields
<1>7. /\ v.width = w.width /\ v.batch = w.batch /\ v.cursor = w.cursor
      /\ v.reach = w.reach /\ v.frontier = w.frontier
    BY <1>1, <1>5 DEF WalkFields
<1>8. FieldsOK(v, posted)
    BY <1>6, <1>7 DEF FieldsOK
<1>9. CASE walk' = LeaveSpan(v)
    <2>1. v.failed \/ Sayable(posted, v.from, v.moment) \subseteq I
        BY <1>6
    <2>2. v.spans # <<>>
        BY <1>6
    <2>3. Timed(posted)
        BY TimedPosted
    <2>4. GoodWalk(walk', posted, I)
        BY <1>8, <1>9, <2>1, <2>2, <2>3, LeavesKeeps
    <2>5. QED BY <1>4, <2>4
<1>10. CASE walk' = [w EXCEPT !.at = "drop", !.failed = TRUE]
    <2>1. /\ DOMAIN walk' = WalkFields /\ walk'.at = "drop" /\ walk'.failed = TRUE
          /\ walk'.spans = w.spans /\ walk'.from = w.from /\ walk'.moment = w.moment
          /\ walk'.page = w.page /\ walk'.seen = w.seen /\ walk'.start = w.start
        BY <1>1, <1>10 DEF WalkFields
    <2>2. /\ walk'.width = w.width /\ walk'.batch = w.batch /\ walk'.cursor = w.cursor
          /\ walk'.reach = w.reach /\ walk'.frontier = w.frontier
        BY <1>1, <1>10 DEF WalkFields
    <2>3. FieldsOK(walk', posted)
        BY <2>1, <2>2 DEF FieldsOK
    <2>4. HeadOK(walk', posted, I) /\ FirstOK(walk', posted, I)
        BY <2>1 DEF HeadOK, FirstOK
    <2>5. QED BY <1>4, <2>3, <2>4 DEF GoodWalk
<1>11. walk' = LeaveSpan(v) \/ walk' = [w EXCEPT !.at = "drop", !.failed = TRUE]
    BY <1>5 DEF WriteDown
<1>12. QED BY <1>9, <1>10, <1>11

LEMMA SpanFailsKeeps ==
    ASSUME RedditInv, SpanFails
    PROVE  RedditInv'
<1>1. walk.at = "except" /\ walk # NoWalk /\ UNCHANGED <<time, posted>>
    BY DEF SpanFails, NoWalk
<1>2. FieldsOK(walk, posted) /\ walk.spans # <<>> /\ items \subseteq posted
    BY <1>1, WalkIsGood DEF HeadOK, AtAHead
<1>3. walk.frontier \in Int /\ DOMAIN walk = WalkFields /\ walk.batch \subseteq posted
    BY <1>2 DEF FieldsOK
<1>4. PICK before \in Int : before = Head(walk.spans).before
    <2>1. Head(walk.spans) \in SpanSet
        BY <1>2, HeadIs DEF FieldsOK
    <2>2. QED BY <2>1 DEF SpanSet
<1>5. CASE /\ items' = items \cup walk.batch
           /\ WriteDown([walk EXCEPT !.stored = @ \/ ~(walk.batch \subseteq items)],
                        walk.frontier)
    <2>1. PICK w : w = [walk EXCEPT !.stored = @ \/ ~(walk.batch \subseteq items)]
        OBVIOUS
    <2>2. /\ DOMAIN w = WalkFields /\ w.failed = walk.failed
          /\ w.spans = walk.spans /\ w.from = walk.from /\ w.moment = walk.moment
          /\ w.page = walk.page /\ w.seen = walk.seen /\ w.start = walk.start
        BY <1>3, <2>1 DEF WalkFields
    <2>3. /\ w.width = walk.width /\ w.batch = walk.batch /\ w.cursor = walk.cursor
          /\ w.reach = walk.reach /\ w.frontier = walk.frontier
        BY <1>3, <2>1 DEF WalkFields
    <2>4. FieldsOK(w, posted) /\ w.spans # <<>>
        BY <1>2, <2>2, <2>3 DEF FieldsOK
    <2>5. WriteDown(w, walk.frontier)
        BY <1>5, <2>1
    <2>6. GoodWalk(walk', posted, items') /\ GapsOK(DOMAIN gaps')
        BY <1>3, <2>4, <2>5, WritesDown
    <2>7. items' \subseteq posted
        BY <1>2, <1>3, <1>5
    <2>8. QED BY <1>1, <2>6, <2>7, InvAgain DEF RedditInv, GapsOK
<1>6. CASE WriteDown(walk, Head(walk.spans).before) /\ items' = items
    <2>1. WriteDown(walk, before)
        BY <1>4, <1>6
    <2>2. GoodWalk(walk', posted, items) /\ GapsOK(DOMAIN gaps')
        BY <1>2, <2>1, WritesDown
    <2>3. QED BY <1>1, <1>2, <1>6, <2>2, InvAgain DEF RedditInv, GapsOK
<1>7. QED BY <1>5, <1>6 DEF SpanFails

LEMMA DropGapKeeps ==
    ASSUME RedditInv, DropGap
    PROVE  RedditInv'
<1>1. /\ walk.at = "drop" /\ walk # NoWalk /\ UNCHANGED <<time, posted, items>>
      /\ walk' = LeaveSpan(walk) /\ \E key : gaps' = Without(key)
    BY DEF DropGap, NoWalk
<1>2. FieldsOK(walk, posted) /\ walk.spans # <<>>
    BY <1>1, WalkIsGood DEF HeadOK
<1>3. walk.failed \/ Sayable(posted, walk.from, walk.moment) \subseteq items
    BY <1>1, WalkIsGood DEF FirstOK, AtAHead
<1>4. GoodWalk(walk', posted, items)
    BY <1>1, <1>2, <1>3, TimedPosted, LeavesKeeps
<1>5. GapsOK(DOMAIN gaps')
    BY <1>1, OneGapLess
<1>6. QED BY <1>1, <1>4, <1>5, InvAgain DEF RedditInv, GapsOK

-----------------------------------------------------------------------------
(* The start of a pass, and what happens between passes.                   *)

\* What is stored has ends.
LEMMA ItemsHaveEnds ==
    ASSUME RedditInv, items # {}
    PROVE  Newest \in Int /\ Oldest \in Int
<1>1. IsFiniteSet(posted) /\ items \subseteq posted /\ \A p \in posted : At(p) \in Int
    BY PostedAre DEF RedditInv
<1>2. PICK S : S = SecondsOf(items)
    OBVIOUS
<1>3. S \subseteq Int /\ S # {} /\ IsFiniteSet(items)
    BY <1>1, <1>2, FS_Subset DEF SecondsOf
<1>4. PICK f : f = [p \in items |-> At(p)]
    OBVIOUS
<1>5. f \in Surjection(items, S)
    BY <1>2, <1>4 DEF Surjection, SecondsOf
<1>6. IsFiniteSet(S)
    BY <1>3, <1>5, FS_Surjection
<1>7. Max(S) \in Int /\ Min(S) \in Int
    BY <1>3, <1>6, EndsAreIn
<1>8. QED BY <1>2, <1>7 DEF Newest, Oldest

\* The gaps that are taken up are rows of the table.
LEMMA PendingAreGaps ==
    ASSUME RedditInv, NEW rows \in PendingGaps
    PROVE  rows \in Seq(Int \X Int)
<1>1. PICK open : open = {g \in DOMAIN gaps : gaps[g] < GapAttempts}
    OBVIOUS
<1>2. open \subseteq Int \X Int /\ IsFiniteSet(open)
    BY <1>1, FS_Subset DEF RedditInv
<1>3. PICK c \in Nat : c = Cardinality(open)
    BY <1>2, FS_CardinalityType
<1>4. PICK n : n = Min({GapLimit, c})
    OBVIOUS
<1>5. n \in Nat
    <2>1. PICK l \in Nat : l = GapLimit
        BY RedditConstants
    <2>2. Min({l, c}) = IF l <= c THEN l ELSE c
        BY MaxAndMinOfTwo
    <2>3. QED BY <1>4, <2>1, <2>2
<1>6. rows \in [1 .. n -> open]
    BY <1>1, <1>3, <1>4 DEF PendingGaps
<1>7. QED BY <1>2, <1>5, <1>6

\* A pass walks spans, the first of them up to now.
LEMMA SpansAre ==
    ASSUME RedditInv, NEW rows \in PendingGaps, NEW s, s = Spans(rows)
    PROVE  s \in Seq(SpanSet) /\ s # <<>> /\ Head(s).before = time
<1>1. rows \in Seq(Int \X Int)
    BY PendingAreGaps
<1>2. PICK p : p = [k \in DOMAIN rows |-> Span(rows[k][1], rows[k][2], TRUE)]
    OBVIOUS
<1>3. \A g \in Int \X Int : Span(g[1], g[2], TRUE) \in SpanSet
    BY DEF Span, SpanSet
<1>4. p \in Seq(SpanSet)
    <2>1. DOMAIN rows = 1 .. Len(rows) /\ Len(rows) \in Nat
          /\ \A k \in 1 .. Len(rows) : rows[k] \in Int \X Int
        BY <1>1
    <2>2. p = [k \in 1 .. Len(rows) |-> p[k]] /\ \A k \in 1 .. Len(rows) : p[k] \in SpanSet
        BY <1>2, <1>3, <2>1
    <2>3. QED BY <2>1, <2>2
<1>5. time \in Int /\ Target \in Int
    BY RedditConstants DEF RedditInv, Target
<1>6. ASSUME NEW x \in SpanSet, x.before = time, NEW q \in Seq(SpanSet),
             s = <<x>> \o p \/ s = <<x>> \o p \o q
      PROVE  s \in Seq(SpanSet) /\ s # <<>> /\ Head(s).before = time
    <2>1. PICK one \in Seq(SpanSet) : one = <<x>> /\ Len(one) = 1 /\ one[1] = x
        <3>1. <<x>> \in Seq(SpanSet) /\ Len(<<x>>) = 1 /\ <<x>>[1] = x
            OBVIOUS
        <3>2. QED BY <3>1
    <2>2. PICK r \in Seq(SpanSet) : r = one \o p /\ Len(r) >= 1 /\ r[1] = x
        <3>1. one \o p \in Seq(SpanSet) /\ Len(one \o p) = 1 + Len(p) /\ (one \o p)[1] = one[1]
            BY <1>4, <2>1
        <3>2. Len(p) \in Nat
            BY <1>4
        <3>3. PICK r \in Seq(SpanSet) : r = one \o p
            BY <3>1
        <3>4. PICK n \in Nat : n = Len(p)
            BY <3>2
        <3>5. Len(r) = 1 + n /\ r[1] = x
            BY <2>1, <3>1, <3>3, <3>4
        <3>6. Len(r) >= 1
            BY <3>5
        <3>7. QED BY <3>3, <3>5, <3>6
    <2>3. CASE s = r
        BY <1>6, <2>2, <2>3
    <2>4. CASE s = r \o q
        <3>1. s \in Seq(SpanSet) /\ Len(s) = Len(r) + Len(q) /\ Len(r) \in Nat /\ Len(q) \in Nat
            BY <1>6, <2>2, <2>4
        <3>2. s[1] = x
            BY <1>6, <2>2, <2>4
        <3>3. QED BY <1>6, <2>2, <3>1, <3>2
    <2>5. QED BY <1>6, <2>1, <2>2, <2>3, <2>4
<1>7. CASE items = {}
    <2>1. PICK x : x = Span(Target, time, FALSE)
        OBVIOUS
    <2>2. x \in SpanSet /\ x.before = time
        BY <1>5, <2>1 DEF Span, SpanSet
    <2>3. s = <<x>> \o p
        BY <1>2, <1>7, <2>1 DEF Spans
    <2>4. <<>> \in Seq(SpanSet)
        OBVIOUS
    <2>5. QED BY <1>6, <2>2, <2>3, <2>4
<1>8. CASE items # {}
    <2>1. Newest \in Int /\ Oldest \in Int
        BY <1>8, ItemsHaveEnds
    <2>2. PICK x : x = Span(Newest - Overlap, time, FALSE)
        OBVIOUS
    <2>3. x \in SpanSet /\ x.before = time
        BY <1>5, <2>1, <2>2, RedditConstants DEF Span, SpanSet
    <2>4. PICK q : q = IF Oldest > Target + Tolerance
                       THEN <<Span(Target, Oldest, FALSE)>> ELSE <<>>
        OBVIOUS
    <2>5. q \in Seq(SpanSet)
        <3>1. PICK y : y = Span(Target, Oldest, FALSE)
            OBVIOUS
        <3>2. y \in SpanSet
            BY <1>5, <2>1, <3>1 DEF Span, SpanSet
        <3>3. <<y>> \in Seq(SpanSet) /\ <<>> \in Seq(SpanSet)
            BY <3>2
        <3>4. QED BY <2>4, <3>1, <3>3
    <2>6. s = <<x>> \o p \o q
        BY <1>2, <1>8, <2>2, <2>4 DEF Spans
    <2>7. QED BY <1>6, <2>3, <2>5, <2>6
<1>9. QED BY <1>7, <1>8

LEMMA BeginKeeps ==
    ASSUME RedditInv, BeginWalk
    PROVE  RedditInv'
<1>1. UNCHANGED <<time, posted, items, gaps>>
    BY DEF BeginWalk
<1>2. PICK rows \in PendingGaps :
          walk' = OpenSpan([at |-> "ask", spans |-> Spans(rows),
                            from |-> Head(Spans(rows)).after, moment |-> time,
                            start |-> 0, width |-> 0, cursor |-> 0, reach |-> 0,
                            clean |-> 0, tries |-> 0, page |-> {}, seen |-> {}, short |-> FALSE,
                            batch |-> {}, frontier |-> 0, stored |-> FALSE,
                            failed |-> FALSE])
    BY DEF BeginWalk
<1>3. PICK s : s = Spans(rows)
    OBVIOUS
<1>4. s \in Seq(SpanSet) /\ s # <<>> /\ Head(s).before = time
    BY <1>3, SpansAre
<1>5. PICK a \in Int : a = Head(s).after
    <2>1. Head(s) \in SpanSet
        BY <1>4, HeadIs
    <2>2. QED BY <2>1 DEF SpanSet
<1>6. PICK w : w = [at |-> "ask", spans |-> s, from |-> a, moment |-> time,
                    start |-> 0, width |-> 0, cursor |-> 0, reach |-> 0,
                    clean |-> 0, tries |-> 0, page |-> {}, seen |-> {}, short |-> FALSE,
                    batch |-> {}, frontier |-> 0, stored |-> FALSE, failed |-> FALSE]
    OBVIOUS
<1>7. FieldsOK(w, posted)
    <2>1. time \in Int
        BY DEF RedditInv
    <2>2. QED BY <1>4, <1>5, <1>6, <2>1 DEF FieldsOK, WalkFields
<1>8. w.spans = s /\ w.from = a /\ w.moment = time
    BY <1>6
<1>9. walk' = OpenSpan(w)
    BY <1>2, <1>3, <1>5, <1>6
<1>10. PICK o : o = OpenSpan(w)
    OBVIOUS
<1>11. /\ FieldsOK(o, posted) /\ HeadOK(o, posted, items) /\ o.at = "ask"
       /\ o.spans = s /\ o.from = a /\ o.moment = time
    BY <1>4, <1>7, <1>8, <1>10, TimedPosted, OpensSpan
<1>12. FirstOK(o, posted, items)
    BY <1>4, <1>5, <1>11 DEF FirstOK, AtAHead
<1>13. GoodWalk(o, posted, items) /\ walk' = o
    BY <1>9, <1>10, <1>11, <1>12 DEF GoodWalk
<1>14. QED BY <1>1, <1>13, InvAgain DEF RedditInv

\* Between passes, and at their end.
LEMMA BetweenKeeps ==
    ASSUME RedditInv,
           RedditWaits \/ FinishWalk \/ WalkKilled
              \/ \E seconds \in 1 .. BackfillDays \div Second : Queue(Second * seconds)
    PROVE  RedditInv'
<1>1. time \in Int /\ GapsOK(DOMAIN gaps) /\ items \subseteq posted
    BY DEF RedditInv, GapsOK
<1>2. CASE RedditWaits
    <2>1. time' \in Int /\ walk' = NoWalk /\ UNCHANGED <<posted, items, gaps>>
        BY <1>1, <1>2 DEF RedditWaits, Second
    <2>2. QED BY <1>1, <2>1, InvAgain DEF GapsOK
<1>3. CASE FinishWalk \/ WalkKilled
    <2>1. walk' = NoWalk /\ UNCHANGED <<time, posted, items, gaps>>
        BY <1>3 DEF FinishWalk, WalkKilled
    <2>2. QED BY <1>1, <2>1, InvAgain DEF GapsOK
<1>4. CASE \E seconds \in 1 .. BackfillDays \div Second : Queue(Second * seconds)
    <2>1. PICK seconds \in 1 .. BackfillDays \div Second : Queue(Second * seconds)
        BY <1>4
    <2>2. PICK a \in Int : a = time - Second * seconds
        <3>1. seconds \in Int
            OBVIOUS
        <3>2. QED BY <1>1, <3>1 DEF Second
    <2>3. gaps' = RecordGap(a, time) /\ UNCHANGED <<time, posted, items, walk>>
        BY <2>1, <2>2 DEF Queue
    <2>4. GapsOK(DOMAIN gaps')
        BY <1>1, <2>3, RecordsOne
    <2>5. walk' = NoWalk \/ GoodWalk(walk', posted, items')
        BY <2>3 DEF RedditInv
    <2>6. QED BY <1>1, <2>3, <2>4, <2>5, InvAgain DEF GapsOK
<1>5. QED BY <1>2, <1>3, <1>4

LEMMA RedditInvHolds == RedditSpec => []RedditInv
<1>1. RedditInit => RedditInv
    <2>1. SUFFICES ASSUME RedditInit PROVE RedditInv
        OBVIOUS
    <2>2. gaps = <<>> /\ time = 1 /\ posted \in Postings /\ items = {} /\ walk = NoWalk
        BY <2>1 DEF RedditInit
    <2>3. DOMAIN gaps = {} /\ IsFiniteSet({})
        BY <2>2, FS_EmptySet
    <2>4. QED BY <2>2, <2>3 DEF RedditInv
<1>2. RedditInv /\ [RedditNext]_redditVars => RedditInv'
    <2>1. SUFFICES ASSUME RedditInv, [RedditNext]_redditVars PROVE RedditInv'
        OBVIOUS
    <2>2. CASE UNCHANGED redditVars
        <3>1. UNCHANGED <<time, posted, items, gaps, walk>>
            BY <2>2 DEF redditVars
        <3>2. QED BY <2>1, <3>1, InvAgain DEF RedditInv
    <2>3. CASE RedditWaits \/ FinishWalk \/ WalkKilled
               \/ \E seconds \in 1 .. BackfillDays \div Second : Queue(Second * seconds)
        BY <2>1, <2>3, BetweenKeeps
    <2>4. CASE BeginWalk
        BY <2>1, <2>4, BeginKeeps
    <2>5. CASE Answered
        BY <2>1, <2>5, AnsweredKeeps
    <2>6. CASE TimedOut \/ Refused
        BY <2>1, <2>6, RefusalKeeps
    <2>7. CASE Yields
        BY <2>1, <2>7, YieldsKeeps
    <2>8. CASE Turns
        BY <2>1, <2>8, TurnsKeeps
    <2>9. CASE SpanDone
        BY <2>1, <2>9, SpanDoneKeeps
    <2>10. CASE SpanFails
        BY <2>1, <2>10, SpanFailsKeeps
    <2>11. CASE DropGap
        BY <2>1, <2>11, DropGapKeeps
    <2>12. QED
        BY <2>1, <2>2, <2>3, <2>4, <2>5, <2>6, <2>7, <2>8, <2>9, <2>10, <2>11
           DEF RedditNext
<1>3. QED BY <1>1, <1>2, PTL DEF RedditSpec

\* A pass that is about to say 'ok' has everything its first span asked for, however
\* often the mirror had to be asked for less, whatever a page repeated or cut off within a
\* second, and whatever died before, but for the seconds that hold more than a page.
\* (_walk, items, ingest)
THEOREM OkPassIsWhole == RedditSpec => []OkIsWhole
<1>1. RedditInv => OkIsWhole
    <2>1. SUFFICES ASSUME RedditInv, walk.at = "finish", ~walk.failed,
                          NEW p \in posted, walk.from < At(p), At(p) < walk.moment,
                          ~Crowded(At(p))
                   PROVE  p \in items
        BY DEF OkIsWhole
    <2>2. walk # NoWalk /\ ~AtAHead(walk)
        BY <2>1 DEF NoWalk, AtAHead
    <2>3. Sayable(posted, walk.from, walk.moment) \subseteq items
        BY <2>1, <2>2, WalkIsGood DEF FirstOK
    <2>4. p \in Sayable(posted, walk.from, walk.moment)
        BY <2>1 DEF Sayable, Crowded
    <2>5. QED BY <2>3, <2>4
<1>2. QED BY <1>1, RedditInvHolds, PTL

-----------------------------------------------------------------------------
(* The days of EDGAR (Edgar).  Of the day at hand, what was indexed and is *)
(* about a company of the universe is still to be read, in hand, in the    *)
(* batch or stored, wherever the pass is interrupted; and a day that was   *)
(* ok is given nothing more to store than it stored.                       *)

Statuses == {"running", "ok", "partial", "failed"}
AllTransactions == UNION {Range(ParseFiling(f)) : f \in EdgarFilings}

PassFields == {"at", "todo", "ciks", "left", "rows", "batch", "new", "unread",
               "refused", "failed", "anyNew"}

\* What a filing became is in one of three places.
Gathered(w, f, I) == Range(ParseFiling(f)) \subseteq Range(w.rows) \cup w.batch \cup I

\* What a day that is walked has still to see to.
Owed(w) == {f \in IndexedFilings(Head(w.todo), w.ciks) : f.issuer \in w.ciks} \ w.unread

PassOK(w, U, I) ==
    /\ DOMAIN w = PassFields
    /\ w.ciks \subseteq U
    /\ w.rows \in Seq(AllTransactions)
    /\ w.at \in {"day", "index", "filing", "ok", "except"}
    /\ w.at = "filing" => /\ w.left \subseteq EdgarFilings
                          /\ \A f \in Owed(w) \ w.left : Gathered(w, f, I)
    /\ w.at = "ok" => \A f \in Owed(w) : Range(ParseFiling(f)) \subseteq I

OkIsStored ==
    \A d \in Days : "ok" \in Range(edgarRuns[d]) =>
        \A f \in okFor[d] : Range(ParseFiling(f)) \subseteq insider

EdgarInv ==
    /\ edgarRuns \in [Days -> Seq(Statuses)]
    /\ DOMAIN okFor = Days
    /\ \A tx \in insider : tx.filing.issuer \in universe
    /\ OkIsStored
    /\ edgar # EdgarIdle => PassOK(edgar, universe, insider)

\* A transaction says which filing it is of.
LEMMA TransactionsAreOf ==
    ASSUME NEW f \in EdgarFilings
    PROVE  /\ ParseFiling(f) \in Seq(AllTransactions)
           /\ \A tx \in Range(ParseFiling(f)) : tx.filing = f
<1> DEFINE Dated(table) == {row \in DOMAIN f.rows[table] : f.rows[table][row]}
           N(table) == Cardinality(Dated(table))
<1>1. ASSUME NEW table \in {"non_derivative", "derivative"}
      PROVE  N(table) \in Nat
    <2>1. f.rows[table] \in Seq(BOOLEAN)
        BY EdgarAssumption
    <2>2. PICK n \in Nat : DOMAIN f.rows[table] = 1 .. n
        BY <2>1
    <2>3. IsFiniteSet(1 .. n)
        BY FS_Interval
    <2>4. IsFiniteSet(Dated(table))
        BY <2>2, <2>3, FS_Subset
    <2>5. QED BY <2>4, FS_CardinalityType
<1> DEFINE Tx == {tx \in [filing : {f}, table : Tables, seq : Nat] : TRUE}
<1>2. ASSUME NEW table \in {"non_derivative", "derivative"}
      PROVE  FromTable(f, table) \in Seq(Tx)
    <2>1. PICK n \in Nat : n = N(table)
        BY <1>1
    <2>2. FromTable(f, table) = [k \in 1 .. n |-> [filing |-> f, table |-> table, seq |-> k]]
        BY <2>1 DEF FromTable
    <2>3. \A k \in 1 .. n : [filing |-> f, table |-> table, seq |-> k] \in Tx
        BY DEF Tables
    <2> HIDE DEF Tx, N
    <2>4. QED BY <2>2, <2>3
<1>3. ParseFiling(f) \in Seq(Tx)
    BY <1>2 DEF ParseFiling
<1>4. \A tx \in Range(ParseFiling(f)) : tx \in Tx
    BY <1>3 DEF Range
<1>5. \A k \in DOMAIN ParseFiling(f) : ParseFiling(f)[k] \in AllTransactions
    BY DEF AllTransactions, Range
<1>6. QED BY <1>3, <1>4, <1>5

LEMMA EdgarStarts == EdgarInit => EdgarInv
<1> SUFFICES ASSUME EdgarInit PROVE EdgarInv
    OBVIOUS
<1>1. edgarRuns \in [Days -> Seq(Statuses)] /\ \A d \in Days : edgarRuns[d] = <<>>
    BY DEF EdgarInit
<1>2. OkIsStored
    BY <1>1 DEF OkIsStored, Range
<1>3. QED BY <1>1, <1>2 DEF EdgarInv, EdgarInit

\* What is stored stays, and nothing else is about the days that were ok.
LEMMA StoringMore ==
    ASSUME EdgarInv, insider \subseteq insider', UNCHANGED <<edgarRuns, okFor>>
    PROVE  OkIsStored' /\ edgarRuns' \in [Days -> Seq(Statuses)] /\ DOMAIN okFor' = Days
BY DEF EdgarInv, OkIsStored

\* A status that is not ok makes no day ok.
LEMMA NoMoreOk ==
    ASSUME EdgarInv, insider \subseteq insider', UNCHANGED okFor,
           edgarRuns' \in [Days -> Seq(Statuses)],
           \A e \in Days : "ok" \in Range(edgarRuns'[e]) => "ok" \in Range(edgarRuns[e])
    PROVE  OkIsStored' /\ DOMAIN okFor' = Days
BY DEF EdgarInv, OkIsStored

LEMMA StatusSaid ==
    ASSUME NEW S, NEW s \in Seq(S), NEW status \in S
    PROVE  /\ [s EXCEPT ![Len(s)] = status] \in Seq(S)
           /\ Range([s EXCEPT ![Len(s)] = status]) \subseteq Range(s) \cup {status}
           /\ Append(s, status) \in Seq(S)
           /\ Range(Append(s, status)) \subseteq Range(s) \cup {status}
<1>1. [s EXCEPT ![Len(s)] = status] \in Seq(S)
    <2> DEFINE t == [s EXCEPT ![Len(s)] = status]
    <2>1. /\ Len(s) \in Nat /\ DOMAIN s = 1 .. Len(s)
          /\ \A k \in 1 .. Len(s) : s[k] \in S
        OBVIOUS
    <2>2. t = [k \in 1 .. Len(s) |-> IF k = Len(s) THEN status ELSE s[k]]
        BY <2>1
    <2>3. \A k \in 1 .. Len(s) : (IF k = Len(s) THEN status ELSE s[k]) \in S
        BY <2>1
    <2> HIDE DEF t
    <2>4. t \in [1 .. Len(s) -> S]
        BY <2>2, <2>3
    <2>5. t \in Seq(S)
        BY <2>1, <2>4
    <2>6. QED BY <2>5 DEF t
<1>2. Range([s EXCEPT ![Len(s)] = status]) \subseteq Range(s) \cup {status}
    BY DEF Range
<1>3. /\ Append(s, status) \in Seq(S)
      /\ DOMAIN Append(s, status) = 1 .. Len(s) + 1
      /\ \A k \in 1 .. Len(s) + 1 : Append(s, status)[k] = IF k = Len(s) + 1 THEN status ELSE s[k]
      /\ DOMAIN s = 1 .. Len(s) /\ Len(s) \in Nat
    OBVIOUS
<1>4. Range(Append(s, status)) \subseteq Range(s) \cup {status}
    <2>1. SUFFICES ASSUME NEW k \in 1 .. Len(s) + 1
                   PROVE  Append(s, status)[k] \in Range(s) \cup {status}
        BY <1>3 DEF Range
    <2>2. k = Len(s) + 1 \/ k \in 1 .. Len(s)
        BY <1>3
    <2>3. QED BY <1>3, <2>2 DEF Range
<1>5. QED BY <1>1, <1>2, <1>3, <1>4

LEMMA HeadAndTail ==
    ASSUME NEW S, NEW s \in Seq(S), s # <<>>
    PROVE  Tail(s) \in Seq(S) /\ Range(s) = {Head(s)} \cup Range(Tail(s))
<1>1. /\ Tail(s) \in Seq(S) /\ Head(s) = s[1] /\ Len(s) \in Nat /\ Len(s) >= 1
      /\ DOMAIN s = 1 .. Len(s) /\ DOMAIN Tail(s) = 1 .. Len(s) - 1
      /\ \A k \in 1 .. Len(s) - 1 : Tail(s)[k] = s[k + 1]
    OBVIOUS
<1>2. ASSUME NEW k \in 1 .. Len(s) PROVE s[k] \in {Head(s)} \cup Range(Tail(s))
    <2>1. k = 1 \/ (k - 1 \in 1 .. Len(s) - 1 /\ Tail(s)[k - 1] = s[k])
        BY <1>1
    <2>2. QED BY <1>1, <2>1 DEF Range
<1>3. ASSUME NEW k \in 1 .. Len(s) - 1 PROVE Tail(s)[k] \in Range(s)
    <2>1. k + 1 \in 1 .. Len(s)
        BY <1>1
    <2>2. QED BY <1>1, <2>1 DEF Range
<1>4. Head(s) \in Range(s)
    BY <1>1 DEF Range
<1>5. Range(s) \subseteq {Head(s)} \cup Range(Tail(s))
    BY <1>1, <1>2 DEF Range
<1>6. Range(Tail(s)) \subseteq Range(s)
    BY <1>1, <1>3 DEF Range
<1>7. QED BY <1>1, <1>4, <1>5, <1>6

-----------------------------------------------------------------------------
(* Every step keeps EdgarInv.                                              *)

LEMMA EdgarBeginPass == EdgarInv /\ BeginPass => EdgarInv'
<1> SUFFICES ASSUME EdgarInv, BeginPass PROVE EdgarInv'
    OBVIOUS
<1>1. OkIsStored' /\ edgarRuns' \in [Days -> Seq(Statuses)] /\ DOMAIN okFor' = Days
    BY StoringMore DEF BeginPass
<1>2. <<>> \in Seq(AllTransactions)
    OBVIOUS
<1>3. PassOK(edgar', universe', insider')
    BY <1>2 DEF BeginPass, PassOK, PassFields
<1>4. QED BY <1>1, <1>3 DEF EdgarInv, BeginPass

LEMMA EdgarStartDay == EdgarInv /\ StartDay => EdgarInv'
<1> SUFFICES ASSUME EdgarInv, StartDay PROVE EdgarInv'
    OBVIOUS
<1>1. edgar # EdgarIdle /\ PassOK(edgar, universe, insider)
    BY DEF EdgarInv, StartDay, EdgarIdle
<1>2. ASSUME NEW d \in Days
      PROVE  /\ edgarRuns'[d] \in Seq(Statuses)
             /\ "ok" \in Range(edgarRuns'[d]) => "ok" \in Range(edgarRuns[d])
    <2>1. edgarRuns[d] \in Seq(Statuses) /\ "running" \in Statuses
        BY DEF EdgarInv, Statuses
    <2> DEFINE longer == Append(edgarRuns[d], "running")
    <2>2. edgarRuns'[d] = edgarRuns[d] \/ edgarRuns'[d] = longer
        BY DEF StartDay, EdgarInv
    <2>3. longer \in Seq(Statuses) /\ Range(longer) \subseteq Range(edgarRuns[d]) \cup {"running"}
        BY <2>1, StatusSaid
    <2> HIDE DEF longer
    <2>4. CASE edgarRuns'[d] = edgarRuns[d]
        BY <2>1, <2>4
    <2>5. CASE edgarRuns'[d] = longer
        BY <2>3, <2>5
    <2>6. QED BY <2>2, <2>4, <2>5
<1>3. edgarRuns' \in [Days -> Seq(Statuses)]
    <2>1. DOMAIN edgarRuns' = Days /\ edgarRuns' = [d \in Days |-> edgarRuns'[d]]
        BY DEF StartDay, EdgarInv
    <2>2. QED BY <1>2, <2>1
<1>4. OkIsStored' /\ DOMAIN okFor' = Days
    BY <1>2, <1>3, NoMoreOk DEF StartDay
<1>5. PassOK(edgar', universe', insider')
    BY <1>1 DEF StartDay, PassOK, PassFields
<1>6. QED BY <1>3, <1>4, <1>5 DEF EdgarInv, StartDay

LEMMA EdgarReadIndex == EdgarInv /\ ReadIndex => EdgarInv'
<1> SUFFICES ASSUME EdgarInv, ReadIndex PROVE EdgarInv'
    OBVIOUS
<1>1. edgar # EdgarIdle /\ PassOK(edgar, universe, insider)
    BY DEF EdgarInv, ReadIndex, EdgarIdle
<1>2. OkIsStored' /\ edgarRuns' \in [Days -> Seq(Statuses)] /\ DOMAIN okFor' = Days
    BY StoringMore DEF ReadIndex
<1>3. /\ edgar'.at = "filing" /\ edgar'.todo = edgar.todo /\ edgar'.ciks = edgar.ciks
      /\ edgar'.left = IndexedFilings(Head(edgar.todo), edgar.ciks)
      /\ edgar'.rows = edgar.rows /\ DOMAIN edgar' = PassFields
    BY <1>1 DEF ReadIndex, PassOK, PassFields, Day
<1>4. PassOK(edgar', universe', insider')
    <2>1. Owed(edgar') \ edgar'.left = {}
        BY <1>3 DEF Owed
    <2>2. edgar'.left \subseteq EdgarFilings
        BY <1>3 DEF IndexedFilings
    <2>3. QED BY <1>1, <1>3, <2>1, <2>2 DEF ReadIndex, PassOK
<1>5. QED BY <1>2, <1>4 DEF EdgarInv, ReadIndex

LEMMA EdgarIsRefused ==
    ASSUME NEW throttled \in BOOLEAN, EdgarInv, EdgarRefused(throttled) PROVE EdgarInv'
<1>1. edgar # EdgarIdle /\ PassOK(edgar, universe, insider)
    BY DEF EdgarInv, EdgarRefused, EdgarIdle
<1>2. OkIsStored' /\ edgarRuns' \in [Days -> Seq(Statuses)] /\ DOMAIN okFor' = Days
    BY StoringMore DEF EdgarRefused
<1>3. PassOK(edgar', universe', insider')
    BY <1>1 DEF EdgarRefused, PassOK, PassFields
<1>4. QED BY <1>2, <1>3 DEF EdgarInv, EdgarRefused

LEMMA EdgarFilingRead == EdgarInv /\ FilingRead => EdgarInv'
<1> SUFFICES ASSUME EdgarInv, FilingRead PROVE EdgarInv'
    OBVIOUS
<1>1. edgar # EdgarIdle /\ PassOK(edgar, universe, insider)
    BY DEF EdgarInv, FilingRead, EdgarIdle
<1>2. OkIsStored' /\ edgarRuns' \in [Days -> Seq(Statuses)] /\ DOMAIN okFor' = Days
    BY StoringMore DEF FilingRead
<1>3. PICK f \in edgar.left :
          \/ edgar' = [edgar EXCEPT !.left = @ \ {f}, !.rows = ParseFiling(f)]
          \/ edgar' = [edgar EXCEPT !.left = @ \ {f}, !.unread = @ \cup {f}]
    BY DEF FilingRead
<1>4. PassOK(edgar', universe', insider')
    <2>0. f \in EdgarFilings /\ DOMAIN edgar = PassFields /\ edgar.at = "filing"
        BY <1>1 DEF FilingRead, PassOK
    <2>1. CASE edgar' = [edgar EXCEPT !.left = @ \ {f}, !.rows = ParseFiling(f)]
        <3>1. /\ DOMAIN edgar' = PassFields /\ edgar'.at = "filing" /\ edgar'.todo = edgar.todo
              /\ edgar'.ciks = edgar.ciks /\ edgar'.unread = edgar.unread
              /\ edgar'.batch = edgar.batch /\ edgar'.rows = ParseFiling(f)
              /\ edgar'.left = edgar.left \ {f}
            BY <2>0, <2>1 DEF PassFields
        <3>2. ParseFiling(f) \in Seq(AllTransactions)
            BY <2>0, TransactionsAreOf
        <3>3. Owed(edgar') = Owed(edgar)
            BY <3>1 DEF Owed
        <3>4. Range(edgar.rows) = {}
            BY DEF FilingRead, Range
        <3>5. ASSUME NEW g \in Owed(edgar') \ edgar'.left PROVE Gathered(edgar', g, insider')
            <4>1. CASE g = f
                BY <3>1, <4>1 DEF Gathered
            <4>2. CASE g # f
                <5>1. g \in Owed(edgar) \ edgar.left
                    BY <3>1, <3>3, <3>5, <4>2
                <5>2. Gathered(edgar, g, insider)
                    BY <1>1, <2>0, <5>1 DEF PassOK
                <5>3. QED BY <3>1, <3>4, <5>2 DEF Gathered, FilingRead
            <4>3. QED BY <4>1, <4>2
        <3>6. QED BY <1>1, <2>0, <3>1, <3>2, <3>5 DEF PassOK, FilingRead
    <2>2. CASE edgar' = [edgar EXCEPT !.left = @ \ {f}, !.unread = @ \cup {f}]
        <3>1. /\ DOMAIN edgar' = PassFields /\ edgar'.at = "filing" /\ edgar'.todo = edgar.todo
              /\ edgar'.ciks = edgar.ciks /\ edgar'.unread = edgar.unread \cup {f}
              /\ edgar'.batch = edgar.batch /\ edgar'.rows = edgar.rows
              /\ edgar'.left = edgar.left \ {f}
            BY <2>0, <2>2 DEF PassFields
        <3>2. Owed(edgar') \ edgar'.left \subseteq Owed(edgar) \ edgar.left
            BY <3>1 DEF Owed
        <3>3. \A g \in Owed(edgar') \ edgar'.left : Gathered(edgar', g, insider')
            BY <1>1, <2>0, <3>1, <3>2 DEF PassOK, Gathered, FilingRead
        <3>4. QED BY <1>1, <2>0, <3>1, <3>3 DEF PassOK, FilingRead
    <2>3. QED BY <1>3, <2>1, <2>2
<1>5. QED BY <1>2, <1>4 DEF EdgarInv, FilingRead

\* What is kept of a batch is of companies of the universe, and is the part of it
\* that is owed.
LEMMA KeptIsAttributed ==
    ASSUME EdgarInv, NEW B, NEW C, C \subseteq universe, universe' = universe,
           insider' = insider \cup Attributed(B, C)
    PROVE  /\ insider \subseteq insider'
           /\ \A tx \in insider' : tx.filing.issuer \in universe'
           /\ \A tx \in B : tx.filing.issuer \in C => tx \in insider'
BY DEF EdgarInv, Attributed

\* A batch that is saved in the middle of a day.
LEMMA KeepingIsWhole ==
    ASSUME EdgarInv, NEW w, PassOK(w, universe, insider), w.at = "filing", Keeps(w),
           universe' = universe
    PROVE  /\ insider \subseteq insider'
           /\ \A tx \in insider' : tx.filing.issuer \in universe'
           /\ PassOK(edgar', universe', insider')
<1>1. /\ DOMAIN edgar' = PassFields /\ edgar'.at = "filing" /\ edgar'.ciks = w.ciks
      /\ edgar'.rows = w.rows /\ edgar'.todo = w.todo /\ edgar'.unread = w.unread
      /\ edgar'.left = w.left /\ edgar'.batch = {}
      /\ insider' = insider \cup Attributed(w.batch, w.ciks)
    BY DEF Keeps, PassFields, PassOK
<1>2. /\ insider \subseteq insider'
      /\ \A tx \in insider' : tx.filing.issuer \in universe'
      /\ \A tx \in w.batch : tx.filing.issuer \in w.ciks => tx \in insider'
    <2>1. w.ciks \subseteq universe
        BY DEF PassOK
    <2>2. QED BY <1>1, <2>1, KeptIsAttributed
<1>3. Owed(edgar') = Owed(w)
    BY <1>1 DEF Owed
<1>4. ASSUME NEW f \in Owed(edgar') \ edgar'.left PROVE Gathered(edgar', f, insider')
    <2>1. f \in EdgarFilings /\ f.issuer \in w.ciks /\ f \in Owed(w) \ w.left
        BY <1>1, <1>3, <1>4 DEF Owed, IndexedFilings
    <2>2. Gathered(w, f, insider)
        BY <2>1 DEF PassOK
    <2>3. \A tx \in Range(ParseFiling(f)) : tx.filing = f
        BY <2>1, TransactionsAreOf
    <2>4. QED BY <1>1, <1>2, <2>1, <2>2, <2>3 DEF Gathered
<1>5. QED BY <1>1, <1>2, <1>4 DEF PassOK

LEMMA EdgarTransactionRead == EdgarInv /\ TransactionRead => EdgarInv'
<1> SUFFICES ASSUME EdgarInv, TransactionRead PROVE EdgarInv'
    OBVIOUS
<1>1. edgar # EdgarIdle /\ PassOK(edgar, universe, insider)
    BY DEF EdgarInv, TransactionRead, EdgarIdle
<1> DEFINE w == [edgar EXCEPT !.rows = Tail(@), !.batch = @ \cup {Head(edgar.rows)}]
<1>2. /\ DOMAIN w = PassFields /\ w.at = "filing" /\ w.todo = edgar.todo
      /\ w.ciks = edgar.ciks /\ w.unread = edgar.unread /\ w.left = edgar.left
      /\ w.batch = edgar.batch \cup {Head(edgar.rows)} /\ w.rows = Tail(edgar.rows)
    BY <1>1 DEF TransactionRead, PassOK, PassFields
<1>3. \/ edgar' = w /\ UNCHANGED insider
      \/ Keeps(w) \/ KeepFails(w)
    BY DEF TransactionRead
<1> HIDE DEF w
<1>4. /\ w.rows \in Seq(AllTransactions)
      /\ Range(edgar.rows) = {Head(edgar.rows)} \cup Range(w.rows)
    <2>1. edgar.rows \in Seq(AllTransactions) /\ edgar.rows # <<>>
        BY <1>1 DEF PassOK, TransactionRead
    <2>2. QED BY <1>2, <2>1, HeadAndTail
<1>5. \A f \in Owed(w) \ w.left : Gathered(w, f, insider)
    <2>1. Owed(w) = Owed(edgar)
        BY <1>2 DEF Owed
    <2>2. QED BY <1>1, <1>2, <1>4, <2>1 DEF PassOK, Gathered, TransactionRead
<1>6. PassOK(w, universe, insider)
    BY <1>1, <1>2, <1>4, <1>5 DEF PassOK, TransactionRead
<1>7. UNCHANGED <<universe, edgarRuns, okFor>>
    BY DEF TransactionRead
<1>8. /\ insider \subseteq insider' /\ \A tx \in insider' : tx.filing.issuer \in universe'
      /\ PassOK(edgar', universe', insider')
    <2>1. CASE edgar' = w /\ UNCHANGED insider
        BY <1>6, <1>7, <2>1 DEF EdgarInv
    <2>2. CASE Keeps(w)
        BY <1>2, <1>6, <1>7, <2>2, KeepingIsWhole
    <2>3. CASE KeepFails(w)
        <3>1. /\ DOMAIN edgar' = PassFields /\ edgar'.at = "except" /\ edgar'.ciks = w.ciks
              /\ edgar'.rows = w.rows /\ insider' = insider
            BY <1>2, <2>3 DEF KeepFails, PassFields
        <3>2. QED BY <1>6, <1>7, <3>1 DEF PassOK, EdgarInv
    <2>4. QED BY <1>3, <2>1, <2>2, <2>3
<1>9. OkIsStored' /\ edgarRuns' \in [Days -> Seq(Statuses)] /\ DOMAIN okFor' = Days
    BY <1>7, <1>8, StoringMore
<1>10. QED BY <1>8, <1>9 DEF EdgarInv

LEMMA EdgarLastBatch == EdgarInv /\ LastBatch => EdgarInv'
<1> SUFFICES ASSUME EdgarInv, LastBatch PROVE EdgarInv'
    OBVIOUS
<1>1. edgar # EdgarIdle /\ PassOK(edgar, universe, insider)
    BY DEF EdgarInv, LastBatch, EdgarIdle
<1>2. UNCHANGED <<universe, edgarRuns, okFor>>
    BY DEF LastBatch
<1>3. /\ insider \subseteq insider' /\ \A tx \in insider' : tx.filing.issuer \in universe'
      /\ PassOK(edgar', universe', insider')
    <2>1. CASE Keeps([edgar EXCEPT !.at = "ok"])
        <3> DEFINE w == [edgar EXCEPT !.at = "ok"]
        <3>1. /\ DOMAIN w = PassFields /\ w.at = "ok" /\ w.ciks = edgar.ciks
              /\ w.rows = edgar.rows /\ w.batch = edgar.batch /\ w.todo = edgar.todo
              /\ w.unread = edgar.unread
            BY <1>1 DEF PassOK, PassFields
        <3> HIDE DEF w
        <3>2. Keeps(w)
            BY <2>1 DEF w
        <3>3. /\ DOMAIN edgar' = PassFields /\ edgar'.at = "ok" /\ edgar'.ciks = w.ciks
              /\ edgar'.rows = w.rows /\ edgar'.todo = w.todo /\ edgar'.unread = w.unread
              /\ insider' = insider \cup Attributed(w.batch, w.ciks)
            BY <3>1, <3>2 DEF Keeps, PassFields
        <3>4. /\ insider \subseteq insider'
              /\ \A tx \in insider' : tx.filing.issuer \in universe'
              /\ \A tx \in w.batch : tx.filing.issuer \in w.ciks => tx \in insider'
            <4>1. w.ciks \subseteq universe
                BY <1>1, <3>1 DEF PassOK
            <4>2. QED BY <1>2, <3>3, <4>1, KeptIsAttributed
        <3>5. Owed(edgar') = Owed(edgar) /\ Range(edgar.rows) = {} /\ edgar.left = {}
            BY <3>1, <3>3 DEF Owed, LastBatch, Range
        <3>6. ASSUME NEW f \in Owed(edgar') PROVE Range(ParseFiling(f)) \subseteq insider'
            <4>1. f \in EdgarFilings /\ f.issuer \in edgar.ciks
                BY <3>5, <3>6 DEF Owed, IndexedFilings
            <4>2. Gathered(edgar, f, insider)
                BY <1>1, <3>5, <3>6 DEF PassOK, LastBatch
            <4>3. \A tx \in Range(ParseFiling(f)) : tx \in edgar.batch \/ tx \in insider
                BY <3>5, <4>2 DEF Gathered
            <4>4. \A tx \in Range(ParseFiling(f)) : tx.filing = f
                BY <4>1, TransactionsAreOf
            <4>5. QED BY <3>1, <3>4, <4>1, <4>3, <4>4
        <3>7. QED BY <1>1, <1>2, <3>1, <3>3, <3>4, <3>6 DEF PassOK
    <2>2. CASE KeepFails(edgar)
        <3>1. /\ DOMAIN edgar' = PassFields /\ edgar'.at = "except" /\ edgar'.ciks = edgar.ciks
              /\ edgar'.rows = edgar.rows /\ insider' = insider
            BY <1>1, <2>2 DEF KeepFails, PassFields, PassOK
        <3>2. QED BY <1>1, <1>2, <3>1 DEF PassOK, EdgarInv
    <2>3. QED BY <2>1, <2>2 DEF LastBatch
<1>4. OkIsStored' /\ edgarRuns' \in [Days -> Seq(Statuses)] /\ DOMAIN okFor' = Days
    BY <1>2, <1>3, StoringMore
<1>5. QED BY <1>3, <1>4 DEF EdgarInv

\* The row of a day gets its status, and no other day's changes.
LEMMA DayFinished ==
    ASSUME EdgarInv, NEW status \in Statuses, NEW w, DOMAIN w = PassFields, w.ciks \subseteq universe,
           FinishDay(status, w), universe' = universe
    PROVE  /\ edgarRuns' \in [Days -> Seq(Statuses)]
           /\ \A e \in Days : "ok" \in Range(edgarRuns'[e]) =>
                  \/ "ok" \in Range(edgarRuns[e])
                  \/ e = Day /\ status = "ok"
           /\ PassOK(edgar', universe', insider')
<1>1. ASSUME NEW e \in Days
      PROVE  /\ edgarRuns'[e] \in Seq(Statuses)
             /\ "ok" \in Range(edgarRuns'[e]) =>
                    \/ "ok" \in Range(edgarRuns[e])
                    \/ e = Day /\ status = "ok"
    <2>1. edgarRuns[e] \in Seq(Statuses)
        BY DEF EdgarInv
    <2> DEFINE said == [edgarRuns[e] EXCEPT ![Len(edgarRuns[e])] = status]
    <2>2. IF e = Day THEN edgarRuns'[e] = said ELSE edgarRuns'[e] = edgarRuns[e]
        BY DEF FinishDay, EdgarInv
    <2>3. said \in Seq(Statuses) /\ Range(said) \subseteq Range(edgarRuns[e]) \cup {status}
        BY <2>1, StatusSaid
    <2> HIDE DEF said
    <2>4. CASE e = Day
        BY <2>2, <2>3, <2>4
    <2>5. CASE e # Day
        BY <2>1, <2>2, <2>5
    <2>6. QED BY <2>4, <2>5
<1>2. edgarRuns' \in [Days -> Seq(Statuses)]
    <2>1. DOMAIN edgarRuns' = Days /\ edgarRuns' = [d \in Days |-> edgarRuns'[d]]
        BY DEF FinishDay, EdgarInv
    <2>2. QED BY <1>1, <2>1
<1>3. PassOK(edgar', universe', insider')
    <2>1. /\ DOMAIN edgar' = PassFields /\ edgar'.at = "day" /\ edgar'.ciks = w.ciks
          /\ edgar'.rows = <<>>
        BY DEF FinishDay, PassFields
    <2>2. <<>> \in Seq(AllTransactions)
        OBVIOUS
    <2>3. QED BY <2>1, <2>2 DEF PassOK
<1>4. QED BY <1>1, <1>2, <1>3

LEMMA EdgarDayOk == EdgarInv /\ DayOk => EdgarInv'
<1> SUFFICES ASSUME EdgarInv, DayOk PROVE EdgarInv'
    OBVIOUS
<1>1. edgar # EdgarIdle /\ PassOK(edgar, universe, insider)
    BY DEF EdgarInv, DayOk, EdgarIdle
<1>2. /\ edgarRuns' \in [Days -> Seq(Statuses)]
      /\ \A e \in Days : "ok" \in Range(edgarRuns'[e]) => "ok" \in Range(edgarRuns[e]) \/ e = Day
      /\ PassOK(edgar', universe', insider')
    <2>1. "ok" \in Statuses /\ DOMAIN edgar = PassFields /\ edgar.ciks \subseteq universe
        BY <1>1 DEF PassOK, Statuses
    <2>2. FinishDay("ok", edgar) /\ universe' = universe
        BY DEF DayOk
    <2>3. QED BY <2>1, <2>2, DayFinished
<1>3. \A f \in EdgarFilings :
          f.day = Day /\ f.form = "4" /\ f.issuer \in edgar.ciks /\ f \notin edgar.unread =>
              Range(ParseFiling(f)) \subseteq insider
    <2>1. ASSUME NEW f \in EdgarFilings, f.day = Day, f.form = "4", f.issuer \in edgar.ciks,
                 f \notin edgar.unread
          PROVE  Range(ParseFiling(f)) \subseteq insider
        <3>1. f.issuer \in f.parties
            BY EdgarAssumption
        <3>2. f \in Owed(edgar)
            BY <2>1, <3>1 DEF Owed, IndexedFilings, Day
        <3>3. QED BY <1>1, <3>2 DEF PassOK, DayOk
    <2>2. QED BY <2>1
<1>4. /\ DOMAIN okFor' = Days
      /\ \A e \in Days : e # Day => okFor'[e] = okFor[e]
      /\ \A e \in Days : e = Day => okFor'[e] = {f \in EdgarFilings : /\ f.day = Day /\ f.form = "4"
                                          /\ f.issuer \in edgar.ciks} \ edgar.unread
    BY DEF DayOk, EdgarInv
<1>5. OkIsStored'
    <2>1. SUFFICES ASSUME NEW e \in Days, "ok" \in Range(edgarRuns'[e]), NEW f \in okFor'[e]
                   PROVE  Range(ParseFiling(f)) \subseteq insider'
        BY DEF OkIsStored
    <2>2. insider' = insider
        BY DEF DayOk
    <2>3. CASE e = Day
        BY <1>3, <1>4, <2>1, <2>2, <2>3
    <2>4. CASE e # Day
        BY <1>2, <1>4, <2>1, <2>2, <2>4 DEF EdgarInv, OkIsStored
    <2>5. QED BY <2>3, <2>4
<1>6. QED BY <1>2, <1>4, <1>5 DEF EdgarInv, DayOk

LEMMA EdgarDayFails == EdgarInv /\ DayFails => EdgarInv'
<1> SUFFICES ASSUME EdgarInv, DayFails PROVE EdgarInv'
    OBVIOUS
<1>1. edgar # EdgarIdle /\ PassOK(edgar, universe, insider)
    BY DEF EdgarInv, DayFails, EdgarIdle
<1>2. UNCHANGED <<universe, okFor>>
    BY DEF DayFails
<1>3. /\ insider \subseteq insider' /\ \A tx \in insider' : tx.filing.issuer \in universe'
    <2>1. edgar.ciks \subseteq universe
        BY <1>1 DEF PassOK
    <2>2. insider' = insider \cup Attributed(edgar.batch, edgar.ciks) \/ insider' = insider
        BY DEF DayFails
    <2>3. QED BY <1>2, <2>1, <2>2, KeptIsAttributed DEF EdgarInv
<1>4. PICK status, w :
          /\ status \in {"partial", "failed"}
          /\ FinishDay(status, w)
          /\ DOMAIN w = PassFields /\ w.ciks = edgar.ciks
    <2>1. DOMAIN edgar = PassFields
        BY <1>1 DEF PassOK
    <2>2. ASSUME NEW new,
                 FinishDay(IF new THEN "partial" ELSE "failed", [edgar EXCEPT !.new = new])
          PROVE  \E status, w : /\ status \in {"partial", "failed"}
                                /\ FinishDay(status, w)
                                /\ DOMAIN w = PassFields /\ w.ciks = edgar.ciks
        <3> DEFINE w == [edgar EXCEPT !.new = new]
                   status == IF new THEN "partial" ELSE "failed"
        <3>1. DOMAIN w = PassFields /\ w.ciks = edgar.ciks
            BY <2>1 DEF PassFields
        <3>2. status \in {"partial", "failed"} /\ FinishDay(status, w)
            BY <2>2
        <3> HIDE DEF w, status
        <3>3. QED BY <3>1, <3>2
    <2>3. ASSUME FinishDay(IF edgar.new THEN "partial" ELSE "failed", edgar)
          PROVE  \E status, w : /\ status \in {"partial", "failed"}
                                /\ FinishDay(status, w)
                                /\ DOMAIN w = PassFields /\ w.ciks = edgar.ciks
        <3> DEFINE status == IF edgar.new THEN "partial" ELSE "failed"
        <3>1. status \in {"partial", "failed"} /\ FinishDay(status, edgar)
            BY <2>3
        <3> HIDE DEF status
        <3>2. QED BY <2>1, <3>1
    <2>4. \/ \E new : FinishDay(IF new THEN "partial" ELSE "failed", [edgar EXCEPT !.new = new])
          \/ FinishDay(IF edgar.new THEN "partial" ELSE "failed", edgar)
        BY Zenon DEF DayFails
    <2>5. QED BY <2>2, <2>3, <2>4
<1>5. /\ edgarRuns' \in [Days -> Seq(Statuses)]
      /\ \A e \in Days : "ok" \in Range(edgarRuns'[e]) => "ok" \in Range(edgarRuns[e])
      /\ PassOK(edgar', universe', insider')
    <2>1. status \in Statuses /\ status # "ok" /\ w.ciks \subseteq universe
        BY <1>1, <1>4 DEF PassOK, Statuses
    <2>2. QED BY <1>2, <1>4, <2>1, DayFinished
<1>6. OkIsStored' /\ DOMAIN okFor' = Days
    BY <1>2, <1>3, <1>5, NoMoreOk
<1>7. QED BY <1>3, <1>5, <1>6 DEF EdgarInv

\* The steps that store nothing and walk nothing.
LEMMA EdgarRest ==
    ASSUME EdgarInv, insider' = insider, universe \subseteq universe',
           UNCHANGED <<edgarRuns, okFor>>, edgar' = edgar \/ edgar' = EdgarIdle
    PROVE  EdgarInv'
<1>1. OkIsStored' /\ edgarRuns' \in [Days -> Seq(Statuses)] /\ DOMAIN okFor' = Days
    BY StoringMore
<1>2. edgar' # EdgarIdle => PassOK(edgar', universe', insider')
    BY DEF EdgarInv, PassOK
<1>3. QED BY <1>1, <1>2 DEF EdgarInv

LEMMA EdgarStutters == EdgarInv /\ UNCHANGED edgarVars => EdgarInv'
BY EdgarRest DEF edgarVars

LEMMA EdgarInvHolds == EdgarSpec => []EdgarInv
<1>1. EdgarInv /\ [EdgarNext]_edgarVars => EdgarInv'
    <2> SUFFICES ASSUME EdgarInv, [EdgarNext]_edgarVars PROVE EdgarInv'
        OBVIOUS
    <2>1. CASE DayGoesBy
        BY <2>1, EdgarRest DEF DayGoesBy
    <2>2. ASSUME NEW c \in Companies, UniverseGains(c) PROVE EdgarInv'
        BY <2>2, EdgarRest DEF UniverseGains
    <2>3. CASE EndPass
        BY <2>3, EdgarRest DEF EndPass
    <2>4. CASE PassKilled
        BY <2>4, EdgarRest DEF PassKilled
    <2>5. ASSUME NEW throttled \in BOOLEAN, Unlisted(throttled) PROVE EdgarInv'
        BY <2>5, EdgarRest DEF Unlisted
    <2>6. ASSUME NEW throttled \in BOOLEAN, EdgarRefused(throttled) PROVE EdgarInv'
        BY <2>6, EdgarIsRefused
    <2>7. QED
        BY <2>1, <2>2, <2>3, <2>4, <2>5, <2>6, EdgarBeginPass, EdgarStartDay, EdgarReadIndex,
           EdgarFilingRead, EdgarTransactionRead, EdgarLastBatch, EdgarDayOk, EdgarDayFails,
           EdgarStutters DEF EdgarNext
<1>2. QED BY EdgarStarts, <1>1, PTL DEF EdgarSpec

\* A day whose row says 'ok' has all that was indexed of the companies of the universe,
\* and nothing of any other is stored.  (edgar/ingest.py, _walk)
THEOREM OkDaysHaveAll == EdgarSpec => []OkDaysAreWhole
<1>1. EdgarInv => OkDaysAreWhole
    BY DEF EdgarInv, OkIsStored, OkDaysAreWhole
<1>2. QED BY EdgarInvHolds, <1>1, PTL
=============================================================================
