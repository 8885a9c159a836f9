------------------------------ MODULE Connector ------------------------------
(***************************************************************************)
(* The connector's grants (mcp/oauth.py, mcp/store.py) and its calls       *)
(* (mcp/protocol.py, playground/config.py).  A client registers, a person  *)
(* who is let in approves it, its code buys a token, and each refresh      *)
(* spends a token for the next of its family.  Requests are threads, every *)
(* statement a transaction of its own; an answer may be lost, so what was  *)
(* presented is presented again.                                           *)
(*                                                                         *)
(* Secrets are the numbers of their rows.  Consent pages, discovery and    *)
(* cookies are left out.                                                   *)
(***************************************************************************)
EXTENDS Integers, Sequences, FiniteSets

CONSTANTS
    Requests,       \* threads of the service
    Logins,
    MaxConcurrent,  \* MAX_CONCURRENT
    MaxClients,     \* bound: registrations
    MaxCodes,       \* bound: approvals
    MaxTokens       \* bound: tokens

ASSUME ConnectorAssumption ==
    /\ {MaxClients, MaxCodes, MaxTokens} \subseteq Nat
    /\ MaxConcurrent \in Nat \ {0}

VARIABLES
    client,     \* mcp.client: how many were registered, and which are forgotten
    grant,      \* mcp.authorization, by code
    token,      \* mcp.token, in the order they were issued
    request,    \* each thread, or Idle
    permitted,  \* ALLOWED_GITHUB_LOGINS
    replayed,   \* ghost: families a spent token of was presented
    raced       \* ghost: those of them that were being extended at the time

connectorVars == <<client, grant, token, request, permitted, replayed, raced>>

IdleRequest == [at |-> "idle"]

ConnectorInit ==
    /\ client = [registered |-> 0, forgotten |-> {}]
    /\ grant = <<>>
    /\ token = <<>>
    /\ request = [r \in Requests |-> IdleRequest]
    /\ permitted = Logins
    /\ replayed = {}
    /\ raced = {}

Clients == 1 .. client.registered \ client.forgotten
Families == {token[k].family : k \in DOMAIN token}

\* A refresh token that can be spent, and an access token that opens.
Unspent(k) == ~token[k].used /\ ~token[k].revoked /\ ~token[k].dead
Opens(k) == ~token[k].stale /\ ~token[k].revoked /\ ~token[k].gone

Issuing(f) == {r \in Requests : request[r].at = "issue" /\ request[r].family = f}

-----------------------------------------------------------------------------
(* Clients and codes.                                                      *)

\* forget_expired: what can be used no more, and day-old clients nothing is of.
PointsAt(c) ==
    \/ \E k \in DOMAIN token : token[k].client = c /\ ~token[k].dead
    \/ \E k \in DOMAIN grant : grant[k].client = c /\ ~grant[k].expired

RegisterClient(old) ==
    /\ client.registered < MaxClients
    /\ old \subseteq {c \in Clients : ~PointsAt(c)}
    /\ token' = [k \in DOMAIN token |-> [token[k] EXCEPT !.gone = @ \/ token[k].dead]]
    /\ client' = [registered |-> client.registered + 1,
                  forgotten |-> client.forgotten \cup old]
    /\ UNCHANGED <<grant, request, permitted, replayed, raced>>

\* approve: the client is known, and who says so is let in.
ApproveClient(c, login) ==
    /\ Len(grant) < MaxCodes
    /\ c \in Clients
    /\ login \in permitted
    /\ grant' = Append(grant, [client |-> c, login |-> login, used |-> FALSE,
                               expired |-> FALSE])
    /\ UNCHANGED <<client, token, request, permitted, replayed, raced>>

-----------------------------------------------------------------------------
(* Tokens.                                                                 *)

Issue(r, c, login, family) ==
    request' = [request EXCEPT ![r] = [at |-> "issue", client |-> c, login |-> login,
                                       family |-> family]]

\* claim_code spends the code, in the statement that finds it unspent; then its
\* client, its address and its verifier are looked at.
ClaimCode(r, k, matches) ==
    /\ request[r] = IdleRequest
    /\ ~grant[k].used /\ ~grant[k].expired
    /\ grant' = [grant EXCEPT ![k].used = TRUE]
    /\ IF matches THEN Issue(r, grant[k].client, grant[k].login, k)
       ELSE UNCHANGED request
    /\ UNCHANGED <<client, token, permitted, replayed, raced>>

\* Mutant: a token is looked at in one statement and spent in another.
ClaimRefreshUnspent(r, k, matches) ==
    /\ request[r] = IdleRequest
    /\ Unspent(k)
    /\ Issue(r, token[k].client, token[k].login, token[k].family)
    /\ UNCHANGED <<client, grant, token, permitted, replayed, raced>>

\* claim_refresh: spends a token, once ...
ClaimRefresh(r, k, matches) ==
    /\ request[r] = IdleRequest
    /\ Unspent(k)
    /\ token' = [token EXCEPT ![k].used = TRUE]
    /\ IF matches THEN Issue(r, token[k].client, token[k].login, token[k].family)
       ELSE UNCHANGED request
    /\ UNCHANGED <<client, grant, permitted, replayed, raced>>

\* Mutant: only the token that is replayed is revoked.
ReplayRefreshAlone(k) ==
    /\ ~Unspent(k) /\ ~token[k].gone
    /\ token' = [token EXCEPT ![k].revoked = TRUE]
    /\ replayed' = replayed \cup {token[k].family}
    /\ raced' = IF Issuing(token[k].family) # {} THEN raced \cup {token[k].family}
                ELSE raced
    /\ UNCHANGED <<client, grant, request, permitted>>

\* ... and one that cannot be spent ends the family it is of.
ReplayRefresh(k) ==
    /\ ~Unspent(k) /\ ~token[k].gone
    /\ LET family == token[k].family
       IN  /\ token' = [j \in DOMAIN token |->
                  [token[j] EXCEPT !.revoked = @ \/ token[j].family = family]]
           /\ replayed' = replayed \cup {family}
           /\ raced' = IF Issuing(family) # {} THEN raced \cup {family} ELSE raced
    /\ UNCHANGED <<client, grant, request, permitted>>

\* _issue: the next token of the family, in a statement of its own.
SaveToken(r) ==
    /\ request[r].at = "issue"
    /\ Len(token) < MaxTokens
    /\ token' = Append(token, [family |-> request[r].family, client |-> request[r].client,
                               login |-> request[r].login, used |-> FALSE,
                               revoked |-> FALSE, stale |-> FALSE, dead |-> FALSE,
                               gone |-> FALSE])
    /\ request' = [request EXCEPT ![r] = IdleRequest]
    /\ UNCHANGED <<client, grant, permitted, replayed, raced>>

\* The database is gone between the two: what was spent buys nothing.
IssueFails(r) ==
    /\ request[r].at = "issue"
    /\ request' = [request EXCEPT ![r] = IdleRequest]
    /\ UNCHANGED <<client, grant, token, permitted, replayed, raced>>

\* Time: a code lapses, an access token goes stale, then its refresh token dies.
Lapses ==
    /\ \/ /\ \E k \in DOMAIN grant : ~grant[k].expired /\ grant' = [grant EXCEPT ![k].expired = TRUE]
          /\ UNCHANGED token
       \/ /\ \E k \in DOMAIN token :
                token' = IF token[k].stale THEN [token EXCEPT ![k].dead = TRUE]
                         ELSE [token EXCEPT ![k].stale = TRUE]
          /\ UNCHANGED grant
    /\ UNCHANGED <<client, request, permitted, replayed, raced>>

\* The operator's list changes under the tokens that are out.
Disallow(login) ==
    /\ permitted' = permitted \ {login}
    /\ UNCHANGED <<client, grant, token, request, replayed, raced>>

-----------------------------------------------------------------------------
(* Calls.                                                                  *)

Calling == {r \in Requests : request[r].at = "call"}

\* bearer: the token opens and its login is let in now.  _call: a slot is had, or
\* the caller is told to try again.
CallTool(r, k) ==
    /\ request[r] = IdleRequest
    /\ Opens(k)
    /\ token[k].login \in permitted
    /\ Cardinality(Calling) < MaxConcurrent
    /\ request' = [request EXCEPT ![r] = [at |-> "call", login |-> token[k].login]]
    /\ UNCHANGED <<client, grant, token, permitted, replayed, raced>>

\* The tool answered or failed: the slot and the role go back either way.
ToolAnswers(r) ==
    /\ request[r].at = "call"
    /\ request' = [request EXCEPT ![r] = IdleRequest]
    /\ UNCHANGED <<client, grant, token, permitted, replayed, raced>>

ConnectorNext ==
    \/ \E old \in SUBSET (1 .. MaxClients) : RegisterClient(old)
    \/ \E c \in 1 .. MaxClients, login \in Logins : ApproveClient(c, login)
    \/ \E r \in Requests :
          \/ \E k \in DOMAIN grant, matches \in BOOLEAN : ClaimCode(r, k, matches)
          \/ \E k \in DOMAIN token, matches \in BOOLEAN : ClaimRefresh(r, k, matches)
          \/ \E k \in DOMAIN token : CallTool(r, k)
          \/ SaveToken(r) \/ IssueFails(r) \/ ToolAnswers(r)
    \/ \E k \in DOMAIN token : ReplayRefresh(k)
    \/ Lapses
    \/ \E login \in Logins : Disallow(login)

ConnectorSpec == ConnectorInit /\ [][ConnectorNext]_connectorVars

-----------------------------------------------------------------------------
(* What must hold.                                                         *)

\* However requests interleave, a family has one end: a token that can be spent,
\* or a thread that is issuing it.  A code starts one family at most, and it is
\* its own.  (claim_code, claim_refresh)
OneSuccessor ==
    \A f \in 1 .. Len(grant) :
        Cardinality({k \in DOMAIN token : token[k].family = f /\ Unspent(k)})
            + Cardinality(Issuing(f)) <= 1

\* A family a spent token of was presented opens nothing, unless its next token
\* was being issued at that moment: that token is saved after the others are
\* revoked, and is not.  (claim_refresh, save_token)
ReplayEndsFamily ==
    \A k \in DOMAIN token :
        token[k].family \in replayed \ raced => token[k].revoked

\* A grant is spent once, and ends when it is spent twice.
GrantsAreSpentOnce == OneSuccessor /\ ReplayEndsFamily
=============================================================================
