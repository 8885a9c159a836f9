------------------------------- MODULE Secrets ------------------------------
(***************************************************************************)
(* How a process keeps its settings those of Infisical                     *)
(* (secrets/infisical.py), and the gateway session of the bot its token    *)
(* and its guild (bot/__main__.py).                                        *)
(*                                                                         *)
(* One thread reads: main while it loads, then the watcher.  Names are     *)
(* written one after another, and the loop of the bot may read them in     *)
(* between.  What is logged, and values that are no text, are left out.    *)
(***************************************************************************)
EXTENDS Naturals

CONSTANTS
    SettingNames,
    SessionNames,   \* SESSION_SETTINGS: DISCORD_BOT_TOKEN, DISCORD_GUILD_ID
    TokenName,      \* ... of which a bot without this one does not run
    GivenNames,     \* those the container sets itself
    SettingValues,
    Unset,          \* no value
    MaxEdits,       \* bound: edits in Infisical
    MaxLapses,      \* bound: access tokens that a process loses
    MaxBoots        \* bound: processes that are started

ASSUME SecretsAssumption ==
    /\ SessionNames \subseteq SettingNames /\ TokenName \in SessionNames
    /\ GivenNames \subseteq SettingNames
    /\ SettingValues # {} /\ Unset \notin SettingValues
    /\ MaxEdits \in Nat /\ MaxLapses \in Nat /\ MaxBoots \in Nat

VARIABLES
    vault,      \* Infisical: a value of each name, or none
    environ,    \* os.environ
    owned,      \* _held.owned
    access,     \* _held.token: none, once, usable, or revoked by Infisical
    poll,       \* where the thread that reads is; "fresh" reads with a token just had
    lastRead,   \* the answer that was taken last
    toSet, toDrop, changedNames,     \* of refresh, while it writes
    gateway,    \* whether the bot is down, loads, is up, or closes its session
    session,    \* the settings the session was begun with
    renewQueued,    \* renew is on its way to the loop
    renewing, stopping,     \* the events of _serve
    told,       \* ghost: an answer of this process had a name in it
    gone,       \* ghost: names Infisical was without at some time
    logins,     \* ghost: logins of this process
    lapses,     \* ghost: access tokens it lost
    edits, boots

infisicalVars == <<vault, gone, edits>>
writingVars == <<toSet, toDrop, changedNames>>
loopVars == <<gateway, session, renewQueued, renewing, stopping, boots>>
ghostVars == <<told, logins, lapses>>
secretsVars == <<infisicalVars, environ, owned, access, poll, lastRead, writingVars, loopVars,
                 ghostVars>>

NoValues == [n \in SettingNames |-> Unset]
Named(values) == {n \in SettingNames : values[n] # Unset}

\* What the container is started with, whatever Infisical says of it.
Container == [n \in SettingNames |-> IF n \in GivenNames THEN CHOOSE v \in SettingValues : TRUE
                                     ELSE Unset]

\* What a session is begun with.
FromEnv == [n \in SessionNames |-> environ[n]]

SecretsInit ==
    /\ vault \in [SettingNames -> SettingValues]
    /\ environ = Container /\ owned = {} /\ access = "none"
    /\ poll = "wait" /\ lastRead = NoValues
    /\ toSet = {} /\ toDrop = {} /\ changedNames = {}
    /\ gateway = "down" /\ session = FromEnv
    /\ renewQueued = FALSE /\ renewing = FALSE /\ stopping = FALSE
    /\ told = FALSE /\ gone = {} /\ logins = 0 /\ lapses = 0 /\ edits = 0 /\ boots = 0

-----------------------------------------------------------------------------
(* _current: read one environment, logging in only when no usable token is *)
(* held.                                                                   *)

\* The login.  A token that does not outlast its margin is to be used once.
LogsIn(lasts) ==
    /\ poll = "login"
    /\ lasts \/ lapses < MaxLapses
    /\ access' = IF lasts THEN "usable" ELSE "once"
    /\ poll' = "fresh"
    /\ logins' = logins + 1
    /\ lapses' = IF lasts THEN lapses ELSE lapses + 1
    /\ UNCHANGED <<infisicalVars, environ, owned, lastRead, writingVars, loopVars, told>>

\* A 401 of a token that was kept is answered by logging in again.
TokenRefused ==
    /\ poll = "read" /\ access = "revoked"
    /\ poll' = "login"
    /\ UNCHANGED <<infisicalVars, environ, owned, access, lastRead, writingVars, loopVars,
                   ghostVars>>

\* Anything else is raised: an outage, values that are hidden, the 401 of a token just
\* had, and an answer without a name to a process that took some.  It ends a process
\* that loads, and only the poll of one that watches.
ReadFails ==
    /\ poll \in {"login", "read", "fresh"}
    /\ poll' = "wait"
    /\ gateway' = IF gateway = "boot" THEN "down" ELSE gateway
    /\ UNCHANGED <<infisicalVars, environ, owned, access, lastRead, writingVars, session,
                   renewQueued, renewing, stopping, boots, ghostVars>>

\* Infisical answers what it has, or by a fault nothing at all.
SecretsRead(got) ==
    /\ poll \in {"read", "fresh"} /\ access # "revoked"
    /\ got \in {vault, NoValues}
    /\ lastRead' = got
    /\ told' = (told \/ Named(got) # {})

-----------------------------------------------------------------------------
(* load_into_environ, main and the start of _serve.                        *)

Boots ==
    /\ gateway = "down" /\ boots < MaxBoots
    /\ environ' = Container /\ owned' = {} /\ access' = "none"
    /\ poll' = "login" /\ lastRead' = NoValues
    /\ gateway' = "boot"
    /\ renewQueued' = FALSE /\ renewing' = FALSE /\ stopping' = FALSE
    /\ told' = FALSE /\ logins' = 0 /\ lapses' = 0
    /\ boots' = boots + 1
    /\ UNCHANGED <<infisicalVars, writingVars, session>>

\* Names the environment has not are applied, and the session is begun with them,
\* before anything watches.
Loads(got) ==
    /\ gateway = "boot" /\ SecretsRead(got)
    /\ owned' = {n \in Named(got) : environ[n] = Unset}
    /\ environ' = [n \in SettingNames |-> IF n \in owned' THEN got[n] ELSE environ[n]]
    /\ poll' = "wait"
    /\ session' = [n \in SessionNames |-> environ'[n]]
    /\ gateway' = IF environ'[TokenName] = Unset THEN "down" ELSE "up"
    /\ UNCHANGED <<infisicalVars, access, writingVars, renewQueued, renewing, stopping, boots,
                   logins, lapses>>

-----------------------------------------------------------------------------
(* refresh, by the watcher.                                                *)

\* A token that was kept is tried; one that was to be used once is not.
Polls ==
    /\ poll = "wait" /\ gateway \in {"up", "closing"}
    /\ poll' = IF access \in {"usable", "revoked"} THEN "read" ELSE "login"
    /\ UNCHANGED <<infisicalVars, environ, owned, access, lastRead, writingVars, loopVars,
                   ghostVars>>

\* An answer is taken, unless it names nothing and some names were taken before: what
\* it sets of the names that are the process's own or nobody's, and what it no longer
\* has of its own.
TakesIn(got) ==
    /\ gateway \in {"up", "closing"} /\ SecretsRead(got)
    /\ Named(got) # {} \/ owned = {}
    /\ poll' = "write"
    /\ toSet' = {n \in Named(got) : IF n \in owned THEN environ[n] # got[n]
                                    ELSE environ[n] = Unset}
    /\ toDrop' = owned \ Named(got)
    /\ changedNames' = {}
    /\ UNCHANGED <<infisicalVars, environ, owned, access, loopVars, logins, lapses>>

\* One name after another, those that are unset last.
Writes(n) ==
    /\ poll = "write"
    /\ n \in toSet \/ (toSet = {} /\ n \in toDrop)
    /\ environ' = [environ EXCEPT ![n] = lastRead[n]]
    /\ owned' = IF n \in toSet THEN owned \cup {n} ELSE owned \ {n}
    /\ toSet' = toSet \ {n} /\ toDrop' = toDrop \ {n}
    /\ changedNames' = changedNames \cup {n}
    /\ UNCHANGED <<infisicalVars, access, poll, lastRead, loopVars, ghostVars>>

\* Mutant: the loop is told of a new token only.
TellsOfToken ==
    /\ poll = "write" /\ toSet = {} /\ toDrop = {}
    /\ renewQueued' = (renewQueued \/ TokenName \in changedNames)
    /\ poll' = "wait" /\ changedNames' = {}
    /\ UNCHANGED <<infisicalVars, environ, owned, access, lastRead, toSet, toDrop, gateway,
                   session, renewing, stopping, boots, ghostVars>>

\* changed, on the watcher's thread: the loop is told when a setting of the session is
\* among the names.
Tells ==
    /\ poll = "write" /\ toSet = {} /\ toDrop = {}
    /\ renewQueued' = (renewQueued \/ changedNames \cap SessionNames # {})
    /\ poll' = "wait" /\ changedNames' = {}
    /\ UNCHANGED <<infisicalVars, environ, owned, access, lastRead, toSet, toDrop, gateway,
                   session, renewing, stopping, boots, ghostVars>>

-----------------------------------------------------------------------------
(* _serve, on its loop.                                                    *)

\* renew, which leaves a bot that stops alone.
Renews ==
    /\ renewQueued /\ gateway \in {"up", "closing"}
    /\ renewQueued' = FALSE
    /\ IF stopping THEN UNCHANGED <<renewing, gateway>>
       ELSE renewing' = TRUE /\ gateway' = "closing"
    /\ UNCHANGED <<infisicalVars, environ, owned, access, poll, lastRead, writingVars, session,
                   stopping, boots, ghostVars>>

\* The session is closed.  A new one is begun with what the environment says by then, if
\* it was closed for that.
Reconnects ==
    /\ gateway = "closing" /\ renewing /\ ~stopping
    /\ environ[TokenName] # Unset
    /\ renewing' = FALSE
    /\ gateway' = "up" /\ session' = FromEnv
    /\ UNCHANGED <<infisicalVars, environ, owned, access, poll, lastRead, writingVars,
                   renewQueued, stopping, boots, ghostVars>>

\* The process ends, and with it its watcher.
Leaves ==
    /\ gateway' = "down"
    /\ poll' = "wait" /\ toSet' = {} /\ toDrop' = {} /\ changedNames' = {}
    /\ UNCHANGED <<infisicalVars, environ, owned, access, lastRead, session, renewQueued,
                   renewing, stopping, boots, ghostVars>>

\* Otherwise the bot is done.
StaysDown ==
    /\ gateway = "closing"
    /\ stopping \/ ~renewing \/ environ[TokenName] = Unset
    /\ Leaves

\* stop: SIGTERM closes the session.
Stops ==
    /\ gateway \in {"up", "closing"} /\ ~stopping
    /\ stopping' = TRUE
    /\ gateway' = "closing"
    /\ UNCHANGED <<infisicalVars, environ, owned, access, poll, lastRead, writingVars, session,
                   renewQueued, renewing, boots, ghostVars>>

\* Discord refuses the token or the guild, or the process dies.
SessionEnds == gateway = "up" /\ Leaves

-----------------------------------------------------------------------------
(* External: Infisical, and who edits in it.                               *)

Edits(n, v) ==
    /\ edits < MaxEdits
    /\ vault[n] # v
    /\ vault' = [vault EXCEPT ![n] = v]
    /\ gone' = IF v = Unset THEN gone \cup {n} ELSE gone
    /\ edits' = edits + 1
    /\ UNCHANGED <<environ, owned, access, poll, lastRead, writingVars, loopVars, ghostVars>>

\* An access token comes to its margin, or is revoked before it.
TokenGoes(to) ==
    /\ access = "usable" /\ lapses < MaxLapses
    /\ access' = to
    /\ lapses' = lapses + 1
    /\ UNCHANGED <<infisicalVars, environ, owned, poll, lastRead, writingVars, loopVars, told,
                   logins>>

SecretsNext ==
    \/ \E lasts \in BOOLEAN : LogsIn(lasts)
    \/ TokenRefused \/ ReadFails
    \/ Boots \/ \E got \in {vault, NoValues} : Loads(got)
    \/ Polls \/ \E got \in {vault, NoValues} : TakesIn(got)
    \/ \E n \in SettingNames : Writes(n)
    \/ Tells
    \/ Renews \/ Reconnects \/ StaysDown \/ Stops \/ SessionEnds
    \/ \E n \in SettingNames, v \in SettingValues \cup {Unset} : Edits(n, v)
    \/ \E to \in {"once", "revoked"} : TokenGoes(to)

SecretsSpec == SecretsInit /\ [][SecretsNext]_secretsVars

-----------------------------------------------------------------------------
(* What must hold.                                                         *)

Serving == gateway \in {"up", "closing"}

\* Between two writes every name is what the last answer says it is, or is not there if
\* that has none, and one the container set is what the container said, whatever is added,
\* edited, deleted and read in which order.  (load_into_environ, refresh)
NamesFollow ==
    (Serving /\ poll # "write") =>
        \A n \in SettingNames : environ[n] = IF n \in GivenNames THEN Container[n]
                                             ELSE lastRead[n]

\* A process that was once answered has every name Infisical was never without: the fault
\* that answers nothing at all takes no credential away.  (refresh)
NothingIsBared ==
    (Serving /\ poll # "write" /\ told) =>
        \A n \in SettingNames \ gone : environ[n] # Unset

\* The session of the bot is one of the token and the guild of the environment, but
\* while names are written and until the loop was told: reading half of an edit, or
\* reading while the session closes, is made good.  (changed, renew, _serve)
SessionFollows ==
    (gateway = "up" /\ poll # "write" /\ ~renewQueued) =>
        \A n \in SessionNames : session[n] = environ[n]

\* A process logs in once, and once again for every token it lost: "logging in on every
\* poll would spend that allowance".  (_current)
LoginsAreSpared == logins <= lapses + 1

\* The settings of a process are those of Infisical, all of them, at the price of a
\* login.  (secrets/infisical.py, bot/__main__.py)
SettingsAreFollowed == NamesFollow /\ NothingIsBared /\ SessionFollows /\ LoginsAreSpared
=============================================================================
