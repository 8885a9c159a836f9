-------------------------------- MODULE Bot ---------------------------------
(***************************************************************************)
(* Steven (bot/agent.py, budget.py, client.py and what they read back from *)
(* audit.event): one person's questions, typed or spoken, in Discord and   *)
(* on the dashboard, several at once.  The trail is the only storage: what *)
(* was spent, what was said and which model was picked are all read from   *)
(* it, and a row that could not be written is a row that never was.  The   *)
(* rows nothing reads back (refusals, errors, transcriptions, tool calls,  *)
(* all of no cost) are left out.                                           *)
(***************************************************************************)
EXTENDS Integers, Sequences, FiniteSets, FiniteSetsExt, SequencesExt

CONSTANTS
    Askers,         \* questions that may be under way at once
    DailyCap,       \* DAILY_SPEND_CAP_USD, in prices of a round on the router
    DearPrice,      \* what a round costs on the model that may be picked
    ToolRounds,     \* MAX_TOOL_ROUNDS
    MemoryExchanges, MemoryAge, ADay, \* MEMORY_EXCHANGES, MEMORY_WINDOW_MINUTES, 24 hours
    LastInstant, MaxAsks, MaxChats, MaxBlinks \* bounds

ASSUME BotAssumption ==
    /\ IsFiniteSet(Askers) /\ Askers # {}
    /\ ToolRounds \in Nat \ {0}
    /\ {DailyCap, DearPrice, MemoryExchanges, MemoryAge, ADay,
        LastInstant, MaxAsks, MaxChats, MaxBlinks} \subseteq Nat

VARIABLES
    instant,
    trail,          \* audit.event
    asking,         \* each question's handler
    chat,           \* the dashboard's: which thread, and whether it has a turn
    bill,           \* ghost: what the provider has charged, and when
    asks, blinks, missed \* questions; the database's failures; charges no row holds

botVars == <<instant, trail, asking, chat, bill, asks, blinks, missed>>

Surfaces == {"web", "discord"}
Price(model) == IF model = "picked" THEN DearPrice ELSE 1
Dearest == Max({1, DearPrice})

NotAsking == [step |-> "idle", surface |-> "web", thread |-> 0, spoken |-> FALSE,
              fresh |-> FALSE, model |-> "router", allowed |-> FALSE,
              memory |-> {}, round |-> 0, cost |-> 0]

BotInit ==
    /\ instant = 0
    /\ trail = <<>>
    /\ asking = [a \in Askers |-> NotAsking]
    /\ chat = [thread |-> 1, turns |-> FALSE]
    /\ bill = [t \in 0 .. LastInstant |-> 0]
    /\ asks = 0
    /\ blinks = 0
    /\ missed = 0

-----------------------------------------------------------------------------
(* What is read back from the trail.                                       *)

\* Mutant: the cap, the memory and the choice are of one identity.
Unfolded(surface) == {surface}

\* A row is of the person whichever identity asked: the two are folded.
Folded(surface) == Surfaces

Within(rows, age) == SelectSeq(rows, LAMBDA r : r.at > instant - age)

Spent24h(surface) ==
    MapThenSumSet(LAMBDA k : trail[k].cost,
                  {k \in DOMAIN trail : /\ trail[k].at > instant - ADay
                                        /\ trail[k].surface \in Folded(surface)})

ChosenModel(surface) ==
    LET picks == SelectSeq(Within(trail, ADay),
                           LAMBDA r : r.op = "model" /\ r.surface \in Folded(surface))
    IN  IF picks = <<>> THEN "router" ELSE Last(picks).model

\* recent_turns: of an exchange, the thread it was in.
RecentTurns(surface) ==
    LET said == SelectSeq(Within(trail, MemoryAge),
                          LAMBDA r : r.op = "reply" /\ r.surface \in Folded(surface))
        n == Len(said)
    IN  {said[k].thread : k \in Max({1, n - MemoryExchanges + 1}) .. n}

-----------------------------------------------------------------------------
(* One question.                                                           *)

At(a, step) == asking[a].step = step
StepsTo(a, step) == asking' = [asking EXCEPT ![a].step = step]
Ends(a) == asking' = [asking EXCEPT ![a] = NotAsking]

\* The database cannot be reached: never an error, always what costs the reply least.
Blinks == blinks < MaxBlinks /\ blinks' = blinks + 1

\* An empty transcript says so, and New chat clears his memory as well as the screen.
Asks(a, surface, spoken) ==
    /\ At(a, "idle")
    /\ asks < MaxAsks
    /\ asks' = asks + 1
    /\ asking' = [asking EXCEPT ![a] =
          [NotAsking EXCEPT !.step = "check", !.surface = surface, !.spoken = spoken,
                            !.thread = IF surface = "web" THEN chat.thread ELSE 0,
                            !.fresh = surface = "web" /\ ~chat.turns]]
    /\ chat' = IF surface = "web" THEN [chat EXCEPT !.turns = TRUE] ELSE chat
    /\ UNCHANGED <<instant, trail, bill, blinks, missed>>

\* budget.check: before the model is called, and before a spoken question is heard.
\* A typed question's model is read with it; what cannot be read is the default.
Checks(a) ==
    /\ At(a, "check")
    /\ \/ /\ asking' = [asking EXCEPT
                ![a].allowed = Spent24h(asking[a].surface) < DailyCap,
                ![a].model = IF asking[a].spoken THEN @ ELSE ChosenModel(asking[a].surface),
                ![a].step = IF asking[a].spoken THEN "listen" ELSE "allowed"]
          /\ UNCHANGED <<blinks, missed>>
       \/ /\ Blinks
          /\ missed' = missed + 1
          /\ asking' = [asking EXCEPT ![a].allowed = TRUE,
                            ![a].step = IF asking[a].spoken THEN "listen" ELSE "allowed"]
    /\ UNCHANGED <<instant, trail, chat, bill, asks>>

\* _listen, _transcribe: over the cap it is not listened to, and what cannot be
\* made out is not asked.  Only then is the model read.
Listens(a) ==
    /\ At(a, "listen")
    /\ \/ asking' = [asking EXCEPT ![a].model = ChosenModel(asking[a].surface),
                                   ![a].step = "allowed"]
       \/ asking[a].allowed /\ Ends(a)
    /\ UNCHANGED <<instant, trail, chat, bill, asks, blinks, missed>>

Refuses(a) ==
    /\ At(a, "allowed")
    /\ ~asking[a].allowed
    /\ Ends(a)
    /\ UNCHANGED <<instant, trail, chat, bill, asks, blinks, missed>>

\* _recall: nothing for a conversation that starts, nor when it cannot be read.
Recalls(a) ==
    /\ At(a, "allowed")
    /\ asking[a].allowed
    /\ \/ /\ asking' = [asking EXCEPT ![a].step = "think",
                           ![a].fresh = FALSE, ![a].spoken = FALSE,
                           ![a].memory = IF asking[a].fresh THEN {}
                                         ELSE RecentTurns(asking[a].surface)]
          /\ UNCHANGED blinks
       \/ ~asking[a].fresh /\ Blinks /\ StepsTo(a, "think")
    /\ UNCHANGED <<instant, trail, chat, bill, asks, missed>>

\* _rounds: each is charged; the last is the reply, whatever it says.
Round(a) ==
    /\ At(a, "think")
    /\ LET cost == Price(asking[a].model)
           round == asking[a].round + 1
       IN  /\ bill' = [bill EXCEPT ![instant] = @ + cost]
           /\ \E more \in BOOLEAN :
                 /\ more => round < ToolRounds
                 /\ asking' = [asking EXCEPT ![a].memory = {}, ![a].round = round, ![a].cost = @ + cost,
                                             ![a].step = IF more THEN "think" ELSE "reply"]
    /\ UNCHANGED <<instant, trail, chat, asks, blinks, missed>>

\* A round cannot be had: what the earlier ones cost is on no row.
RoundFails(a) ==
    /\ At(a, "think")
    /\ blinks < MaxBlinks
    /\ blinks' = blinks + 1
    /\ missed' = missed + (IF asking[a].cost > 0 THEN 1 ELSE 0)
    /\ Ends(a)
    /\ UNCHANGED <<instant, trail, chat, bill, asks>>

Replies(a) ==
    /\ At(a, "reply")
    /\ \/ /\ trail' = Append(trail,
                 [op |-> "reply", surface |-> asking[a].surface, at |-> instant,
                  cost |-> asking[a].cost, model |-> asking[a].model,
                  thread |-> asking[a].thread])
          /\ UNCHANGED <<blinks, missed>>
       \/ Blinks /\ missed' = missed + 1 /\ UNCHANGED trail
    /\ Ends(a)
    /\ UNCHANGED <<instant, chat, bill, asks>>

-----------------------------------------------------------------------------
(* The rest of the dashboard, and the passing of time.                     *)

\* _choose_model: the record is the storage.
Picks(model) ==
    /\ ChosenModel("web") # model
    /\ Len(trail) < MaxAsks
    /\ trail' = Append(trail, [op |-> "model", surface |-> "web", at |-> instant, cost |-> 0,
                               model |-> model, thread |-> 0])
    /\ UNCHANGED <<instant, asking, chat, bill, asks, blinks, missed>>

NewChat ==
    /\ chat.turns
    /\ chat.thread < MaxChats
    /\ chat' = [thread |-> chat.thread + 1, turns |-> FALSE]
    /\ UNCHANGED <<instant, trail, asking, bill, asks, blinks, missed>>

TimePasses ==
    /\ instant < LastInstant
    /\ instant' = instant + 1
    /\ UNCHANGED <<trail, asking, chat, bill, asks, blinks, missed>>

BotNext ==
    \/ \E a \in Askers :
          \/ \E surface \in Surfaces, spoken \in BOOLEAN : Asks(a, surface, spoken)
          \/ Checks(a) \/ Listens(a) \/ Refuses(a) \/ Recalls(a)
          \/ Round(a) \/ RoundFails(a) \/ Replies(a)
    \/ Picks("picked")
    \/ NewChat
    \/ TimePasses

BotSpec == BotInit /\ [][BotNext]_botVars

-----------------------------------------------------------------------------
(* What must hold.                                                         *)

\* What a person is charged in a day passes the cap by no more than the questions
\* that were under way together cost, and one for each the trail missed: the cap
\* "cannot be doubled by asking the same question on the other surface".  (budget.py)
CapPassedOnce ==
    MapThenSumSet(LAMBDA t : bill[t], {t \in DOMAIN bill : t > instant - ADay}) <
        DailyCap + (Cardinality(Askers) + missed) * ToolRounds * Dearest

\* New chat "clears what he remembers and not only what is on screen": no reply in a
\* thread is written with an exchange of another before it.  (respond, fresh)
NewChatForgets ==
    \A a \in Askers :
        At(a, "think") /\ asking[a].surface = "web" =>
            asking[a].memory \subseteq {0, asking[a].thread}
=============================================================================
