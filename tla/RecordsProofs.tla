--------------------------- MODULE RecordsProofs ----------------------------
(***************************************************************************)
(* What is proved of the settings of a process (Secrets), of what a        *)
(* company is recorded as (Universe), of the models that may be chosen and *)
(* the model servers (Catalogue, Inference), of what a reader is shown of  *)
(* a night (Screen), and of what the panel says of decisions (Panel).      *)
(***************************************************************************)
EXTENDS Secrets, Universe, Catalogue, Inference, Screen, Panel, Sums, SequenceTheorems, TLAPS

-----------------------------------------------------------------------------
(* Secrets.                                                                *)

Vaults == [SettingNames -> SettingValues \cup {Unset}]

SecretsTypeOK ==
    /\ vault \in Vaults /\ environ \in Vaults /\ lastRead \in Vaults
    /\ owned \subseteq SettingNames /\ gone \subseteq SettingNames
    /\ toSet \subseteq SettingNames /\ toDrop \subseteq SettingNames
    /\ access \in {"none", "once", "usable", "revoked"}
    /\ poll \in {"wait", "login", "read", "fresh", "write"}
    /\ gateway \in {"down", "boot", "up", "closing"}
    /\ session \in [SessionNames -> SettingValues \cup {Unset}]
    /\ renewQueued \in BOOLEAN /\ stopping \in BOOLEAN /\ told \in BOOLEAN
    /\ logins \in Nat /\ lapses \in Nat

\* What the process calls its own is what is set and the container did not set.
OwnedIsSet ==
    /\ \A n \in GivenNames : environ[n] = Container[n]
    /\ owned = {n \in SettingNames \ GivenNames : environ[n] # Unset}

\* A process that loads has nothing but its container yet.
BootIsBare == gateway = "boot" => environ = Container /\ ~told

\* Only a process that watches writes, and only what the answer tells it to.
WritesWhatIsSaid ==
    /\ poll = "write" => Serving
    /\ poll # "write" => toSet = {} /\ toDrop = {} /\ changedNames = {}
    /\ \A n \in toSet : n \notin GivenNames /\ lastRead[n] # Unset
    /\ \A n \in toDrop : n \notin GivenNames /\ lastRead[n] = Unset

\* What differs from the answer is still to be written.
DiffersUntilWritten ==
    Serving => \A n \in SettingNames \ GivenNames :
        environ[n] = lastRead[n] \/ n \in toSet \cup toDrop

\* What Infisical was never without was in the answer.
AnswerIsFull ==
    /\ \A n \in SettingNames \ gone : vault[n] # Unset
    /\ (Serving /\ told) =>
          \A n \in SettingNames \ (gone \cup GivenNames) : lastRead[n] # Unset

\* A setting the session was not begun with is among the names that changed, or the loop
\* is told.
SessionIsToldOf ==
    /\ stopping => gateway \in {"closing", "down"}
    /\ (gateway = "up" /\ ~renewQueued) =>
          \A n \in SessionNames : session[n] = environ[n] \/ n \in changedNames

\* While a token is usable there is one login more than were lost.
LoginsAreOwed ==
    /\ poll = "login" => access # "usable"
    /\ logins <= lapses + (IF access = "usable" THEN 1 ELSE 0)

SecretsInv ==
    /\ SecretsTypeOK /\ OwnedIsSet /\ BootIsBare /\ WritesWhatIsSaid /\ DiffersUntilWritten
    /\ AnswerIsFull /\ SessionIsToldOf /\ LoginsAreOwed

\* The container gives a value to the names it sets, and to no other.
LEMMA ContainerSets ==
  ASSUME SecretsAssumption
  PROVE  /\ Container \in Vaults
         /\ \A n \in GivenNames : Container[n] # Unset
         /\ \A n \in SettingNames \ GivenNames : Container[n] = Unset
  <1> DEFINE given == CHOOSE v \in SettingValues : TRUE
  <1>1. given \in SettingValues
    BY DEF SecretsAssumption
  <1>2. Container = [n \in SettingNames |-> IF n \in GivenNames THEN given ELSE Unset]
    BY DEF Container
  <1> HIDE DEF given
  <1> QED  BY <1>1, <1>2 DEF SecretsAssumption, Vaults

LEMMA SecretsInvNext ==
  ASSUME SecretsAssumption, SecretsInv, [SecretsNext]_secretsVars
  PROVE  SecretsInv'
  <1> USE DEF Serving, infisicalVars, writingVars, loopVars, ghostVars, secretsVars
  <1>a. /\ SecretsTypeOK /\ OwnedIsSet /\ BootIsBare /\ WritesWhatIsSaid
        /\ DiffersUntilWritten /\ AnswerIsFull /\ SessionIsToldOf /\ LoginsAreOwed
    BY DEF SecretsInv
  <1>1. ASSUME NEW lasts \in BOOLEAN, LogsIn(lasts) PROVE SecretsInv'
    <2>1. SecretsTypeOK'
      BY <1>a, <1>1, ContainerSets DEF SecretsAssumption, LogsIn, SecretsTypeOK, Vaults
    <2>2. WritesWhatIsSaid'
      BY <1>a, <1>1, ContainerSets
         DEF SecretsAssumption, LogsIn, WritesWhatIsSaid, OwnedIsSet, BootIsBare,
             SecretsTypeOK, Vaults
    <2>3. LoginsAreOwed'
      BY <1>a, <1>1, ContainerSets
         DEF SecretsAssumption, LogsIn, LoginsAreOwed, SecretsTypeOK, Vaults
    <2>4. OwnedIsSet' /\ BootIsBare' /\ DiffersUntilWritten' /\ AnswerIsFull'
          /\ SessionIsToldOf'
      BY <1>a, <1>1
         DEF LogsIn, OwnedIsSet, BootIsBare, DiffersUntilWritten, AnswerIsFull,
             SessionIsToldOf
    <2> QED  BY <2>1, <2>2, <2>3, <2>4 DEF SecretsInv
  <1>2. ASSUME TokenRefused PROVE SecretsInv'
    <2>1. SecretsTypeOK'
      BY <1>a, <1>2, ContainerSets
         DEF SecretsAssumption, TokenRefused, SecretsTypeOK, Vaults
    <2>2. WritesWhatIsSaid'
      BY <1>a, <1>2, ContainerSets
         DEF SecretsAssumption, TokenRefused, WritesWhatIsSaid, OwnedIsSet, BootIsBare,
             SecretsTypeOK, Vaults
    <2>3. LoginsAreOwed'
      BY <1>a, <1>2, ContainerSets
         DEF SecretsAssumption, TokenRefused, LoginsAreOwed, SecretsTypeOK, Vaults
    <2>4. OwnedIsSet' /\ BootIsBare' /\ DiffersUntilWritten' /\ AnswerIsFull'
          /\ SessionIsToldOf'
      BY <1>a, <1>2
         DEF TokenRefused, OwnedIsSet, BootIsBare, DiffersUntilWritten, AnswerIsFull,
             SessionIsToldOf
    <2> QED  BY <2>1, <2>2, <2>3, <2>4 DEF SecretsInv
  <1>3. ASSUME ReadFails PROVE SecretsInv'
    <2>1. SecretsTypeOK'
      BY <1>a, <1>3, ContainerSets DEF SecretsAssumption, ReadFails, SecretsTypeOK, Vaults
    <2>2. BootIsBare'
      BY <1>a, <1>3, ContainerSets
         DEF SecretsAssumption, ReadFails, BootIsBare, WritesWhatIsSaid, SecretsTypeOK,
             Vaults
    <2>3. WritesWhatIsSaid'
      BY <1>a, <1>3, ContainerSets
         DEF SecretsAssumption, ReadFails, WritesWhatIsSaid, OwnedIsSet, BootIsBare,
             SecretsTypeOK, Vaults
    <2>4. DiffersUntilWritten'
      BY <1>a, <1>3, ContainerSets
         DEF SecretsAssumption, ReadFails, DiffersUntilWritten, OwnedIsSet,
             WritesWhatIsSaid, BootIsBare, SecretsTypeOK, Vaults
    <2>5. AnswerIsFull'
      BY <1>a, <1>3, ContainerSets
         DEF SecretsAssumption, ReadFails, AnswerIsFull, BootIsBare, DiffersUntilWritten,
             OwnedIsSet, WritesWhatIsSaid, SecretsTypeOK, Vaults
    <2>6. SessionIsToldOf'
      BY <1>a, <1>3, ContainerSets
         DEF SecretsAssumption, ReadFails, SessionIsToldOf, WritesWhatIsSaid, SecretsTypeOK,
             Vaults
    <2>7. LoginsAreOwed'
      BY <1>a, <1>3, ContainerSets
         DEF SecretsAssumption, ReadFails, LoginsAreOwed, SecretsTypeOK, Vaults
    <2>8. OwnedIsSet'
      BY <1>a, <1>3 DEF ReadFails, OwnedIsSet
    <2> QED  BY <2>1, <2>2, <2>3, <2>4, <2>5, <2>6, <2>7, <2>8 DEF SecretsInv
  <1>4. ASSUME Boots PROVE SecretsInv'
    <2>1. SecretsTypeOK'
      BY <1>a, <1>4, ContainerSets
         DEF SecretsAssumption, Boots, NoValues, SecretsTypeOK, Vaults
    <2>2. OwnedIsSet'
      BY <1>a, <1>4, ContainerSets
         DEF SecretsAssumption, Boots, NoValues, OwnedIsSet, WritesWhatIsSaid, BootIsBare,
             SecretsTypeOK, Vaults
    <2>3. BootIsBare'
      BY <1>a, <1>4, ContainerSets
         DEF SecretsAssumption, Boots, NoValues, BootIsBare, WritesWhatIsSaid,
             SecretsTypeOK, Vaults
    <2>4. WritesWhatIsSaid'
      BY <1>a, <1>4, ContainerSets
         DEF SecretsAssumption, Boots, NoValues, WritesWhatIsSaid, OwnedIsSet, BootIsBare,
             SecretsTypeOK, Vaults
    <2>5. DiffersUntilWritten'
      BY <1>a, <1>4, ContainerSets
         DEF SecretsAssumption, Boots, NoValues, DiffersUntilWritten, OwnedIsSet,
             WritesWhatIsSaid, BootIsBare, SecretsTypeOK, Vaults
    <2>6. AnswerIsFull'
      BY <1>a, <1>4, ContainerSets
         DEF SecretsAssumption, Boots, NoValues, AnswerIsFull, BootIsBare,
             DiffersUntilWritten, OwnedIsSet, WritesWhatIsSaid, SecretsTypeOK, Vaults
    <2>7. SessionIsToldOf'
      BY <1>a, <1>4, ContainerSets
         DEF SecretsAssumption, Boots, NoValues, SessionIsToldOf, WritesWhatIsSaid,
             SecretsTypeOK, Vaults
    <2>8. LoginsAreOwed'
      BY <1>a, <1>4, ContainerSets
         DEF SecretsAssumption, Boots, NoValues, LoginsAreOwed, SecretsTypeOK, Vaults
    <2> QED  BY <2>1, <2>2, <2>3, <2>4, <2>5, <2>6, <2>7, <2>8 DEF SecretsInv
  <1>5. ASSUME NEW got \in {vault, NoValues}, Loads(got) PROVE SecretsInv'
    <2>1. SecretsTypeOK'
      BY <1>a, <1>5, ContainerSets
         DEF SecretsAssumption, Loads, SecretsRead, Named, NoValues, SecretsTypeOK, Vaults
    <2>2. OwnedIsSet'
      BY <1>a, <1>5, ContainerSets
         DEF SecretsAssumption, Loads, SecretsRead, Named, NoValues, OwnedIsSet,
             WritesWhatIsSaid, BootIsBare, SecretsTypeOK, Vaults
    <2>3. BootIsBare'
      BY <1>a, <1>5, ContainerSets
         DEF SecretsAssumption, Loads, SecretsRead, Named, NoValues, BootIsBare,
             WritesWhatIsSaid, SecretsTypeOK, Vaults
    <2>4. WritesWhatIsSaid'
      BY <1>a, <1>5, ContainerSets
         DEF SecretsAssumption, Loads, SecretsRead, Named, NoValues, WritesWhatIsSaid,
             OwnedIsSet, BootIsBare, SecretsTypeOK, Vaults
    <2>5. DiffersUntilWritten'
      BY <1>a, <1>5, ContainerSets
         DEF SecretsAssumption, Loads, SecretsRead, Named, NoValues, DiffersUntilWritten,
             OwnedIsSet, WritesWhatIsSaid, BootIsBare, SecretsTypeOK, Vaults
    <2>6. AnswerIsFull'
      BY <1>a, <1>5, ContainerSets
         DEF SecretsAssumption, Loads, SecretsRead, Named, NoValues, AnswerIsFull, BootIsBare,
             DiffersUntilWritten, OwnedIsSet, WritesWhatIsSaid, SecretsTypeOK, Vaults
    <2>7. SessionIsToldOf'
      BY <1>a, <1>5, ContainerSets
         DEF SecretsAssumption, Loads, SecretsRead, Named, NoValues, SessionIsToldOf,
             WritesWhatIsSaid, SecretsTypeOK, Vaults
    <2>8. LoginsAreOwed'
      BY <1>a, <1>5, ContainerSets
         DEF SecretsAssumption, Loads, SecretsRead, Named, NoValues, LoginsAreOwed,
             SecretsTypeOK, Vaults
    <2> QED  BY <2>1, <2>2, <2>3, <2>4, <2>5, <2>6, <2>7, <2>8 DEF SecretsInv
  <1>6. ASSUME Polls PROVE SecretsInv'
    <2>1. SecretsTypeOK'
      BY <1>a, <1>6, ContainerSets DEF SecretsAssumption, Polls, SecretsTypeOK, Vaults
    <2>2. WritesWhatIsSaid'
      BY <1>a, <1>6, ContainerSets
         DEF SecretsAssumption, Polls, WritesWhatIsSaid, OwnedIsSet, BootIsBare,
             SecretsTypeOK, Vaults
    <2>3. LoginsAreOwed'
      BY <1>a, <1>6, ContainerSets
         DEF SecretsAssumption, Polls, LoginsAreOwed, SecretsTypeOK, Vaults
    <2>4. OwnedIsSet' /\ BootIsBare' /\ DiffersUntilWritten' /\ AnswerIsFull'
          /\ SessionIsToldOf'
      BY <1>a, <1>6
         DEF Polls, OwnedIsSet, BootIsBare, DiffersUntilWritten, AnswerIsFull,
             SessionIsToldOf
    <2> QED  BY <2>1, <2>2, <2>3, <2>4 DEF SecretsInv
  <1>7. ASSUME NEW got \in {vault, NoValues}, TakesIn(got) PROVE SecretsInv'
    <2>1. SecretsTypeOK'
      BY <1>a, <1>7, ContainerSets
         DEF SecretsAssumption, TakesIn, SecretsRead, Named, NoValues, SecretsTypeOK, Vaults
    <2>2. BootIsBare'
      BY <1>a, <1>7, ContainerSets
         DEF SecretsAssumption, TakesIn, SecretsRead, Named, NoValues, BootIsBare,
             WritesWhatIsSaid, SecretsTypeOK, Vaults
    <2>3. WritesWhatIsSaid'
      BY <1>a, <1>7, ContainerSets
         DEF SecretsAssumption, TakesIn, SecretsRead, Named, NoValues, WritesWhatIsSaid,
             OwnedIsSet, BootIsBare, SecretsTypeOK, Vaults
    <2>4. DiffersUntilWritten'
      BY <1>a, <1>7, ContainerSets
         DEF SecretsAssumption, TakesIn, SecretsRead, Named, NoValues, DiffersUntilWritten,
             OwnedIsSet, WritesWhatIsSaid, BootIsBare, SecretsTypeOK, Vaults
    <2>5. AnswerIsFull'
      BY <1>a, <1>7, ContainerSets
         DEF SecretsAssumption, TakesIn, SecretsRead, Named, NoValues, AnswerIsFull,
             BootIsBare, DiffersUntilWritten, OwnedIsSet, WritesWhatIsSaid, SecretsTypeOK,
             Vaults
    <2>6. SessionIsToldOf'
      BY <1>a, <1>7, ContainerSets
         DEF SecretsAssumption, TakesIn, SecretsRead, Named, NoValues, SessionIsToldOf,
             WritesWhatIsSaid, SecretsTypeOK, Vaults
    <2>7. LoginsAreOwed'
      BY <1>a, <1>7, ContainerSets
         DEF SecretsAssumption, TakesIn, SecretsRead, Named, NoValues, LoginsAreOwed,
             SecretsTypeOK, Vaults
    <2>8. OwnedIsSet'
      BY <1>a, <1>7 DEF TakesIn, SecretsRead, OwnedIsSet
    <2> QED  BY <2>1, <2>2, <2>3, <2>4, <2>5, <2>6, <2>7, <2>8 DEF SecretsInv
  <1>8. ASSUME NEW n \in SettingNames, Writes(n) PROVE SecretsInv'
    <2>1. SecretsTypeOK'
      BY <1>a, <1>8, ContainerSets DEF SecretsAssumption, Writes, SecretsTypeOK, Vaults
    <2>2. OwnedIsSet'
      BY <1>a, <1>8, ContainerSets
         DEF SecretsAssumption, Writes, OwnedIsSet, WritesWhatIsSaid, BootIsBare,
             SecretsTypeOK, Vaults
    <2>3. BootIsBare'
      BY <1>a, <1>8, ContainerSets
         DEF SecretsAssumption, Writes, BootIsBare, WritesWhatIsSaid, SecretsTypeOK, Vaults
    <2>4. WritesWhatIsSaid'
      BY <1>a, <1>8, ContainerSets
         DEF SecretsAssumption, Writes, WritesWhatIsSaid, OwnedIsSet, BootIsBare,
             SecretsTypeOK, Vaults
    <2>5. DiffersUntilWritten'
      BY <1>a, <1>8, ContainerSets
         DEF SecretsAssumption, Writes, DiffersUntilWritten, OwnedIsSet, WritesWhatIsSaid,
             BootIsBare, SecretsTypeOK, Vaults
    <2>6. SessionIsToldOf'
      BY <1>a, <1>8, ContainerSets
         DEF SecretsAssumption, Writes, SessionIsToldOf, WritesWhatIsSaid, SecretsTypeOK,
             Vaults
    <2>7. AnswerIsFull' /\ LoginsAreOwed'
      BY <1>a, <1>8 DEF Writes, AnswerIsFull, LoginsAreOwed
    <2> QED  BY <2>1, <2>2, <2>3, <2>4, <2>5, <2>6, <2>7 DEF SecretsInv
  <1>9. ASSUME Tells PROVE SecretsInv'
    <2>1. SecretsTypeOK'
      BY <1>a, <1>9, ContainerSets DEF SecretsAssumption, Tells, SecretsTypeOK, Vaults
    <2>2. WritesWhatIsSaid'
      BY <1>a, <1>9, ContainerSets
         DEF SecretsAssumption, Tells, WritesWhatIsSaid, OwnedIsSet, BootIsBare,
             SecretsTypeOK, Vaults
    <2>3. SessionIsToldOf'
      BY <1>a, <1>9, ContainerSets
         DEF SecretsAssumption, Tells, SessionIsToldOf, WritesWhatIsSaid, SecretsTypeOK,
             Vaults
    <2>4. LoginsAreOwed'
      BY <1>a, <1>9, ContainerSets
         DEF SecretsAssumption, Tells, LoginsAreOwed, SecretsTypeOK, Vaults
    <2>5. OwnedIsSet' /\ BootIsBare' /\ DiffersUntilWritten' /\ AnswerIsFull'
      BY <1>a, <1>9 DEF Tells, OwnedIsSet, BootIsBare, DiffersUntilWritten, AnswerIsFull
    <2> QED  BY <2>1, <2>2, <2>3, <2>4, <2>5 DEF SecretsInv
  <1>10. ASSUME Renews PROVE SecretsInv'
    <2>1. SecretsTypeOK'
      BY <1>a, <1>10, ContainerSets DEF SecretsAssumption, Renews, SecretsTypeOK, Vaults
    <2>2. BootIsBare'
      BY <1>a, <1>10, ContainerSets
         DEF SecretsAssumption, Renews, BootIsBare, WritesWhatIsSaid, SecretsTypeOK, Vaults
    <2>3. WritesWhatIsSaid'
      BY <1>a, <1>10, ContainerSets
         DEF SecretsAssumption, Renews, WritesWhatIsSaid, OwnedIsSet, BootIsBare,
             SecretsTypeOK, Vaults
    <2>4. DiffersUntilWritten'
      BY <1>a, <1>10, ContainerSets
         DEF SecretsAssumption, Renews, DiffersUntilWritten, OwnedIsSet, WritesWhatIsSaid,
             BootIsBare, SecretsTypeOK, Vaults
    <2>5. AnswerIsFull'
      BY <1>a, <1>10, ContainerSets
         DEF SecretsAssumption, Renews, AnswerIsFull, BootIsBare, DiffersUntilWritten,
             OwnedIsSet, WritesWhatIsSaid, SecretsTypeOK, Vaults
    <2>6. SessionIsToldOf'
      BY <1>a, <1>10, ContainerSets
         DEF SecretsAssumption, Renews, SessionIsToldOf, WritesWhatIsSaid, SecretsTypeOK,
             Vaults
    <2>7. OwnedIsSet' /\ LoginsAreOwed'
      BY <1>a, <1>10 DEF Renews, OwnedIsSet, LoginsAreOwed
    <2> QED  BY <2>1, <2>2, <2>3, <2>4, <2>5, <2>6, <2>7 DEF SecretsInv
  <1>11. ASSUME Reconnects PROVE SecretsInv'
    <2>1. SecretsTypeOK'
      BY <1>a, <1>11, ContainerSets
         DEF SecretsAssumption, Reconnects, FromEnv, SecretsTypeOK, Vaults
    <2>2. BootIsBare'
      BY <1>a, <1>11, ContainerSets
         DEF SecretsAssumption, Reconnects, FromEnv, BootIsBare, WritesWhatIsSaid,
             SecretsTypeOK, Vaults
    <2>3. WritesWhatIsSaid'
      BY <1>a, <1>11, ContainerSets
         DEF SecretsAssumption, Reconnects, FromEnv, WritesWhatIsSaid, OwnedIsSet,
             BootIsBare, SecretsTypeOK, Vaults
    <2>4. DiffersUntilWritten'
      BY <1>a, <1>11, ContainerSets
         DEF SecretsAssumption, Reconnects, FromEnv, DiffersUntilWritten, OwnedIsSet,
             WritesWhatIsSaid, BootIsBare, SecretsTypeOK, Vaults
    <2>5. AnswerIsFull'
      BY <1>a, <1>11, ContainerSets
         DEF SecretsAssumption, Reconnects, FromEnv, AnswerIsFull, BootIsBare,
             DiffersUntilWritten, OwnedIsSet, WritesWhatIsSaid, SecretsTypeOK, Vaults
    <2>6. SessionIsToldOf'
      BY <1>a, <1>11, ContainerSets
         DEF SecretsAssumption, Reconnects, FromEnv, SessionIsToldOf, WritesWhatIsSaid,
             SecretsTypeOK, Vaults
    <2>7. OwnedIsSet' /\ LoginsAreOwed'
      BY <1>a, <1>11 DEF Reconnects, OwnedIsSet, LoginsAreOwed
    <2> QED  BY <2>1, <2>2, <2>3, <2>4, <2>5, <2>6, <2>7 DEF SecretsInv
  <1>12. ASSUME StaysDown PROVE SecretsInv'
    <2>1. SecretsTypeOK'
      BY <1>a, <1>12, ContainerSets
         DEF SecretsAssumption, StaysDown, Leaves, SecretsTypeOK, Vaults
    <2>2. BootIsBare'
      BY <1>a, <1>12, ContainerSets
         DEF SecretsAssumption, StaysDown, Leaves, BootIsBare, WritesWhatIsSaid,
             SecretsTypeOK, Vaults
    <2>3. WritesWhatIsSaid'
      BY <1>a, <1>12, ContainerSets
         DEF SecretsAssumption, StaysDown, Leaves, WritesWhatIsSaid, OwnedIsSet, BootIsBare,
             SecretsTypeOK, Vaults
    <2>4. DiffersUntilWritten'
      BY <1>a, <1>12, ContainerSets
         DEF SecretsAssumption, StaysDown, Leaves, DiffersUntilWritten, OwnedIsSet,
             WritesWhatIsSaid, BootIsBare, SecretsTypeOK, Vaults
    <2>5. AnswerIsFull'
      BY <1>a, <1>12, ContainerSets
         DEF SecretsAssumption, StaysDown, Leaves, AnswerIsFull, BootIsBare,
             DiffersUntilWritten, OwnedIsSet, WritesWhatIsSaid, SecretsTypeOK, Vaults
    <2>6. SessionIsToldOf'
      BY <1>a, <1>12, ContainerSets
         DEF SecretsAssumption, StaysDown, Leaves, SessionIsToldOf, WritesWhatIsSaid,
             SecretsTypeOK, Vaults
    <2>7. LoginsAreOwed'
      BY <1>a, <1>12, ContainerSets
         DEF SecretsAssumption, StaysDown, Leaves, LoginsAreOwed, SecretsTypeOK, Vaults
    <2>8. OwnedIsSet'
      BY <1>a, <1>12 DEF StaysDown, Leaves, OwnedIsSet
    <2> QED  BY <2>1, <2>2, <2>3, <2>4, <2>5, <2>6, <2>7, <2>8 DEF SecretsInv
  <1>13. ASSUME Stops PROVE SecretsInv'
    <2>1. SecretsTypeOK'
      BY <1>a, <1>13, ContainerSets DEF SecretsAssumption, Stops, SecretsTypeOK, Vaults
    <2>2. BootIsBare'
      BY <1>a, <1>13, ContainerSets
         DEF SecretsAssumption, Stops, BootIsBare, WritesWhatIsSaid, SecretsTypeOK, Vaults
    <2>3. WritesWhatIsSaid'
      BY <1>a, <1>13, ContainerSets
         DEF SecretsAssumption, Stops, WritesWhatIsSaid, OwnedIsSet, BootIsBare,
             SecretsTypeOK, Vaults
    <2>4. DiffersUntilWritten'
      BY <1>a, <1>13, ContainerSets
         DEF SecretsAssumption, Stops, DiffersUntilWritten, OwnedIsSet, WritesWhatIsSaid,
             BootIsBare, SecretsTypeOK, Vaults
    <2>5. AnswerIsFull'
      BY <1>a, <1>13, ContainerSets
         DEF SecretsAssumption, Stops, AnswerIsFull, BootIsBare, DiffersUntilWritten,
             OwnedIsSet, WritesWhatIsSaid, SecretsTypeOK, Vaults
    <2>6. SessionIsToldOf'
      BY <1>a, <1>13, ContainerSets
         DEF SecretsAssumption, Stops, SessionIsToldOf, WritesWhatIsSaid, SecretsTypeOK,
             Vaults
    <2>7. OwnedIsSet' /\ LoginsAreOwed'
      BY <1>a, <1>13 DEF Stops, OwnedIsSet, LoginsAreOwed
    <2> QED  BY <2>1, <2>2, <2>3, <2>4, <2>5, <2>6, <2>7 DEF SecretsInv
  <1>14. ASSUME SessionEnds PROVE SecretsInv'
    <2>1. SecretsTypeOK'
      BY <1>a, <1>14, ContainerSets
         DEF SecretsAssumption, SessionEnds, Leaves, SecretsTypeOK, Vaults
    <2>2. BootIsBare'
      BY <1>a, <1>14, ContainerSets
         DEF SecretsAssumption, SessionEnds, Leaves, BootIsBare, WritesWhatIsSaid,
             SecretsTypeOK, Vaults
    <2>3. WritesWhatIsSaid'
      BY <1>a, <1>14, ContainerSets
         DEF SecretsAssumption, SessionEnds, Leaves, WritesWhatIsSaid, OwnedIsSet,
             BootIsBare, SecretsTypeOK, Vaults
    <2>4. DiffersUntilWritten'
      BY <1>a, <1>14, ContainerSets
         DEF SecretsAssumption, SessionEnds, Leaves, DiffersUntilWritten, OwnedIsSet,
             WritesWhatIsSaid, BootIsBare, SecretsTypeOK, Vaults
    <2>5. AnswerIsFull'
      BY <1>a, <1>14, ContainerSets
         DEF SecretsAssumption, SessionEnds, Leaves, AnswerIsFull, BootIsBare,
             DiffersUntilWritten, OwnedIsSet, WritesWhatIsSaid, SecretsTypeOK, Vaults
    <2>6. SessionIsToldOf'
      BY <1>a, <1>14, ContainerSets
         DEF SecretsAssumption, SessionEnds, Leaves, SessionIsToldOf, WritesWhatIsSaid,
             SecretsTypeOK, Vaults
    <2>7. LoginsAreOwed'
      BY <1>a, <1>14, ContainerSets
         DEF SecretsAssumption, SessionEnds, Leaves, LoginsAreOwed, SecretsTypeOK, Vaults
    <2>8. OwnedIsSet'
      BY <1>a, <1>14 DEF SessionEnds, Leaves, OwnedIsSet
    <2> QED  BY <2>1, <2>2, <2>3, <2>4, <2>5, <2>6, <2>7, <2>8 DEF SecretsInv
  <1>15. ASSUME NEW n \in SettingNames, NEW v \in SettingValues \cup {Unset}, Edits(n, v)
         PROVE  SecretsInv'
    <2>1. SecretsTypeOK'
      BY <1>a, <1>15, ContainerSets DEF SecretsAssumption, Edits, SecretsTypeOK, Vaults
    <2>2. AnswerIsFull'
      BY <1>a, <1>15, ContainerSets
         DEF SecretsAssumption, Edits, AnswerIsFull, BootIsBare, DiffersUntilWritten,
             OwnedIsSet, WritesWhatIsSaid, SecretsTypeOK, Vaults
    <2>3. OwnedIsSet' /\ BootIsBare' /\ WritesWhatIsSaid' /\ DiffersUntilWritten'
          /\ SessionIsToldOf' /\ LoginsAreOwed'
      BY <1>a, <1>15
         DEF Edits, OwnedIsSet, BootIsBare, WritesWhatIsSaid, DiffersUntilWritten,
             SessionIsToldOf, LoginsAreOwed
    <2> QED  BY <2>1, <2>2, <2>3 DEF SecretsInv
  <1>16. ASSUME NEW to \in {"once", "revoked"}, TokenGoes(to) PROVE SecretsInv'
    <2>1. SecretsTypeOK'
      BY <1>a, <1>16, ContainerSets DEF SecretsAssumption, TokenGoes, SecretsTypeOK, Vaults
    <2>2. LoginsAreOwed'
      BY <1>a, <1>16, ContainerSets
         DEF SecretsAssumption, TokenGoes, LoginsAreOwed, SecretsTypeOK, Vaults
    <2>3. OwnedIsSet' /\ BootIsBare' /\ WritesWhatIsSaid' /\ DiffersUntilWritten'
          /\ AnswerIsFull' /\ SessionIsToldOf'
      BY <1>a, <1>16
         DEF TokenGoes, OwnedIsSet, BootIsBare, WritesWhatIsSaid, DiffersUntilWritten,
             AnswerIsFull, SessionIsToldOf
    <2> QED  BY <2>1, <2>2, <2>3 DEF SecretsInv
  <1>20. CASE UNCHANGED secretsVars
    BY <1>a, <1>20
       DEF SecretsInv, SecretsTypeOK, OwnedIsSet, BootIsBare, WritesWhatIsSaid,
           DiffersUntilWritten, AnswerIsFull, SessionIsToldOf, LoginsAreOwed
  <1> QED  BY <1>1, <1>2, <1>3, <1>4, <1>5, <1>6, <1>7, <1>8, <1>9, <1>10, <1>11, <1>12,
              <1>13, <1>14, <1>15, <1>16, <1>20
              DEF SecretsNext

\* The settings of a process are those of Infisical: each of the names, the session of the
\* bot, and at the price of one login for every token.  (secrets/infisical.py)
THEOREM SettingsFollow == SecretsSpec => []SettingsAreFollowed
  <1>1. SecretsInit => SecretsInv
    <2> SUFFICES ASSUME SecretsInit PROVE SecretsInv
      OBVIOUS
    <2>1. SecretsTypeOK
      BY ContainerSets, SecretsAssumption
         DEF SecretsAssumption, SecretsInit, SecretsTypeOK, Vaults, NoValues, FromEnv
    <2>2. OwnedIsSet
      BY ContainerSets, SecretsAssumption DEF SecretsInit, OwnedIsSet
    <2>3. AnswerIsFull
      BY SecretsAssumption DEF SecretsAssumption, SecretsInit, AnswerIsFull, Serving
    <2>4. BootIsBare /\ WritesWhatIsSaid /\ DiffersUntilWritten /\ SessionIsToldOf
      BY DEF SecretsInit, BootIsBare, WritesWhatIsSaid, DiffersUntilWritten,
         SessionIsToldOf,
             Serving
    <2>5. LoginsAreOwed
      BY DEF SecretsInit, LoginsAreOwed
    <2> QED  BY <2>1, <2>2, <2>3, <2>4, <2>5 DEF SecretsInv
  <1>2. SecretsInv /\ [SecretsNext]_secretsVars => SecretsInv'
    BY SecretsInvNext, SecretsAssumption
  <1>3. SecretsInv => SettingsAreFollowed
    <2> SUFFICES ASSUME SecretsInv PROVE SettingsAreFollowed
      OBVIOUS
    <2>1. NamesFollow
      BY ContainerSets, SecretsAssumption
         DEF SecretsInv, OwnedIsSet, WritesWhatIsSaid, DiffersUntilWritten, NamesFollow
    <2>2. NothingIsBared
      BY ContainerSets, SecretsAssumption
         DEF SecretsInv, OwnedIsSet, WritesWhatIsSaid, DiffersUntilWritten, AnswerIsFull,
             NothingIsBared
    <2>3. SessionFollows
      BY DEF SecretsInv, WritesWhatIsSaid, SessionIsToldOf, SessionFollows
    <2>4. LoginsAreSpared
      BY DEF SecretsInv, SecretsTypeOK, LoginsAreOwed, LoginsAreSpared
    <2> QED  BY <2>1, <2>2, <2>3, <2>4 DEF SettingsAreFollowed
  <1> QED  BY <1>1, <1>2, <1>3, PTL DEF SecretsSpec

-----------------------------------------------------------------------------
(* Universe.                                                               *)

Ciks == Range(IssuerOf) \cup {NoCik}
Securities == [shares : Shares, taken : SUBSET Shares, cik : Ciks, active : BOOLEAN,
               symbol : Tickers, since : Nat]
Rows(n, Values) == [of : 1 .. n, is : Values, from : Nat, to : Nat]

UniverseTypeOK ==
    /\ calendar \in Nat /\ loads \in Nat
    /\ had \in [Shares -> SUBSET Tickers]
    /\ IsFiniteSet(csv)
    /\ csv \subseteq [of : Shares, symbol : Tickers, industry : Industries, cik : Ciks]
    /\ security \in Seq(Securities)
    /\ symbolRow \subseteq Rows(Len(security), Tickers)
    /\ sectorRow \subseteq Rows(Len(security), Industries)

\* The file has a row at most of each class of shares, and of each ticker, and says
\* whose they are or nothing.
FileIsOfOne ==
    /\ \A r, q \in csv : r.of = q.of \/ r.symbol = q.symbol => r = q
    /\ \A r \in csv : r.cik \in {NoCik, IssuerOf[r.of]}

\* A security is known by the issuer of its shares, and by a ticker that one had.
KnownByIts ==
    \A s \in Ids :
        /\ security[s].cik \in {NoCik, IssuerOf[security[s].shares]}
        /\ \E o \in Shares : /\ IssuerOf[o] = IssuerOf[security[s].shares]
                             /\ security[s].symbol \in had[o]

\* The symbol of a security is of an open row, and no other's.
SymbolsAreOpen ==
    \A s \in Ids : \E q \in symbolRow : q.of = s /\ q.to = 0 /\ q.is = security[s].symbol

SymbolsAreApart == \A s, o \in Ids : s # o => security[s].symbol # security[o].symbol

\* The row is of the security, on the day.
On(r, s, d) == r.of = s /\ r.from <= d /\ (r.to = 0 \/ d < r.to)

\* The rows of each tile the days since it was first seen, and the last is open.
Tiled(rows, since) ==
    \A s \in DOMAIN since :
        /\ \E o \in rows : o.of = s /\ o.to = 0
        /\ \A d \in Nat, r, q \in rows : On(r, s, d) /\ On(q, s, d) => r = q
        /\ \A d \in Nat : since[s] <= d => \E r \in rows : On(r, s, d)

Since == [s \in Ids |-> security[s].since]

UniverseInv ==
    /\ UniverseTypeOK /\ FileIsOfOne /\ KnownByIts /\ SymbolsAreOpen /\ SymbolsAreApart
    /\ OneSecurityEach /\ OneCompanyEach
    /\ Tiled(symbolRow, Since) /\ Tiled(sectorRow, Since)

\* The open rows of what changes are shut on a day, and one is opened then for each of those and
\* each that is new.
MovesOn(n, m, rows, after, since, since2, changed, asOf, shut, opened, fresh) ==
    /\ n \in Nat /\ m \in Nat /\ asOf \in Nat \ {0} /\ changed \subseteq 1 .. n
    /\ since \in [1 .. n -> Nat] /\ since2 \in [1 .. n + m -> Nat]
    /\ \A s \in 1 .. n : since2[s] = since[s]
    /\ \A k \in 1 .. m : since2[n + k] = asOf
    /\ \A r \in rows : /\ r.of \in 1 .. n /\ r.from \in Nat /\ r.to \in Nat
                       /\ r.of \in changed /\ r.to = 0 => r.from <= asOf
                       /\ shut[r] \in after
                       /\ shut[r].of = r.of /\ shut[r].from = r.from
                       /\ shut[r].to = (IF r.of \in changed /\ r.to = 0 THEN asOf ELSE r.to)
                       /\ ~(r.of \in changed /\ r.to = 0) => shut[r] = r
    /\ \A s \in changed : /\ opened[s] \in after /\ opened[s].of = s
                          /\ opened[s].from = asOf /\ opened[s].to = 0
    /\ \A k \in 1 .. m : /\ fresh[k] \in after /\ fresh[k].of = n + k
                         /\ fresh[k].from = asOf /\ fresh[k].to = 0
    /\ \A p \in after : \/ \E r \in rows : p = shut[r]
                        \/ \E s \in changed : p = opened[s]
                        \/ \E k \in 1 .. m : p = fresh[k]

\* Then every day still has one row.
LEMMA TilesStay ==
    ASSUME NEW n, NEW m, NEW rows, NEW after, NEW since, NEW since2, NEW changed, NEW asOf,
           NEW shut, NEW opened, NEW fresh,
           MovesOn(n, m, rows, after, since, since2, changed, asOf, shut, opened, fresh),
           Tiled(rows, since)
    PROVE  Tiled(after, since2)
<1>0. /\ n \in Nat /\ m \in Nat /\ asOf \in Nat \ {0} /\ changed \subseteq 1 .. n
      /\ since \in [1 .. n -> Nat] /\ since2 \in [1 .. n + m -> Nat]
      /\ \A s \in 1 .. n : since2[s] = since[s]
      /\ \A k \in 1 .. m : since2[n + k] = asOf
      /\ \A r \in rows : /\ r.of \in 1 .. n /\ r.from \in Nat /\ r.to \in Nat
                         /\ r.of \in changed /\ r.to = 0 => r.from <= asOf
                         /\ shut[r] \in after
                         /\ shut[r].of = r.of /\ shut[r].from = r.from
                         /\ shut[r].to = (IF r.of \in changed /\ r.to = 0 THEN asOf ELSE r.to)
                         /\ ~(r.of \in changed /\ r.to = 0) => shut[r] = r
      /\ \A s \in changed : /\ opened[s] \in after /\ opened[s].of = s
                            /\ opened[s].from = asOf /\ opened[s].to = 0
      /\ \A k \in 1 .. m : /\ fresh[k] \in after /\ fresh[k].of = n + k
                           /\ fresh[k].from = asOf /\ fresh[k].to = 0
      /\ \A p \in after : \/ \E r \in rows : p = shut[r]
                          \/ \E s \in changed : p = opened[s]
                          \/ \E k \in 1 .. m : p = fresh[k]
    BY DEF MovesOn
<1> USE <1>0
<1>1. \A s \in 1 .. n, p \in after : p.of = s =>
          \/ \E r \in rows : p = shut[r] /\ r.of = s
          \/ s \in changed /\ p = opened[s]
    <2> SUFFICES ASSUME NEW s \in 1 .. n, NEW p \in after, p.of = s
                 PROVE  \/ \E r \in rows : p = shut[r] /\ r.of = s
                        \/ s \in changed /\ p = opened[s]
        OBVIOUS
    <2>1. CASE \E r \in rows : p = shut[r]
        BY <2>1
    <2>2. CASE \E x \in changed : p = opened[x]
        BY <2>2
    <2>3. CASE \E k \in 1 .. m : p = fresh[k]
        BY <2>3
    <2> QED  BY <2>1, <2>2, <2>3
<1>9. ASSUME NEW s \in 1 .. n, s \notin changed
      PROVE  /\ \E o \in after : o.of = s /\ o.to = 0
             /\ \A d \in Nat, r, q \in after : On(r, s, d) /\ On(q, s, d) => r = q
             /\ \A d \in Nat : since2[s] <= d => \E r \in after : On(r, s, d)
    <2>0. /\ \E o \in rows : o.of = s /\ o.to = 0
          /\ \A d \in Nat, r, q \in rows : On(r, s, d) /\ On(q, s, d) => r = q
          /\ \A d \in Nat : since[s] <= d => \E r \in rows : On(r, s, d)
        BY DEF Tiled
    <2>1. \A r \in rows : r.of = s => shut[r] = r
        BY <1>9
    <2>2. \A p \in after : p.of = s => p \in rows
        BY <1>1, <1>9, <2>1
    <2>3. \A r \in rows : r.of = s => r \in after
        BY <2>1
    <2>4. \E o \in after : o.of = s /\ o.to = 0
        BY <2>0, <2>3
    <2>5. \A d \in Nat, r, q \in after : On(r, s, d) /\ On(q, s, d) => r = q
        BY <2>0, <2>2 DEF On
    <2>6. \A d \in Nat : since2[s] <= d => \E r \in after : On(r, s, d)
        BY <2>0, <2>3 DEF On
    <2> QED
        BY <2>4, <2>5, <2>6
<1>10. ASSUME NEW s \in changed
       PROVE  /\ \E o \in after : o.of = s /\ o.to = 0
              /\ \A d \in Nat, r, q \in after : On(r, s, d) /\ On(q, s, d) => r = q
              /\ \A d \in Nat : since2[s] <= d => \E r \in after : On(r, s, d)
    <2>0. /\ \E o \in rows : o.of = s /\ o.to = 0
          /\ \A d \in Nat, r, q \in rows : On(r, s, d) /\ On(q, s, d) => r = q
          /\ \A d \in Nat : since[s] <= d => \E r \in rows : On(r, s, d)
        BY DEF Tiled
    <2>1. PICK o \in rows : o.of = s /\ o.to = 0
        BY <2>0
    <2>2. \A r \in rows : r.of = s /\ r.to = 0 => r.from <= asOf
        OBVIOUS
    <2>3. \A d \in Nat, r \in rows : d >= asOf /\ On(r, s, d) => r = o
        <3> SUFFICES ASSUME NEW d \in Nat, NEW r \in rows, d >= asOf, On(r, s, d)
                     PROVE  r = o
            OBVIOUS
        <3>1. On(o, s, d)
            BY <2>1, <2>2 DEF On
        <3> QED  BY <3>1, <2>0
    <2>5. \A p \in after : p.of = s => p = opened[s] \/ \E r \in rows : p = shut[r] /\ r.of = s
        BY <1>1
    <2>6. ASSUME NEW d \in Nat, NEW r \in rows, r.of = s, On(shut[r], s, d)
          PROVE  d < asOf /\ On(r, s, d)
        <3>1. CASE r.to = 0
            BY <2>6, <3>1 DEF On
        <3>2. CASE r.to # 0
            <4>1. On(r, s, d)
                BY <2>6, <3>2 DEF On
            <4>2. d >= asOf => r = o
                BY <4>1, <2>3
            <4>3. d < asOf
                BY <4>2, <3>2, <2>1
            <4> QED  BY <4>1, <4>3
        <3> QED  BY <3>1, <3>2
    <2>7. ASSUME NEW d \in Nat, On(opened[s], s, d)
          PROVE  d >= asOf
        BY <2>7 DEF On
    <2>8. ASSUME NEW d \in Nat, NEW r \in rows, d < asOf, On(r, s, d)
          PROVE  On(shut[r], s, d)
        BY <2>8 DEF On
    <2>9. ASSUME NEW d \in Nat, NEW p \in after, On(p, s, d)
          PROVE  \/ d >= asOf /\ p = opened[s]
                 \/ d < asOf /\ \E r \in rows : p = shut[r] /\ On(r, s, d)
        <3>1. p.of = s
            BY <2>9 DEF On
        <3>2. CASE p = opened[s]
            BY <2>7, <2>9, <3>2
        <3>3. CASE \E r \in rows : p = shut[r] /\ r.of = s
            <4>1. PICK r \in rows : p = shut[r] /\ r.of = s
                BY <3>3
            <4>2. On(shut[r], s, d)
                BY <2>9, <4>1
            <4>3. d < asOf /\ On(r, s, d)
                BY <4>1, <4>2, <2>6
            <4> QED  BY <4>1, <4>3
        <3> QED  BY <3>1, <3>2, <3>3, <2>5
    <2>11. ASSUME NEW d \in Nat, NEW p \in after, NEW q \in after, On(p, s, d), On(q, s, d)
           PROVE  p = q
        <3>1. CASE d >= asOf
            <4>1. p = opened[s]
                BY <2>9, <2>11, <3>1
            <4>2. q = opened[s]
                BY <2>9, <2>11, <3>1
            <4> QED  BY <4>1, <4>2
        <3>2. CASE d < asOf
            <4>0. /\ \E r \in rows : p = shut[r] /\ On(r, s, d)
                  /\ \E r \in rows : q = shut[r] /\ On(r, s, d)
                BY ONLY <2>9, <2>11, <3>2, asOf \in Nat, d \in Nat
            <4>1. PICK r \in rows : p = shut[r] /\ On(r, s, d)
                BY <4>0
            <4>2. PICK x \in rows : q = shut[x] /\ On(x, s, d)
                BY <4>0
            <4>3. r = x
                BY <4>1, <4>2, <2>0
            <4> QED  BY <4>1, <4>2, <4>3
        <3> QED  BY <3>1, <3>2
    <2>10. ASSUME NEW d \in Nat, since2[s] <= d
           PROVE  \E r \in after : On(r, s, d)
        <3>1. CASE d >= asOf
            <4>1. On(opened[s], s, d)
                BY <3>1 DEF On
            <4> QED  BY <4>1
        <3>2. CASE d < asOf
            <4>1. PICK r \in rows : On(r, s, d)
                BY <2>0, <2>10
            <4>2. On(shut[r], s, d)
                BY <4>1, <3>2, <2>8
            <4> QED  BY <4>2
        <3> QED  BY <3>1, <3>2
    <2> QED
        BY <2>10, <2>11
<1>11. ASSUME NEW k \in 1 .. m
       PROVE  /\ \E o \in after : o.of = n + k /\ o.to = 0
              /\ \A d \in Nat, r, q \in after : On(r, n + k, d) /\ On(q, n + k, d) => r = q
              /\ \A d \in Nat : since2[n + k] <= d => \E r \in after : On(r, n + k, d)
    <2>1. ASSUME NEW p \in after, p.of = n + k
          PROVE  p = fresh[k]
        <3>1. CASE \E r \in rows : p = shut[r]
            BY <2>1, <3>1
        <3>2. CASE \E x \in changed : p = opened[x]
            BY <2>1, <3>2
        <3>3. CASE \E x \in 1 .. m : p = fresh[x]
            BY <2>1, <3>3
        <3> QED  BY <3>1, <3>2, <3>3
    <2>2. fresh[k] \in after /\ fresh[k].of = n + k /\ fresh[k].to = 0
        OBVIOUS
    <2>3. \A d \in Nat, r, q \in after : On(r, n + k, d) /\ On(q, n + k, d) => r = q
        BY <2>1 DEF On
    <2>4. \A d \in Nat : asOf <= d => On(fresh[k], n + k, d)
        BY DEF On
    <2> QED
        BY <2>2, <2>3, <2>4
<1>12. \A s \in 1 .. n + m : s \in 1 .. n \/ \E k \in 1 .. m : s = n + k
    <2>1. \A s \in 1 .. n + m : s \notin 1 .. n => s - n \in 1 .. m /\ s = n + (s - n)
        OBVIOUS
    <2> QED  BY <2>1
<1>13. ASSUME NEW s \in DOMAIN since2
       PROVE  /\ \E o \in after : o.of = s /\ o.to = 0
              /\ \A d \in Nat, r, q \in after : On(r, s, d) /\ On(q, s, d) => r = q
              /\ \A d \in Nat : since2[s] <= d => \E r \in after : On(r, s, d)
    <2>1. CASE s \in 1 .. n
        BY <1>9, <1>10, <2>1
    <2>2. CASE \E k \in 1 .. m : s = n + k
        <3>1. PICK k \in 1 .. m : s = n + k
            BY <2>2
        <3>2. /\ \E o \in after : o.of = n + k /\ o.to = 0
              /\ \A d \in Nat, r, q \in after : On(r, n + k, d) /\ On(q, n + k, d) => r = q
              /\ \A d \in Nat : since2[n + k] <= d => \E r \in after : On(r, n + k, d)
            BY <1>11
        <3> QED  BY <3>1, <3>2
    <2> QED  BY <1>12, <2>1, <2>2
<1> QED
    BY <1>13 DEF Tiled

LEMMA SecuritiesAre ==
    ASSUME UniverseTypeOK
    PROVE  /\ Ids = 1 .. Len(security) /\ Len(security) \in Nat
           /\ \A s \in Ids : /\ security[s] \in Securities
                            /\ security[s].shares \in Shares /\ security[s].symbol \in Tickers
                            /\ security[s].taken \in SUBSET Shares /\ security[s].since \in Nat
<1>1. security \in Seq(Securities)
    BY DEF UniverseTypeOK
<1>2. \A s \in 1 .. Len(security) : security[s] \in Securities
    BY <1>1, ElementOfSeq
<1>3. Ids = 1 .. Len(security) /\ Len(security) \in Nat
    BY <1>1, LenProperties DEF Ids
<1> QED
    BY <1>2, <1>3 DEF Securities

\* Rows that stay tile the same days.
LEMMA SameTiles ==
    ASSUME UNCHANGED stored, Tiled(symbolRow, Since), Tiled(sectorRow, Since)
    PROVE  Tiled(symbolRow, Since)' /\ Tiled(sectorRow, Since)'
<1>1. symbolRow' = symbolRow /\ sectorRow' = sectorRow /\ security' = security
    BY DEF stored
<1>2. Since' = Since
    BY <1>1 DEF Since, Ids
<1>3. Tiled(symbolRow, Since)' = Tiled(symbolRow, Since)
    BY <1>1, <1>2 DEF Tiled, On
<1>4. Tiled(sectorRow, Since)' = Tiled(sectorRow, Since)
    BY <1>1, <1>2 DEF Tiled, On
<1> QED  BY <1>3, <1>4

\* A row is matched with one security or none: by its CIK where a security has it, and else by
\* its symbol.
LEMMA MatchIsOne ==
    ASSUME UniverseTypeOK, SymbolsAreApart, NEW last \in Lasts, NEW r \in csv
    PROVE  /\ Match(r, last) = {} => r.cik \notin CiksHeld /\ \A s \in Ids : security[s].symbol # r.symbol
           /\ Match(r, last) # {} =>
                 \E s \in Ids : /\ Match(r, last) = {s}
                                /\ \/ r.cik # NoCik /\ security[s].cik = r.cik
                                   \/ security[s].symbol = r.symbol
<1>1. DOMAIN last = CiksHeld /\ \A cik \in CiksHeld : last[cik] \in Ids /\ security[last[cik]].cik = cik
    BY DEF Lasts
<1>2. CASE r.cik \in CiksHeld
    <2>1. Match(r, last) = {last[r.cik]} /\ last[r.cik] \in Ids /\ security[last[r.cik]].cik = r.cik
        BY <1>1, <1>2 DEF Match
    <2>2. r.cik # NoCik
        BY <1>2 DEF CiksHeld
    <2> QED  BY <2>1, <2>2
<1>3. CASE r.cik \notin CiksHeld
    <2>1. Match(r, last) = {s \in Ids : security[s].symbol = r.symbol}
        BY <1>1, <1>3 DEF Match, BySymbol
    <2> QED  BY <1>3, <2>1 DEF SymbolsAreApart
<1> QED  BY <1>2, <1>3

\* The row that found a security is one of the file, and found that one alone.
LEMMA FoundByARow ==
    ASSUME UniverseTypeOK, SymbolsAreApart, NEW last \in Lasts, NEW s \in Found(csv, last)
    PROVE  s \in Ids /\ RowOf(csv, last, s) \in csv /\ Match(RowOf(csv, last, s), last) = {s}
<1>1. PICK r \in csv : s \in Match(r, last)
    BY DEF Found
<1>2. Match(r, last) = {s} /\ s \in Ids
    BY <1>1, MatchIsOne
<1> QED  BY <1>1, <1>2 DEF RowOf

LEMMA UniverseInitOK == ASSUME UniverseAssumption, UniverseInit PROVE UniverseInv
<1> USE DEF UniverseInit
<1>1. Ids = {} /\ Len(security) = 0 /\ security \in Seq(Securities)
    BY DEF Ids
<1>2. UniverseTypeOK
    BY <1>1, FS_EmptySet DEF UniverseTypeOK
<1>3. Tiled(symbolRow, Since) /\ Tiled(sectorRow, Since)
    BY <1>1 DEF Tiled, Since
<1> QED
    BY <1>1, <1>2, <1>3 DEF UniverseInv, FileIsOfOne, KnownByIts, SymbolsAreOpen, SymbolsAreApart,
                            OneSecurityEach, OneCompanyEach

\* What the database has is as good as it was, where that and what was had do not change.
LEMMA SameBooks ==
    ASSUME UniverseInv, UNCHANGED stored, had' = had
    PROVE  /\ KnownByIts' /\ SymbolsAreOpen' /\ SymbolsAreApart' /\ OneSecurityEach' /\ OneCompanyEach'
           /\ Tiled(symbolRow, Since)' /\ Tiled(sectorRow, Since)'
<1>1. security' = security /\ symbolRow' = symbolRow
    BY DEF stored
<1>2. Ids' = Ids
    BY <1>1 DEF Ids
<1>3. Tiled(symbolRow, Since)' /\ Tiled(sectorRow, Since)'
    BY SameTiles DEF UniverseInv
<1>4. KnownByIts'
    BY <1>1, <1>2 DEF UniverseInv, KnownByIts
<1>5. SymbolsAreOpen' /\ SymbolsAreApart'
    BY <1>1, <1>2 DEF UniverseInv, SymbolsAreOpen, SymbolsAreApart
<1>6. OneSecurityEach'
    BY <1>1, <1>2 DEF UniverseInv, OneSecurityEach
<1>7. OneCompanyEach'
    BY <1>1, <1>2 DEF UniverseInv, OneCompanyEach
<1> QED  BY <1>3, <1>4, <1>5, <1>6, <1>7

LEMMA RefreshKeeps ==
    ASSUME UniverseAssumption, UniverseInv, NEW listed \in Rosters, Refresh(listed)
    PROVE  UniverseInv'
<1> DEFINE row == [c \in DOMAIN listed |->
                      [of |-> c, symbol |-> listed[c].ticker, industry |-> listed[c].industry,
                       cik |-> IF listed[c].filed THEN IssuerOf[c] ELSE NoCik]]
<1>1. /\ csv' = {row[c] : c \in DOMAIN listed}
      /\ UNCHANGED <<calendar, had, security, symbolRow, sectorRow, loads>> /\ UNCHANGED stored
    BY DEF Refresh, stored
<1>2. /\ DOMAIN listed \subseteq Shares /\ IsFiniteSet(DOMAIN listed)
      /\ \A c \in DOMAIN listed :
            /\ listed[c].ticker \in Tickers /\ listed[c].industry \in Industries
            /\ \A o \in DOMAIN listed \ {c} : listed[o].ticker # listed[c].ticker
      /\ \A c \in Shares : IssuerOf[c] \in Range(IssuerOf)
    BY DEF UniverseAssumption
<1>3. \A c \in DOMAIN listed :
          /\ row[c].of = c /\ row[c].symbol = listed[c].ticker
          /\ row[c].cik \in {NoCik, IssuerOf[c]}
          /\ row[c] \in [of : Shares, symbol : Tickers, industry : Industries, cik : Ciks]
    BY <1>2 DEF Ciks
<1>4. IsFiniteSet(csv')
    <2>1. row \in Surjection(DOMAIN listed, csv')
        BY <1>1 DEF Surjection
    <2> QED  BY <1>2, <2>1, FS_Surjection
<1> HIDE DEF row
<1>5. \A r \in csv' : \E c \in DOMAIN listed : r = row[c]
    BY <1>1
<1>6. UniverseTypeOK'
    BY <1>1, <1>3, <1>4, <1>5 DEF UniverseInv, UniverseTypeOK
<1>7. FileIsOfOne'
    <2>1. ASSUME NEW r \in csv', NEW q \in csv', r.of = q.of \/ r.symbol = q.symbol
          PROVE  r = q
        <3>1. PICK c \in DOMAIN listed : r = row[c]
            BY <1>5
        <3>2. PICK o \in DOMAIN listed : q = row[o]
            BY <1>5
        <3>3. c = o
            BY <1>2, <1>3, <2>1, <3>1, <3>2
        <3> QED  BY <3>1, <3>2, <3>3
    <2>2. ASSUME NEW r \in csv' PROVE r.cik \in {NoCik, IssuerOf[r.of]}
        BY <1>3, <1>5
    <2> QED  BY <2>1, <2>2 DEF FileIsOfOne
<1> QED  BY <1>1, <1>6, <1>7, SameBooks DEF UniverseInv

\* What a load does to the rows, whether of symbols or of industries.
Rewritten(rows, n, m, changed, asOf, is, news) ==
    Close(rows, changed, asOf)
    \cup {[of |-> s, is |-> is[s], from |-> asOf, to |-> 0] : s \in changed}
    \cup {[of |-> n + k, is |-> news[k], from |-> asOf, to |-> 0] : k \in 1 .. m}

LEMMA RowsStayTiled ==
    ASSUME NEW n \in Nat, NEW m \in Nat, NEW Values, NEW rows \in SUBSET Rows(n, Values),
           NEW since \in [1 .. n -> Nat], Tiled(rows, since),
           NEW changed \in SUBSET (1 .. n), NEW asOf \in Nat \ {0},
           ~Backdated(changed, rows, asOf),
           NEW is \in [changed -> Values], NEW news \in [1 .. m -> Values],
           NEW since2 \in [1 .. n + m -> Nat],
           \A s \in 1 .. n : since2[s] = since[s],
           \A k \in 1 .. m : since2[n + k] = asOf
    PROVE  /\ Rewritten(rows, n, m, changed, asOf, is, news) \subseteq Rows(n + m, Values)
           /\ Tiled(Rewritten(rows, n, m, changed, asOf, is, news), since2)
<1> DEFINE after == Rewritten(rows, n, m, changed, asOf, is, news)
           shut == [r \in rows |-> IF r.of \in changed /\ r.to = 0 THEN [r EXCEPT !.to = asOf] ELSE r]
           opened == [s \in changed |-> [of |-> s, is |-> is[s], from |-> asOf, to |-> 0]]
           fresh == [k \in 1 .. m |-> [of |-> n + k, is |-> news[k], from |-> asOf, to |-> 0]]
<1>1. after = {shut[r] : r \in rows} \cup {opened[s] : s \in changed} \cup {fresh[k] : k \in 1 .. m}
    BY DEF Rewritten, Close
<1>2. \A r \in rows : r.of \in 1 .. n /\ r.is \in Values /\ r.from \in Nat /\ r.to \in Nat
    BY DEF Rows
<1>0. Rows(n, Values) \subseteq Rows(n + m, Values)
    BY DEF Rows
<1>3. \A r \in rows : /\ shut[r] \in Rows(n, Values)
                      /\ shut[r].of = r.of /\ shut[r].from = r.from
                      /\ shut[r].to = (IF r.of \in changed /\ r.to = 0 THEN asOf ELSE r.to)
                      /\ ~(r.of \in changed /\ r.to = 0) => shut[r] = r
    BY DEF Rows
<1>4. \A s \in changed : /\ opened[s] \in Rows(n + m, Values)
                         /\ opened[s].of = s /\ opened[s].from = asOf /\ opened[s].to = 0
    BY DEF Rows
<1>5. \A k \in 1 .. m : /\ fresh[k] \in Rows(n + m, Values)
                        /\ fresh[k].of = n + k /\ fresh[k].from = asOf /\ fresh[k].to = 0
    BY DEF Rows
<1>6. \A r \in rows : r.of \in changed /\ r.to = 0 => r.from <= asOf
    BY <1>2 DEF Backdated
<1> HIDE DEF after, shut, opened, fresh
<1>7. /\ \A r \in rows : shut[r] \in after
      /\ \A s \in changed : opened[s] \in after
      /\ \A k \in 1 .. m : fresh[k] \in after
    BY <1>1
<1>8. \A p \in after : \/ \E r \in rows : p = shut[r]
                       \/ \E s \in changed : p = opened[s]
                       \/ \E k \in 1 .. m : p = fresh[k]
    BY <1>1
<1>9. ASSUME NEW p \in after
      PROVE  p \in Rows(n + m, Values)
    <2>1. CASE \E r \in rows : p = shut[r]
        BY <2>1, <1>0, <1>3
    <2>2. CASE \E s \in changed : p = opened[s]
        BY <2>2, <1>4
    <2>3. CASE \E k \in 1 .. m : p = fresh[k]
        BY <2>3, <1>5
    <2> QED  BY <2>1, <2>2, <2>3, <1>8
<1>10. Tiled(after, since2)
    <2>1. MovesOn(n, m, rows, after, since, since2, changed, asOf, shut, opened, fresh)
        BY <1>2, <1>3, <1>4, <1>5, <1>6, <1>7, <1>8 DEF MovesOn
    <2> QED  BY <2>1, TilesStay
<1> QED  BY <1>9, <1>10 DEF after

\* Two rows one after the other.
LEMMA Joined ==
    ASSUME NEW S, NEW n \in Nat, NEW m \in Nat, NEW f \in [1 .. n -> S], NEW g \in [1 .. m -> S]
    PROVE  /\ f \o g \in Seq(S) /\ Len(f \o g) = n + m
           /\ \A s \in 1 .. n : (f \o g)[s] = f[s]
           /\ \A k \in 1 .. m : (f \o g)[n + k] = g[k]
<1>1. f \in Seq(S) /\ g \in Seq(S)
    BY SeqDef
<1>2. Len(f) = n /\ Len(g) = m
    <2>1. DOMAIN f = 1 .. n /\ DOMAIN f = 1 .. Len(f) /\ Len(f) \in Nat
        BY <1>1, LenProperties
    <2>2. DOMAIN g = 1 .. m /\ DOMAIN g = 1 .. Len(g) /\ Len(g) \in Nat
        BY <1>1, LenProperties
    <2> QED  BY <2>1, <2>2
<1>3. /\ f \o g \in Seq(S) /\ Len(f \o g) = n + m
      /\ \A i \in 1 .. n + m : (f \o g)[i] = IF i <= n THEN f[i] ELSE g[i - n]
    BY <1>1, <1>2, ConcatProperties
<1>4. \A s \in 1 .. n : s \in 1 .. n + m /\ s <= n
    OBVIOUS
<1>5. \A k \in 1 .. m : n + k \in 1 .. n + m /\ ~(n + k <= n) /\ (n + k) - n = k
    OBVIOUS
<1> QED  BY <1>3, <1>4, <1>5

\* What a load leaves of a security.
Kept(s, last) ==
    IF s \in Found(csv, last)
    THEN [security[s] EXCEPT !.active = TRUE, !.symbol = RowOf(csv, last, s).symbol,
                             !.taken = @ \cup {RowOf(csv, last, s).of}]
    ELSE [security[s] EXCEPT !.active = FALSE]

LEMMA WhatIsKept ==
    ASSUME UniverseTypeOK, SymbolsAreApart, NEW last \in Lasts, NEW s \in Ids
    PROVE  /\ Kept(s, last) \in Securities
           /\ Kept(s, last).shares = security[s].shares /\ Kept(s, last).cik = security[s].cik
           /\ Kept(s, last).since = security[s].since
           /\ s \in Found(csv, last) =>
                 /\ Kept(s, last).symbol = RowOf(csv, last, s).symbol
                 /\ Kept(s, last).taken = security[s].taken \cup {RowOf(csv, last, s).of}
           /\ s \notin Found(csv, last) =>
                 /\ Kept(s, last).symbol = security[s].symbol
                 /\ Kept(s, last).taken = security[s].taken
<1>1. security[s] \in Securities
    BY SecuritiesAre
<1>2. CASE s \notin Found(csv, last)
    BY <1>1, <1>2 DEF Kept, Securities
<1>3. CASE s \in Found(csv, last)
    <2>1. PICK r : r = RowOf(csv, last, s) /\ r.symbol \in Tickers /\ r.of \in Shares
        BY <1>3, FoundByARow DEF UniverseTypeOK
    <2>2. PICK e \in Securities : e = security[s]
        BY <1>1
    <2>3. Kept(s, last) = [e EXCEPT !.active = TRUE, !.symbol = r.symbol, !.taken = @ \cup {r.of}]
        BY <1>3, <2>1, <2>2 DEF Kept
    <2>4. PICK t, more : /\ t = r.symbol /\ t \in Tickers
                         /\ more = e.taken \cup {r.of} /\ more \in SUBSET Shares
        <3>1. e.taken \in SUBSET Shares
            BY ONLY e \in Securities DEF Securities
        <3>2. e.taken \cup {r.of} \in SUBSET Shares
            BY <2>1, <3>1
        <3> QED  BY <2>1, <3>2
    <2>5. Kept(s, last) = [e EXCEPT !.active = TRUE, !.symbol = t, !.taken = more]
        BY <2>3, <2>4
    <2>6. [e EXCEPT !.active = TRUE, !.symbol = t, !.taken = more] \in Securities
        BY ONLY e \in Securities, <2>4 DEF Securities
    <2>7. /\ Kept(s, last).shares = e.shares /\ Kept(s, last).cik = e.cik /\ Kept(s, last).since = e.since
          /\ Kept(s, last).symbol = t /\ Kept(s, last).taken = more
        BY ONLY e \in Securities, <2>5 DEF Securities
    <2> QED  BY <1>3, <2>1, <2>2, <2>4, <2>5, <2>6, <2>7
<1> QED  BY <1>2, <1>3

\* What a load makes of shares that are new.
Arrived(r, asOf) == [shares |-> r.of, taken |-> {r.of}, cik |-> r.cik, active |-> TRUE,
                     symbol |-> r.symbol, since |-> asOf]

LEMMA WhatIsNew ==
    ASSUME UniverseTypeOK, NEW r \in csv, NEW asOf \in Nat
    PROVE  /\ Arrived(r, asOf) \in Securities
           /\ Arrived(r, asOf).shares = r.of /\ Arrived(r, asOf).cik = r.cik
           /\ Arrived(r, asOf).taken = {r.of}
           /\ Arrived(r, asOf).since = asOf /\ Arrived(r, asOf).symbol = r.symbol
<1>1. r.of \in Shares /\ r.symbol \in Tickers /\ r.cik \in Ciks
    BY DEF UniverseTypeOK
<1> QED  BY <1>1 DEF Arrived, Securities

\* What a load that goes through leaves of the securities, and which are new.
Loaded(fresh, asOf, last) ==
    [s \in Ids |-> Kept(s, last)] \o [k \in DOMAIN fresh |-> Arrived(fresh[k], asOf)]

StaysAs(e, s, last) ==
    /\ e.shares = security[s].shares /\ e.cik = security[s].cik /\ e.since = security[s].since
    /\ s \in Found(csv, last) =>
          /\ e.symbol = RowOf(csv, last, s).symbol
          /\ e.taken = security[s].taken \cup {RowOf(csv, last, s).of}
    /\ s \notin Found(csv, last) => e.symbol = security[s].symbol /\ e.taken = security[s].taken

ComesAs(e, r, asOf) ==
    /\ e.shares = r.of /\ e.cik = r.cik /\ e.taken = {r.of} /\ e.since = asOf /\ e.symbol = r.symbol

LeftWith(after, fresh, m, asOf, last) ==
    /\ after \in Seq(Securities) /\ Len(after) = Len(security) + m
    /\ \A s \in Ids : StaysAs(after[s], s, last)
    /\ \A k \in 1 .. m : ComesAs(after[Len(security) + k], fresh[k], asOf)

LEMMA WhatALoadLeaves ==
    ASSUME UniverseTypeOK, SymbolsAreApart, NEW last \in Lasts, NEW asOf \in Nat, NEW m \in Nat,
           NEW fresh \in [1 .. m -> csv]
    PROVE  LeftWith(Loaded(fresh, asOf, last), fresh, m, asOf, last)
<1> DEFINE n == Len(security)
           f == [s \in Ids |-> Kept(s, last)]
           g == [k \in 1 .. m |-> Arrived(fresh[k], asOf)]
<1>1. Ids = 1 .. n /\ n \in Nat
    BY SecuritiesAre
<1>2. f \in [1 .. n -> Securities]
    BY <1>1, WhatIsKept
<1>3. g \in [1 .. m -> Securities]
    BY WhatIsNew
<1>4. Loaded(fresh, asOf, last) = f \o g
    BY DEF Loaded
<1>5. \A s \in Ids : f[s] = Kept(s, last)
    OBVIOUS
<1>6. \A k \in 1 .. m : g[k] = Arrived(fresh[k], asOf) /\ fresh[k] \in csv
    OBVIOUS
<1> HIDE DEF f, g, n
<1>7. PICK after : after = Loaded(fresh, asOf, last)
    OBVIOUS
<1>8. /\ after \in Seq(Securities) /\ Len(after) = n + m
      /\ \A s \in Ids : after[s] = Kept(s, last)
      /\ \A k \in 1 .. m : after[n + k] = Arrived(fresh[k], asOf)
    <2>1. /\ f \o g \in Seq(Securities) /\ Len(f \o g) = n + m
          /\ \A s \in 1 .. n : (f \o g)[s] = f[s]
          /\ \A k \in 1 .. m : (f \o g)[n + k] = g[k]
        BY <1>1, <1>2, <1>3, Joined
    <2> QED  BY <2>1, <1>1, <1>4, <1>5, <1>6, <1>7
<1>9. ASSUME NEW s \in Ids PROVE StaysAs(after[s], s, last)
    BY <1>8, WhatIsKept DEF StaysAs
<1>10. ASSUME NEW k \in 1 .. m PROVE ComesAs(after[n + k], fresh[k], asOf)
    <2>1. fresh[k] \in csv /\ after[n + k] = Arrived(fresh[k], asOf)
        BY <1>6, <1>8
    <2> QED  BY ONLY <2>1, WhatIsNew, UniverseTypeOK, asOf \in Nat DEF ComesAs
<1> QED  BY <1>7, <1>8, <1>9, <1>10 DEF n, LeftWith

\* A load that goes through, as the lemmas above tell it.
Goes(fresh, m, asOf, last) ==
    /\ fresh \in [1 .. m -> {r \in csv : Match(r, last) = {}}]
    /\ \A i, j \in 1 .. m : i # j => fresh[i] # fresh[j]
    /\ security' = Loaded(fresh, asOf, last)
    /\ ~Ambiguous(csv, last) /\ ~TakenSymbol(csv, last)
    /\ ~Backdated(Renamed(csv, last), symbolRow, asOf)
    /\ ~Backdated(Reclassified(csv, last), sectorRow, asOf)
    /\ symbolRow' = Close(symbolRow, Renamed(csv, last), asOf)
          \cup {[of |-> s, is |-> RowOf(csv, last, s).symbol, from |-> asOf, to |-> 0] :
                   s \in Renamed(csv, last)}
          \cup {[of |-> Len(security) + k, is |-> fresh[k].symbol, from |-> asOf, to |-> 0] :
                   k \in 1 .. m}
    /\ sectorRow' = Close(sectorRow, Reclassified(csv, last), asOf)
          \cup {[of |-> s, is |-> RowOf(csv, last, s).industry, from |-> asOf, to |-> 0] :
                   s \in Reclassified(csv, last)}
          \cup {[of |-> Len(security) + k, is |-> fresh[k].industry, from |-> asOf, to |-> 0] :
                   k \in 1 .. m}
    /\ had' = [c \in Shares |-> had[c] \cup {r.symbol : r \in {q \in csv : q.of = c}}]

LEMMA LoadGoesThrough ==
    ASSUME UniverseTypeOK, NEW asOf \in 1 .. LastLoad, NEW force \in BOOLEAN, NEW last \in Lasts,
           NEW fresh \in SetToSeqs({r \in csv : Match(r, last) = {}}), Load(asOf, force, last, fresh),
           ~UNCHANGED <<had, stored>>
    PROVE  \E m \in Nat : Goes(fresh, m, asOf, last)
<1> DEFINE arrivals == {r \in csv : Match(r, last) = {}}
           q == Cardinality(arrivals)
           n == Len(security)
<1>1. q \in Nat
    BY FS_Subset, FS_CardinalityType DEF UniverseTypeOK
<1>2. fresh \in [1 .. q -> arrivals] /\ \A i, j \in 1 .. q : i # j => fresh[i] # fresh[j]
    BY DEF SetToSeqs
<1>3. DOMAIN fresh = 1 .. q
    BY <1>2
<1>4. /\ security' = [s \in Ids |->
                         LET e == security[s]
                         IN  IF s \in Found(csv, last)
                             THEN [e EXCEPT !.active = TRUE, !.symbol = RowOf(csv, last, s).symbol,
                                            !.taken = @ \cup {RowOf(csv, last, s).of}]
                             ELSE [e EXCEPT !.active = FALSE]]
                     \o [k \in DOMAIN fresh |->
                            [shares |-> fresh[k].of, taken |-> {fresh[k].of},
                             cik |-> fresh[k].cik, active |-> TRUE,
                             symbol |-> fresh[k].symbol, since |-> asOf]]
      /\ ~Ambiguous(csv, last) /\ ~TakenSymbol(csv, last)
      /\ ~Backdated(Renamed(csv, last), symbolRow, asOf)
      /\ ~Backdated(Reclassified(csv, last), sectorRow, asOf)
      /\ symbolRow' = Close(symbolRow, Renamed(csv, last), asOf)
            \cup {[of |-> s, is |-> RowOf(csv, last, s).symbol, from |-> asOf, to |-> 0] :
                     s \in Renamed(csv, last)}
            \cup {[of |-> n + k, is |-> fresh[k].symbol, from |-> asOf, to |-> 0] :
                     k \in DOMAIN fresh}
      /\ sectorRow' = Close(sectorRow, Reclassified(csv, last), asOf)
            \cup {[of |-> s, is |-> RowOf(csv, last, s).industry, from |-> asOf, to |-> 0] :
                     s \in Reclassified(csv, last)}
            \cup {[of |-> n + k, is |-> fresh[k].industry, from |-> asOf, to |-> 0] :
                     k \in DOMAIN fresh}
      /\ had' = [c \in Shares |-> had[c] \cup {r.symbol : r \in {o \in csv : o.of = c}}]
    BY Zenon DEF Load
<1>5. security' = Loaded(fresh, asOf, last)
    BY <1>4, Zenon DEF Loaded, Kept, Arrived
<1> HIDE DEF q
<1>6. Goes(fresh, q, asOf, last)
    BY <1>2, <1>3, <1>4, <1>5 DEF Goes
<1> QED  BY <1>1, <1>6

LEMMA LoadKeeps ==
    ASSUME UniverseAssumption, UniverseInv, NEW asOf \in 1 .. LastLoad, NEW force \in BOOLEAN,
           NEW last \in Lasts, NEW fresh \in SetToSeqs({r \in csv : Match(r, last) = {}}),
           Load(asOf, force, last, fresh)
    PROVE  UniverseInv'
<1> DEFINE n == Len(security)
           row(s) == RowOf(csv, last, s)
           found == Found(csv, last)
           renamed == Renamed(csv, last)
           moved == Reclassified(csv, last)
<1>0. /\ UniverseTypeOK /\ SymbolsAreApart /\ asOf \in Nat \ {0}
      /\ Ids = 1 .. n /\ n \in Nat
    BY SecuritiesAre DEF UniverseInv
<1>1. /\ loads' = loads + 1
      /\ UNCHANGED <<calendar, csv>>
    BY DEF Load
<1>9. FileIsOfOne'
    BY <1>1 DEF UniverseInv, FileIsOfOne
<1>2. CASE UNCHANGED <<had, stored>>
    <2>1. UniverseTypeOK'
        BY <1>0, <1>1, <1>2 DEF UniverseTypeOK, stored
    <2> QED  BY <1>2, <1>9, <2>1, SameBooks DEF UniverseInv
<1>3. CASE ~UNCHANGED <<had, stored>>
    <2>0. PICK m \in Nat : Goes(fresh, m, asOf, last)
        BY <1>0, <1>3, LoadGoesThrough
    <2>1. /\ fresh \in [1 .. m -> {r \in csv : Match(r, last) = {}}]
          /\ \A i, j \in 1 .. m : i # j => fresh[i] # fresh[j]
          /\ security' = Loaded(fresh, asOf, last)
          /\ ~TakenSymbol(csv, last)
          /\ ~Backdated(renamed, symbolRow, asOf)
          /\ ~Backdated(moved, sectorRow, asOf)
          /\ symbolRow' = Close(symbolRow, renamed, asOf)
                \cup {[of |-> s, is |-> row(s).symbol, from |-> asOf, to |-> 0] : s \in renamed}
                \cup {[of |-> n + k, is |-> fresh[k].symbol, from |-> asOf, to |-> 0] : k \in 1 .. m}
          /\ sectorRow' = Close(sectorRow, moved, asOf)
                \cup {[of |-> s, is |-> row(s).industry, from |-> asOf, to |-> 0] : s \in moved}
                \cup {[of |-> n + k, is |-> fresh[k].industry, from |-> asOf, to |-> 0] : k \in 1 .. m}
          /\ had' = [c \in Shares |-> had[c] \cup {r.symbol : r \in {q \in csv : q.of = c}}]
        BY <2>0 DEF Goes
    <2>2. /\ fresh \in [1 .. m -> csv]
          /\ \A k \in 1 .. m : fresh[k] \in csv /\ Match(fresh[k], last) = {}
        BY <2>1
    <2>3. /\ security' \in Seq(Securities) /\ Len(security') = n + m
          /\ \A s \in Ids : StaysAs(security'[s], s, last)
          /\ \A k \in 1 .. m : ComesAs(security'[n + k], fresh[k], asOf)
        <3>1. LeftWith(Loaded(fresh, asOf, last), fresh, m, asOf, last)
            BY <1>0, <2>2, WhatALoadLeaves
        <3>2. LeftWith(security', fresh, m, asOf, last)
            BY <2>1, <3>1
        <3> QED  BY <3>2 DEF LeftWith
    <2>4. Ids' = 1 .. n + m
        BY <2>3, <1>0, LenProperties DEF Ids
    <2>5. \A s \in found : s \in Ids /\ row(s) \in csv /\ Match(row(s), last) = {s}
        BY <1>0, FoundByARow
    <2>6. \A r \in csv : r.of \in Shares /\ r.symbol \in Tickers /\ r.industry \in Industries
        BY <1>0 DEF UniverseTypeOK
    <2>7. renamed \subseteq 1 .. n /\ moved \subseteq 1 .. n
        BY <1>0, <2>5 DEF Renamed, Reclassified
    <2> DEFINE since2 == [s \in Ids' |-> security'[s].since]
    <2>8. /\ Since \in [1 .. n -> Nat] /\ since2 \in [1 .. n + m -> Nat]
          /\ \A s \in 1 .. n : since2[s] = Since[s]
          /\ \A k \in 1 .. m : since2[n + k] = asOf
        <3>1. \A s \in Ids : security[s].since \in Nat
            BY <1>0, SecuritiesAre
        <3>2. \A s \in Ids' : security'[s] \in Securities
            BY <2>3, <2>4, ElementOfSeq
        <3>3. \A s \in Ids' : security'[s].since \in Nat
            BY <3>2 DEF Securities
        <3>4. \A s \in 1 .. n : s \in 1 .. n + m
            BY <1>0
        <3>5. \A k \in 1 .. m : n + k \in 1 .. n + m
            BY <1>0
        <3> QED
            BY <3>1, <3>3, <3>4, <3>5, <2>3, <2>4, <1>0 DEF Since, StaysAs, ComesAs
    <2>9. Since' = since2
        BY DEF Since
    <2> HIDE DEF since2, n
    <2>10. symbolRow' \subseteq Rows(n + m, Tickers) /\ Tiled(symbolRow', since2)
        <3> DEFINE is == [s \in renamed |-> row(s).symbol]
                   news == [k \in 1 .. m |-> fresh[k].symbol]
        <3>1. is \in [renamed -> Tickers] /\ news \in [1 .. m -> Tickers]
            BY <2>2, <2>5, <2>6 DEF Renamed
        <3>2. symbolRow' = Rewritten(symbolRow, n, m, renamed, asOf, is, news)
            BY <2>1 DEF Rewritten
        <3>3. symbolRow \in SUBSET Rows(n, Tickers) /\ Tiled(symbolRow, Since)
            BY <1>0 DEF UniverseInv, UniverseTypeOK, n
        <3> HIDE DEF is, news, renamed
        <3>4. /\ Rewritten(symbolRow, n, m, renamed, asOf, is, news) \subseteq Rows(n + m, Tickers)
              /\ Tiled(Rewritten(symbolRow, n, m, renamed, asOf, is, news), since2)
            BY <1>0, <2>1, <2>7, <2>8, <3>1, <3>3, RowsStayTiled
        <3> QED  BY <3>2, <3>4
    <2>11. sectorRow' \subseteq Rows(n + m, Industries) /\ Tiled(sectorRow', since2)
        <3> DEFINE is == [s \in moved |-> row(s).industry]
                   news == [k \in 1 .. m |-> fresh[k].industry]
        <3>1. is \in [moved -> Industries] /\ news \in [1 .. m -> Industries]
            BY <2>2, <2>5, <2>6 DEF Reclassified
        <3>2. sectorRow' = Rewritten(sectorRow, n, m, moved, asOf, is, news)
            BY <2>1 DEF Rewritten
        <3>3. sectorRow \in SUBSET Rows(n, Industries) /\ Tiled(sectorRow, Since)
            BY <1>0 DEF UniverseInv, UniverseTypeOK, n
        <3> HIDE DEF is, news, moved
        <3>4. /\ Rewritten(sectorRow, n, m, moved, asOf, is, news) \subseteq Rows(n + m, Industries)
              /\ Tiled(Rewritten(sectorRow, n, m, moved, asOf, is, news), since2)
            BY <1>0, <2>1, <2>7, <2>8, <3>1, <3>3, RowsStayTiled
        <3> QED  BY <3>2, <3>4
    <2> HIDE DEF row, found, renamed, moved
    <2>12. had' \in [Shares -> SUBSET Tickers] /\ (\A c \in Shares : had[c] \subseteq had'[c])
           /\ \A r \in csv : r.symbol \in had'[r.of]
        <3>1. \A c \in Shares : had[c] \in SUBSET Tickers
            BY <1>0 DEF UniverseTypeOK
        <3>2. \A c \in Shares : had'[c] = had[c] \cup {r.symbol : r \in {q \in csv : q.of = c}}
            BY <2>1
        <3>3. \A c \in Shares : had'[c] \in SUBSET Tickers
            BY <2>6, <3>1, <3>2
        <3>4. \A r \in csv : r.symbol \in {x.symbol : x \in {q \in csv : q.of = r.of}}
            OBVIOUS
        <3> QED  BY <2>1, <2>6, <3>2, <3>3, <3>4
    <2>13. UniverseTypeOK'
        BY <1>0, <1>1, <2>3, <2>10, <2>11, <2>12 DEF UniverseTypeOK
    <2>14. Tiled(symbolRow, Since)' /\ Tiled(sectorRow, Since)'
        BY <2>9, <2>10, <2>11 DEF Tiled, On
    <2>15. \A s \in Ids' : s \in Ids \/ \E k \in 1 .. m : s = n + k
        <3>1. \A s \in 1 .. n + m : s \notin 1 .. n => s - n \in 1 .. m /\ s = n + (s - n)
            BY <1>0
        <3> QED  BY <1>0, <2>4, <3>1
    \* What a security is found by: its issuer, or the symbol it keeps.
    <2>16. \A s \in found :
              \/ row(s).cik # NoCik /\ security[s].cik = row(s).cik
              \/ security[s].symbol = row(s).symbol
        <3>1. ASSUME NEW s \in found
              PROVE  \/ row(s).cik # NoCik /\ security[s].cik = row(s).cik
                     \/ security[s].symbol = row(s).symbol
            <4>1. row(s) \in csv /\ Match(row(s), last) = {s}
                BY <2>5
            <4> QED  BY <1>0, <4>1, MatchIsOne
        <3> QED  BY <3>1
    <2>17. \A s \in Ids : /\ s \in renamed <=> s \in found /\ security[s].symbol # row(s).symbol
                          /\ s \in renamed => security'[s].symbol = row(s).symbol
                          /\ s \notin renamed => security'[s].symbol = security[s].symbol
        BY <2>3 DEF renamed, Renamed, found, row, StaysAs
    <2>18. KnownByIts'
        <3>1. ASSUME NEW s \in Ids
              PROVE  /\ security'[s].cik \in {NoCik, IssuerOf[security'[s].shares]}
                     /\ \E o \in Shares : /\ IssuerOf[o] = IssuerOf[security'[s].shares]
                                          /\ security'[s].symbol \in had'[o]
            <4>1. security'[s].cik = security[s].cik /\ security'[s].shares = security[s].shares
                BY <2>3 DEF StaysAs
            <4>2. CASE s \notin renamed
                <5>1. security'[s].symbol = security[s].symbol
                    BY <2>17, <4>2
                <5> QED  BY <2>12, <4>1, <5>1 DEF UniverseInv, KnownByIts
            <4>3. CASE s \in renamed
                <5>1. s \in found /\ security[s].symbol # row(s).symbol /\ security'[s].symbol = row(s).symbol
                    BY <2>17, <4>3
                <5>2. row(s).cik # NoCik /\ security[s].cik = row(s).cik /\ row(s) \in csv
                    BY <2>5, <2>16, <5>1
                <5>3. row(s).cik = IssuerOf[row(s).of] /\ row(s).of \in Shares
                    BY <2>6, <5>2 DEF UniverseInv, FileIsOfOne
                <5>4. security[s].cik = IssuerOf[security[s].shares]
                    BY <5>2 DEF UniverseInv, KnownByIts
                <5>5. row(s).symbol \in had'[row(s).of]
                    BY <2>12, <5>2
                <5> QED  BY <4>1, <5>1, <5>2, <5>3, <5>4, <5>5
            <4> QED  BY <4>2, <4>3
        <3>2. ASSUME NEW k \in 1 .. m, NEW s, s = n + k
              PROVE  /\ security'[s].cik \in {NoCik, IssuerOf[security'[s].shares]}
                     /\ \E o \in Shares : /\ IssuerOf[o] = IssuerOf[security'[s].shares]
                                          /\ security'[s].symbol \in had'[o]
            <4>1. PICK r \in csv : r = fresh[k]
                BY <2>2
            <4>2. security'[s].cik = r.cik /\ security'[s].shares = r.of /\ security'[s].symbol = r.symbol
                BY <2>3, <3>2, <4>1 DEF ComesAs
            <4>3. r.cik \in {NoCik, IssuerOf[r.of]} /\ r.of \in Shares
                BY <2>6 DEF UniverseInv, FileIsOfOne
            <4> QED  BY <2>12, <4>2, <4>3
        <3> QED  BY <2>15, <3>1, <3>2 DEF KnownByIts
    <2>19. SymbolsAreOpen'
        <3>1. ASSUME NEW s \in Ids
              PROVE  \E q \in symbolRow' : q.of = s /\ q.to = 0 /\ q.is = security'[s].symbol
            <4>1. CASE s \in renamed
                <5>1. [of |-> s, is |-> row(s).symbol, from |-> asOf, to |-> 0] \in symbolRow'
                    BY <2>1, <4>1
                <5> QED  BY <2>17, <4>1, <5>1
            <4>2. CASE s \notin renamed
                <5>1. PICK q \in symbolRow : q.of = s /\ q.to = 0 /\ q.is = security[s].symbol
                    BY DEF UniverseInv, SymbolsAreOpen
                <5>2. q \in Close(symbolRow, renamed, asOf)
                    BY <4>2, <5>1 DEF Close
                <5> QED  BY <2>1, <2>17, <4>2, <5>1, <5>2
            <4> QED  BY <4>1, <4>2
        <3>2. ASSUME NEW k \in 1 .. m, NEW s, s = n + k
              PROVE  \E q \in symbolRow' : q.of = s /\ q.to = 0 /\ q.is = security'[s].symbol
            <4>1. [of |-> n + k, is |-> fresh[k].symbol, from |-> asOf, to |-> 0] \in symbolRow'
                BY <2>1
            <4>2. security'[s].symbol = fresh[k].symbol
                BY <2>3, <3>2 DEF ComesAs
            <4> QED  BY <3>2, <4>1, <4>2
        <3> QED  BY <2>15, <3>1, <3>2 DEF SymbolsAreOpen
    <2>20. SymbolsAreApart'
        <3>1. \A s \in Ids : \E q \in symbolRow : q.of = s /\ q.to = 0 /\ q.is = security[s].symbol
            BY DEF UniverseInv, SymbolsAreOpen
        <3>2. ASSUME NEW k \in 1 .. m, NEW q \in symbolRow, q.to = 0 PROVE q.is # fresh[k].symbol
            BY <2>1, <2>2, <3>2 DEF TakenSymbol
        <3>3. ASSUME NEW s \in renamed PROVE /\ \A q \in symbolRow : q.of # s /\ q.to = 0 => q.is # row(s).symbol
                                             /\ \A k \in 1 .. m : fresh[k].symbol # row(s).symbol
            BY <2>1, <2>2 DEF TakenSymbol, renamed, row
        <3>4. ASSUME NEW s \in Ids, NEW o \in Ids, s # o, s \in renamed
              PROVE  security'[s].symbol # security'[o].symbol
            <4>1. security[o].symbol # row(s).symbol
                BY <3>1, <3>3, <3>4
            <4>2. CASE o \notin renamed
                BY <2>17, <3>4, <4>1, <4>2
            <4>3. CASE o \in renamed
                <5>1. s \in found /\ o \in found
                    BY <2>17, <3>4, <4>3
                <5>2. row(s) \in csv /\ row(o) \in csv /\ row(s) # row(o)
                    BY <2>5, <3>4, <5>1
                <5>3. row(s).symbol # row(o).symbol
                    BY <5>2 DEF UniverseInv, FileIsOfOne
                <5> QED  BY <2>17, <3>4, <4>3, <5>3
            <4> QED  BY <4>2, <4>3
        <3>5. ASSUME NEW s \in Ids, NEW o \in Ids, s # o
              PROVE  security'[s].symbol # security'[o].symbol
            <4>1. CASE s \in renamed \/ o \in renamed
                BY <3>4, <3>5, <4>1
            <4>2. CASE s \notin renamed /\ o \notin renamed
                BY <1>0, <2>17, <3>5, <4>2 DEF SymbolsAreApart
            <4> QED  BY <4>1, <4>2
        <3>6. ASSUME NEW s \in Ids, NEW k \in 1 .. m
              PROVE  security'[s].symbol # security'[n + k].symbol
            <4>1. security'[n + k].symbol = fresh[k].symbol
                BY <2>3 DEF ComesAs
            <4>2. CASE s \in renamed
                BY <2>17, <3>3, <4>1, <4>2
            <4>3. CASE s \notin renamed
                <5>1. security[s].symbol # fresh[k].symbol
                    BY <3>1, <3>2
                <5> QED  BY <2>17, <4>1, <4>3, <5>1
            <4> QED  BY <4>2, <4>3
        <3>7. ASSUME NEW k \in 1 .. m, NEW i \in 1 .. m, k # i
              PROVE  security'[n + k].symbol # security'[n + i].symbol
            <4>1. fresh[k] # fresh[i] /\ fresh[k] \in csv /\ fresh[i] \in csv
                BY <2>1, <2>2, <3>7
            <4>2. fresh[k].symbol # fresh[i].symbol
                BY <4>1 DEF UniverseInv, FileIsOfOne
            <4> QED  BY <2>3, <4>2 DEF ComesAs
        <3>8. ASSUME NEW s \in Ids', NEW o \in Ids', s # o
              PROVE  security'[s].symbol # security'[o].symbol
            <4>1. CASE s \in Ids /\ o \in Ids
                BY <3>5, <3>8, <4>1
            <4>2. CASE s \in Ids /\ \E k \in 1 .. m : o = n + k
                BY <3>6, <4>2
            <4>3. CASE o \in Ids /\ \E k \in 1 .. m : s = n + k
                BY <3>6, <4>3
            <4>4. CASE (\E k \in 1 .. m : s = n + k) /\ \E k \in 1 .. m : o = n + k
                BY <3>7, <3>8, <4>4
            <4> QED  BY <2>15, <4>1, <4>2, <4>3, <4>4
        <3> QED  BY <3>8 DEF SymbolsAreApart
    \* Shares that are new have no security, or one without a CIK.
    <2>21. OneSecurityEach'
        <3>1. ASSUME NEW s \in Ids, NEW k \in 1 .. m, security'[s].shares = security'[n + k].shares,
                     security'[s].cik # NoCik
              PROVE  security'[n + k].cik = NoCik
            <4>1. PICK r \in csv : r = fresh[k]
                BY <2>2
            <4>2. /\ security'[n + k].cik = r.cik /\ security'[n + k].shares = r.of
                  /\ security'[s].cik = security[s].cik /\ security'[s].shares = security[s].shares
                BY <2>3, <4>1 DEF ComesAs, StaysAs
            <4>3. security[s].cik = IssuerOf[r.of]
                BY <3>1, <4>2 DEF UniverseInv, KnownByIts
            <4>4. IssuerOf[r.of] \in CiksHeld
                BY <3>1, <4>2, <4>3 DEF CiksHeld
            <4>5. r.cik \notin CiksHeld
                BY <1>0, <2>2, <4>1, MatchIsOne
            <4>6. r.cik \in {NoCik, IssuerOf[r.of]}
                BY DEF UniverseInv, FileIsOfOne
            <4> QED  BY <4>2, <4>4, <4>5, <4>6
        <3>2. ASSUME NEW k \in 1 .. m, NEW i \in 1 .. m, k # i
              PROVE  security'[n + k].shares # security'[n + i].shares
            <4>1. fresh[k] # fresh[i] /\ fresh[k] \in csv /\ fresh[i] \in csv
                BY <2>1, <2>2, <3>2
            <4>2. fresh[k].of # fresh[i].of
                BY <4>1 DEF UniverseInv, FileIsOfOne
            <4> QED  BY <2>3, <4>2 DEF ComesAs
        <3>3. ASSUME NEW s \in Ids', NEW o \in Ids', s # o, security'[s].shares = security'[o].shares
              PROVE  NoCik \in {security'[s].cik, security'[o].cik}
            <4>1. CASE s \in Ids /\ o \in Ids
                <5>1. /\ security'[s].cik = security[s].cik /\ security'[s].shares = security[s].shares
                      /\ security'[o].cik = security[o].cik /\ security'[o].shares = security[o].shares
                    BY <2>3, <4>1 DEF StaysAs
                <5> QED  BY <3>3, <4>1, <5>1 DEF UniverseInv, OneSecurityEach
            <4>2. CASE s \in Ids /\ \E k \in 1 .. m : o = n + k
                BY <3>1, <3>3, <4>2
            <4>3. CASE o \in Ids /\ \E k \in 1 .. m : s = n + k
                BY <3>1, <3>3, <4>3
            <4>4. CASE (\E k \in 1 .. m : s = n + k) /\ \E k \in 1 .. m : o = n + k
                BY <3>2, <3>3, <4>4
            <4> QED  BY <2>15, <4>1, <4>2, <4>3, <4>4
        <3> QED  BY <3>3 DEF OneSecurityEach
    \* One that is found by another issuer's shares has a ticker that its own had.
    <2>22. OneCompanyEach'
        <3>1. ASSUME NEW s \in Ids, NEW c \in security'[s].taken
              PROVE  \/ IssuerOf[c] = IssuerOf[security'[s].shares]
                     \/ \E o \in Shares : /\ IssuerOf[o] = IssuerOf[security'[s].shares]
                                          /\ had'[c] \cap had'[o] # {}
            <4>1. security'[s].shares = security[s].shares
                BY <2>3 DEF StaysAs
            <4>2. CASE c \in security[s].taken
                <5>1. \/ IssuerOf[c] = IssuerOf[security[s].shares]
                      \/ \E o \in Shares : /\ IssuerOf[o] = IssuerOf[security[s].shares]
                                           /\ had[c] \cap had[o] # {}
                    BY <4>2 DEF UniverseInv, OneCompanyEach
                <5>2. c \in Shares
                    BY <1>0, <4>2, SecuritiesAre
                <5> QED  BY <2>12, <4>1, <5>1, <5>2
            <4>3. CASE c \notin security[s].taken
                <5>1. s \in found /\ c = row(s).of
                    BY <2>3, <3>1, <4>3 DEF StaysAs, found, row
                <5>2. row(s) \in csv
                    BY <2>5, <5>1
                <5>3. CASE row(s).cik # NoCik /\ security[s].cik = row(s).cik
                    <6>1. row(s).cik = IssuerOf[c]
                        BY <5>1, <5>2, <5>3 DEF UniverseInv, FileIsOfOne
                    <6>2. security[s].cik = IssuerOf[security[s].shares]
                        BY <5>3 DEF UniverseInv, KnownByIts
                    <6> QED  BY <4>1, <5>3, <6>1, <6>2
                <5>4. CASE security[s].symbol = row(s).symbol
                    <6>1. PICK o \in Shares : /\ IssuerOf[o] = IssuerOf[security[s].shares]
                                              /\ security[s].symbol \in had[o]
                        BY DEF UniverseInv, KnownByIts
                    <6>2. security[s].symbol \in had'[c] /\ security[s].symbol \in had'[o]
                        BY <2>12, <5>1, <5>2, <5>4, <6>1
                    <6> QED  BY <4>1, <6>1, <6>2
                <5> QED  BY <2>16, <5>1, <5>3, <5>4
            <4> QED  BY <4>2, <4>3
        <3>2. ASSUME NEW k \in 1 .. m, NEW s, s = n + k, NEW c \in security'[s].taken
              PROVE  IssuerOf[c] = IssuerOf[security'[s].shares]
            BY <2>3, <3>2 DEF ComesAs
        <3> QED  BY <2>15, <3>1, <3>2 DEF OneCompanyEach
    <2> QED
        BY <1>9, <2>13, <2>14, <2>18, <2>19, <2>20, <2>21, <2>22 DEF UniverseInv
<1> QED  BY <1>2, <1>3

LEMMA UniverseInvNext ==
    ASSUME UniverseAssumption, UniverseInv, [UniverseNext]_universeVars
    PROVE  UniverseInv'
<1>1. CASE UNCHANGED universeVars \/ AnotherDay
    <2>1. UNCHANGED stored /\ had' = had /\ csv' = csv /\ loads' = loads
        BY <1>1 DEF universeVars, AnotherDay, stored
    <2>2. calendar' \in Nat
        BY <1>1 DEF universeVars, AnotherDay, UniverseInv, UniverseTypeOK
    <2>3. UniverseTypeOK' /\ FileIsOfOne'
        BY <2>1, <2>2 DEF UniverseInv, UniverseTypeOK, FileIsOfOne, stored
    <2> QED  BY <2>1, <2>3, SameBooks DEF UniverseInv
<1>2. CASE \E listed \in Rosters : Refresh(listed)
    BY <1>2, RefreshKeeps
<1>3. CASE \E asOf \in 1 .. LastLoad, force \in BOOLEAN, last \in Lasts :
              \E fresh \in SetToSeqs({r \in csv : Match(r, last) = {}}) : Load(asOf, force, last, fresh)
    BY <1>3, LoadKeeps
<1> QED  BY <1>1, <1>2, <1>3 DEF UniverseNext

LEMMA UniverseHolds == UniverseSpec => []UniverseInv
<1>1. UniverseInit => UniverseInv
    BY UniverseAssumption, UniverseInitOK
<1>2. UniverseInv /\ [UniverseNext]_universeVars => UniverseInv'
    BY UniverseAssumption, UniverseInvNext
<1> QED  BY <1>1, <1>2, PTL DEF UniverseSpec

\* Tiled is what PeriodsTileTime counts.
LEMMA TiledIsOne ==
    ASSUME UniverseTypeOK, NEW rows, Tiled(rows, Since), NEW s \in Ids, NEW d \in Nat,
           security[s].since <= d
    PROVE  Cardinality({r \in rows : r.of = s /\ r.from <= d /\ (r.to = 0 \/ d < r.to)}) = 1
<1>1. PICK r \in rows : On(r, s, d)
    BY DEF Tiled, Since
<1>2. \A q \in rows : On(q, s, d) => q = r
    BY <1>1 DEF Tiled, Since
<1>3. {q \in rows : q.of = s /\ q.from <= d /\ (q.to = 0 \/ d < q.to)} = {r}
    BY <1>1, <1>2 DEF On
<1> QED  BY <1>3, FS_Singleton

\* The history of a security is of one company, and has one answer for a day, whatever
\* is listed, renamed, filed late or given another's ticker: shares have one security,
\* but for those a row without a CIK made, and a security is of its own issuer's shares,
\* but for those with a ticker that one had.  (plan, apply)
THEOREM HistoryOfOne == UniverseSpec => []HistoryIsOfOne
<1>1. UniverseInv => HistoryIsOfOne
    <2>1. SUFFICES ASSUME UniverseInv, NEW s \in Ids, NEW d \in 1 .. LastLoad,
                          NEW rows \in {symbolRow, sectorRow}, security[s].since <= d
                   PROVE  Cardinality({r \in rows : r.of = s /\ r.from <= d
                                                   /\ (r.to = 0 \/ d < r.to)}) = 1
        BY DEF HistoryIsOfOne, PeriodsTileTime, UniverseInv
    <2>2. UniverseTypeOK /\ Tiled(rows, Since) /\ d \in Nat
        BY <2>1 DEF UniverseInv
    <2> QED  BY <2>1, <2>2, TiledIsOne
<1> QED  BY <1>1, UniverseHolds, PTL

-----------------------------------------------------------------------------
(* Catalogue.                                                              *)

\* OpenRouter offered all of a list at s or later.
ListedSince(list, s) ==
    \A slug \in Slugs(list) : slug \in DOMAIN offeredAt /\ offeredAt[slug] >= s

\* OpenRouter offered all of a list within what may be waited for.
ListedLately(list) ==
    \A slug \in Slugs(list) :
        slug \in DOMAIN offeredAt /\ time < offeredAt[slug] + CacheTtl + SlowestFetch

\* The clock, the cache and what OpenRouter lists.  A fetch that is stored after a later
\* one puts an older list under an older or a newer time, but never under one that is
\* further from it than a fetch may take.
CacheIsTimed ==
    /\ time \in Nat /\ cachedAt \in Nat /\ cachedSent \in Nat
    /\ cachedSent <= time /\ cachedAt <= time /\ cachedAt <= cachedSent + SlowestFetch
    /\ \A slug \in DOMAIN offeredAt : offeredAt[slug] \in Nat /\ offeredAt[slug] <= time
    /\ listing \in Listings /\ ListedSince(Catalogued[listing], time)
    /\ ListedSince(cached, cachedSent)

RoundIsOffered(q) == q.model \in Static \/ q.stale \/ q.lag < CacheTtl + SlowestFetch

\* What a request may rely on, wherever it is.
ClientIsTimed(r) ==
    /\ DOMAIN r = DOMAIN NotAsked
    /\ r.at = "fetch" => /\ r.sent \in Nat /\ r.sent <= time /\ time <= r.sent + SlowestFetch
                         /\ ListedSince(r.list, r.sent)
    /\ r.at = "stamp" => /\ r.sent \in Nat /\ time <= r.sent + SlowestFetch
                         /\ time <= cachedSent + SlowestFetch
                         /\ ListedSince(r.list, r.sent)
    /\ r.at = "return" => time < cachedSent + CacheTtl + SlowestFetch
    /\ (r.at = "read" /\ ~r.stale) => ListedLately(r.list)
    /\ \A q \in r.rounds : RoundIsOffered(q)

CatalogueInv ==
    /\ CacheIsTimed
    /\ DOMAIN clients = Clients
    /\ \A c \in Clients : ClientIsTimed(clients[c])

LEMMA NothingIsListed == Slugs(<<>>) = {}
  BY DEF Slugs

LEMMA NotAskedIsTimed == ClientIsTimed(NotAsked)
  BY DEF ClientIsTimed, NotAsked

\* The clock and the cache as they were.
Still == UNCHANGED <<time, listing, cached, cachedAt, offeredAt, cachedSent>>

LEMMA StillTimed ==
  ASSUME CatalogueInv, Still
  PROVE  CacheIsTimed' /\ \A r : ClientIsTimed(r) => ClientIsTimed(r)'
  <1>1. CacheIsTimed'
    BY DEF CatalogueInv, CacheIsTimed, Still, ListedSince
  <1>2. ASSUME NEW r, ClientIsTimed(r) PROVE ClientIsTimed(r)'
    BY <1>2 DEF ClientIsTimed, Still, ListedSince, ListedLately
  <1> QED  BY <1>1, <1>2

\* A step of one request that leaves clock and cache alone.
LEMMA OneClientMoves ==
  ASSUME CatalogueInv, Still, NEW c \in Clients, NEW r, ClientIsTimed(r),
         clients' = [clients EXCEPT ![c] = r]
  PROVE  CatalogueInv'
  <1>1. CacheIsTimed' /\ \A q : ClientIsTimed(q) => ClientIsTimed(q)'
    BY StillTimed
  <1>2. DOMAIN clients' = Clients
    BY DEF CatalogueInv
  <1>3. \A d \in Clients : ClientIsTimed(clients'[d])
    BY DEF CatalogueInv
  <1>4. \A d \in Clients : ClientIsTimed(clients[d])'
    BY <1>1, <1>3
  <1> QED  BY <1>1, <1>2, <1>4 DEF CatalogueInv

LEMMA ReadingIsTimed ==
  ASSUME CatalogueInv, Still, NEW c \in Clients, NEW purpose, NEW choice,
         NEW at \in {"look", "read"}, Reading(c, purpose, choice, at)
  PROVE  CatalogueInv'
  <1> DEFINE r == [NotAsked EXCEPT !.for = purpose, !.choice = choice,
                       !.round = clients[c].round, !.rounds = clients[c].rounds, !.at = at]
  <1>1. ClientIsTimed(r)
    <2>1. DOMAIN r = DOMAIN NotAsked /\ r.at = at /\ r.list = <<>>
          /\ r.rounds = clients[c].rounds
      BY DEF NotAsked
    <2>2. ListedLately(r.list)
      BY <2>1, NothingIsListed DEF ListedLately
    <2>3. \A q \in clients[c].rounds : RoundIsOffered(q)
      BY DEF CatalogueInv, ClientIsTimed
    <2> QED  BY <2>1, <2>2, <2>3 DEF ClientIsTimed
  <1>2. clients' = [clients EXCEPT ![c] = r]
    BY DEF Reading
  <1> HIDE DEF r
  <1> QED  BY <1>1, <1>2, OneClientMoves

LEMMA LooksAtCacheKeeps ==
  ASSUME CatalogueInv, CatalogueAssumption, NEW c \in Clients, LooksAtCache(c)
  PROVE  CatalogueInv'
  <1>1. Still
    BY DEF LooksAtCache, Still
  <1>2. ClientIsTimed(clients[c]) /\ DOMAIN clients[c] = DOMAIN NotAsked
    BY DEF CatalogueInv, ClientIsTimed
  <1>3. CASE Fresh
    <2> DEFINE r == [clients[c] EXCEPT !.at = "return"]
    <2>1. time < cachedSent + CacheTtl + SlowestFetch
      BY <1>3, CatalogueAssumption
         DEF Fresh, CatalogueInv, CacheIsTimed, CatalogueAssumption
    <2>2. DOMAIN r = DOMAIN NotAsked /\ r.at = "return" /\ r.rounds = clients[c].rounds
      BY <1>2 DEF NotAsked
    <2>3. ClientIsTimed(r)
      BY <1>2, <2>1, <2>2 DEF ClientIsTimed
    <2>4. clients' = [clients EXCEPT ![c] = r]
      BY <1>3 DEF LooksAtCache, Moves
    <2> HIDE DEF r
    <2> QED  BY <1>1, <2>3, <2>4, OneClientMoves
  <1>4. CASE ~Fresh
    <2> DEFINE r == [clients[c] EXCEPT !.at = "fetch", !.list = Catalogued[listing],
                                       !.sent = time]
    <2>1. /\ DOMAIN r = DOMAIN NotAsked /\ r.at = "fetch" /\ r.rounds = clients[c].rounds
          /\ r.list = Catalogued[listing] /\ r.sent = time
      BY <1>2 DEF NotAsked
    <2>2. /\ time \in Nat /\ time <= time + SlowestFetch
          /\ ListedSince(Catalogued[listing], time)
      BY CatalogueAssumption DEF CatalogueInv, CacheIsTimed, CatalogueAssumption
    <2>3. ClientIsTimed(r)
      BY <1>2, <2>1, <2>2 DEF ClientIsTimed
    <2>4. clients' = [clients EXCEPT ![c] = r]
      BY <1>4 DEF LooksAtCache
    <2> HIDE DEF r
    <2> QED  BY <1>1, <2>3, <2>4, OneClientMoves
  <1> QED  BY <1>3, <1>4

\* What a request that has its list reads.
LEMMA HandedIsTimed ==
  ASSUME CatalogueInv, NEW c \in Clients, NEW list, NEW stale, stale \/ ListedLately(list)
  PROVE  ClientIsTimed([clients[c] EXCEPT !.at = "read", !.list = list, !.sent = 0,
                                          !.stale = stale])
  <1> DEFINE r == [clients[c] EXCEPT !.at = "read", !.list = list, !.sent = 0,
                                     !.stale = stale]
  <1>1. ClientIsTimed(clients[c]) /\ DOMAIN clients[c] = DOMAIN NotAsked
    BY DEF CatalogueInv, ClientIsTimed
  <1>2. /\ DOMAIN r = DOMAIN NotAsked /\ r.at = "read" /\ r.rounds = clients[c].rounds
        /\ r.list = list /\ r.stale = stale
    BY <1>1 DEF NotAsked
  <1> QED  BY <1>1, <1>2 DEF ClientIsTimed

LEMMA HandsKeeps ==
  ASSUME CatalogueInv, Still, NEW c \in Clients, NEW list, NEW stale,
         stale \/ ListedLately(list), Hands(c, list, stale)
  PROVE  CatalogueInv'
  <1> DEFINE r == [clients[c] EXCEPT !.at = "read", !.list = list, !.sent = 0,
                                     !.stale = stale]
  <1>1. ClientIsTimed(r)
    BY HandedIsTimed
  <1>2. clients' = [clients EXCEPT ![c] = r]
    BY DEF Hands
  <1> HIDE DEF r
  <1> QED  BY <1>1, <1>2, OneClientMoves

\* A list that is cached, or was fetched, was offered as lately as it was listed.
LEMMA SinceIsLately ==
  ASSUME CacheIsTimed, CatalogueAssumption, NEW list, NEW s \in Nat, ListedSince(list, s),
         time < s + CacheTtl + SlowestFetch
  PROVE  ListedLately(list)
  <1> SUFFICES ASSUME NEW slug \in Slugs(list)
               PROVE  slug \in DOMAIN offeredAt
                      /\ time < offeredAt[slug] + CacheTtl + SlowestFetch
    BY DEF ListedLately
  <1>1. slug \in DOMAIN offeredAt /\ offeredAt[slug] >= s /\ offeredAt[slug] \in Nat
    BY DEF ListedSince, CacheIsTimed
  <1>2. time \in Nat /\ CacheTtl \in Nat /\ SlowestFetch \in Nat
    BY DEF CacheIsTimed, CatalogueAssumption
  <1> QED  BY <1>1, <1>2

LEMMA ReturnsCachedKeeps ==
  ASSUME CatalogueInv, CatalogueAssumption, NEW c \in Clients, ReturnsCached(c)
  PROVE  CatalogueInv'
  <1>1. Still
    BY DEF ReturnsCached, Still
  <1>2. time < cachedSent + CacheTtl + SlowestFetch
    BY DEF ReturnsCached, Client, CatalogueInv, ClientIsTimed
  <1>3. cachedSent \in Nat /\ ListedSince(cached, cachedSent) /\ CacheIsTimed
    BY DEF CatalogueInv, CacheIsTimed
  <1>4. ListedLately(cached)
    BY <1>2, <1>3, SinceIsLately
  <1>5. Hands(c, cached, FALSE)
    BY DEF ReturnsCached
  <1> QED  BY <1>1, <1>4, <1>5, HandsKeeps

LEMMA FetchFailsKeeps ==
  ASSUME CatalogueInv, NEW c \in Clients, FetchFails(c)
  PROVE  CatalogueInv'
  <1>1. Still /\ Hands(c, cached, TRUE)
    BY DEF FetchFails, Still
  <1> QED  BY <1>1, HandsKeeps

\* What is cached changes under the others: what they have begun with stays good.
LEMMA StoresListKeeps ==
  ASSUME CatalogueInv, CatalogueAssumption, NEW c \in Clients, StoresList(c)
  PROVE  CatalogueInv'
  <1> DEFINE r == [clients[c] EXCEPT !.at = "stamp"]
  <1>1. /\ UNCHANGED <<time, listing, cachedAt, offeredAt>>
        /\ cached' = clients[c].list /\ cachedSent' = clients[c].sent
        /\ clients[c].at = "fetch"
        /\ clients' = [clients EXCEPT ![c] = r]
    BY DEF StoresList, Client, Moves
  <1>2. /\ DOMAIN clients[c] = DOMAIN NotAsked /\ clients[c].sent \in Nat
        /\ clients[c].sent <= time /\ time <= clients[c].sent + SlowestFetch
        /\ ListedSince(clients[c].list, clients[c].sent)
        /\ \A q \in clients[c].rounds : RoundIsOffered(q)
    BY <1>1 DEF CatalogueInv, ClientIsTimed
  <1>3. /\ DOMAIN r = DOMAIN NotAsked /\ r.at = "stamp" /\ r.rounds = clients[c].rounds
        /\ r.list = clients[c].list /\ r.sent = clients[c].sent
    BY <1>2 DEF NotAsked
  <1>4. time \in Nat /\ cachedAt \in Nat /\ cachedAt <= time
        /\ SlowestFetch \in Nat /\ CacheTtl \in Nat \ {0}
    BY DEF CatalogueInv, CacheIsTimed, CatalogueAssumption
  <1>5. CacheIsTimed'
    BY <1>1, <1>2, <1>4 DEF CatalogueInv, CacheIsTimed, ListedSince
  <1>6. ASSUME NEW q, q = r PROVE ClientIsTimed(q)'
    <2>1. /\ DOMAIN q = DOMAIN NotAsked /\ q.at = "stamp" /\ q.rounds = clients[c].rounds
          /\ q.list = clients[c].list /\ q.sent = clients[c].sent
      BY <1>3, <1>6
    <2> QED  BY <1>1, <1>2, <2>1 DEF ClientIsTimed, ListedSince
  <1>7. ASSUME NEW d \in Clients PROVE ClientIsTimed(clients[d])'
    <2>1. CASE d = c
      <3>1. clients'[d] = r
        BY <1>1, <2>1 DEF CatalogueInv
      <3> HIDE DEF r
      <3> QED  BY <1>6, <3>1
    <2>2. CASE d # c
      <3>1. clients'[d] = clients[d] /\ ClientIsTimed(clients[d])
        BY <1>1, <2>2 DEF CatalogueInv
      <3>2. time < cachedSent' + CacheTtl + SlowestFetch
            /\ time <= cachedSent' + SlowestFetch
        BY <1>1, <1>2, <1>4
      <3>3. ClientIsTimed(clients[d])'
        BY <1>1, <3>1, <3>2 DEF ClientIsTimed, ListedSince, ListedLately
      <3> QED  BY <3>3
    <2> QED  BY <2>1, <2>2
  <1>8. DOMAIN clients' = Clients
    BY <1>1 DEF CatalogueInv
  <1> QED  BY <1>5, <1>7, <1>8 DEF CatalogueInv

LEMMA StoresTimeKeeps ==
  ASSUME CatalogueInv, CatalogueAssumption, NEW c \in Clients, StoresTime(c)
  PROVE  CatalogueInv'
  <1> DEFINE r == [clients[c] EXCEPT !.at = "read", !.list = clients[c].list, !.sent = 0,
                                     !.stale = FALSE]
  <1>1. /\ UNCHANGED <<time, listing, cached, offeredAt, cachedSent>>
        /\ cachedAt' = time /\ clients[c].at = "stamp"
        /\ clients' = [clients EXCEPT ![c] = r]
    BY DEF StoresTime, Client, Hands
  <1>2. /\ clients[c].sent \in Nat /\ time <= clients[c].sent + SlowestFetch
        /\ time <= cachedSent + SlowestFetch
        /\ ListedSince(clients[c].list, clients[c].sent)
    BY <1>1 DEF CatalogueInv, ClientIsTimed
  <1>3. time \in Nat /\ SlowestFetch \in Nat /\ CacheTtl \in Nat \ {0} /\ CacheIsTimed
    BY DEF CatalogueInv, CacheIsTimed, CatalogueAssumption
  <1>4. ListedLately(clients[c].list)
    <2>1. time < clients[c].sent + CacheTtl + SlowestFetch
      BY <1>2, <1>3
    <2> QED  BY <1>2, <1>3, <2>1, SinceIsLately
  <1>5. ClientIsTimed(r)
    BY <1>4, HandedIsTimed
  <1>6. CacheIsTimed'
    BY <1>1, <1>2, <1>3 DEF CacheIsTimed, ListedSince
  <1>7. ASSUME NEW q, ClientIsTimed(q) PROVE ClientIsTimed(q)'
    BY <1>1, <1>7 DEF ClientIsTimed, ListedSince, ListedLately
  <1>8. \A d \in Clients : ClientIsTimed(clients'[d])
    <2> HIDE DEF r
    <2> QED  BY <1>1, <1>5 DEF CatalogueInv
  <1>9. \A d \in Clients : ClientIsTimed(clients[d])'
    BY <1>7, <1>8
  <1>10. DOMAIN clients' = Clients
    BY <1>1 DEF CatalogueInv
  <1> QED  BY <1>6, <1>9, <1>10 DEF CatalogueInv

\* What resolve_model returns of a list is in the table, or was offered lately.
LEMMA SendsToKeeps ==
  ASSUME CatalogueInv, CatalogueAssumption, Still, NEW c \in Clients, NEW model,
         model \in Static \/ clients[c].stale \/ model \in Slugs(clients[c].list),
         clients[c].at = "read", SendsTo(c, model)
  PROVE  CatalogueInv'
  <1> DEFINE q == [model |-> model, lag |-> Lag(model), stale |-> clients[c].stale]
             r == [NotAsked EXCEPT !.for = "round", !.at = "thinking",
                       !.choice = clients[c].choice, !.round = clients[c].round + 1,
                       !.rounds = clients[c].rounds \cup {q}]
  <1>1. ClientIsTimed(clients[c])
    BY DEF CatalogueInv
  <1>2. RoundIsOffered(q)
    <2>1. CASE model \in Static \/ clients[c].stale
      BY <2>1 DEF RoundIsOffered
    <2>2. CASE model \in Slugs(clients[c].list) /\ ~clients[c].stale
      <3>1. ListedLately(clients[c].list)
        BY <1>1, <2>2 DEF ClientIsTimed
      <3>2. model \in DOMAIN offeredAt /\ time < offeredAt[model] + CacheTtl + SlowestFetch
        BY <2>2, <3>1 DEF ListedLately
      <3>3. /\ time \in Nat /\ offeredAt[model] \in Nat
            /\ CacheTtl \in Nat /\ SlowestFetch \in Nat
        BY <3>2 DEF CatalogueInv, CacheIsTimed, CatalogueAssumption
      <3>4. Lag(model) < CacheTtl + SlowestFetch
        BY <3>2, <3>3 DEF Lag
      <3> QED  BY <3>4 DEF RoundIsOffered
    <2> QED  BY <2>1, <2>2
  <1>3. ClientIsTimed(r)
    <2>1. /\ DOMAIN r = DOMAIN NotAsked /\ r.at = "thinking"
          /\ r.rounds = clients[c].rounds \cup {q}
      BY DEF NotAsked
    <2>2. \A p \in clients[c].rounds \cup {q} : RoundIsOffered(p)
      <3> HIDE DEF q
      <3> QED  BY <1>1, <1>2 DEF ClientIsTimed
    <2> HIDE DEF q, r
    <2> QED  BY <2>1, <2>2 DEF ClientIsTimed
  <1>4. clients' = [clients EXCEPT ![c] = r]
    BY DEF SendsTo
  <1> HIDE DEF r
  <1> QED  BY <1>3, <1>4, OneClientMoves

LEMMA SendsRoundKeeps ==
  ASSUME CatalogueInv, CatalogueAssumption, NEW c \in Clients, SendsRound(c)
  PROVE  CatalogueInv'
  <1> DEFINE model == IF clients[c].choice \in Static \cup Slugs(clients[c].list)
                      THEN clients[c].choice ELSE DefaultModel
  <1>1. Still /\ SendsTo(c, model) /\ clients[c].at = "read"
    BY DEF SendsRound, Client, Still
  <1>2. model \in Static \/ model \in Slugs(clients[c].list)
    BY DEF CatalogueAssumption
  <1> HIDE DEF model
  <1> QED  BY <1>1, <1>2, SendsToKeeps

LEMMA RequestKeeps ==
  ASSUME CatalogueInv, NEW c \in Clients, NEW picked, NEW slug,
         BeginsWith(c, picked) \/ Rechecks(c) \/ Routes(c) \/ NextRound(c)
             \/ Chooses(c, slug)
  PROVE  CatalogueInv'
  <1>1. Still
    BY DEF BeginsWith, Rechecks, Routes, NextRound, Chooses, Still
  <1>2. CASE BeginsWith(c, picked)
    BY <1>1, <1>2, ReadingIsTimed DEF BeginsWith
  <1>3. CASE Rechecks(c)
    BY <1>1, <1>3, ReadingIsTimed DEF Rechecks
  <1>4. CASE Routes(c)
    <2> DEFINE model == Routed(clients[c].list, clients[c].choice)
    <2>1. Reading(c, "round", model, Resolving(model))
      BY <1>4 DEF Routes
    <2>2. Resolving(model) \in {"look", "read"}
      BY DEF Resolving
    <2> HIDE DEF model
    <2> QED  BY <1>1, <2>1, <2>2, ReadingIsTimed
  <1>5. CASE NextRound(c)
    <2>1. Reading(c, "round", clients[c].choice, Resolving(clients[c].choice))
      BY <1>5 DEF NextRound
    <2>2. Resolving(clients[c].choice) \in {"look", "read"}
      BY DEF Resolving
    <2> QED  BY <1>1, <2>1, <2>2, ReadingIsTimed
  <1>6. CASE Chooses(c, slug)
    <2>1. CASE slug = Router
      <3>1. UNCHANGED clients
        BY <1>6, <2>1 DEF Chooses
      <3> QED  BY <1>1, <3>1, StillTimed DEF CatalogueInv
    <2>2. CASE slug # Router
      BY <1>1, <1>6, <2>2, ReadingIsTimed DEF Chooses
    <2> QED  BY <2>1, <2>2
  <1> QED  BY <1>2, <1>3, <1>4, <1>5, <1>6

\* A request that ends, or shows what it read.
LEMMA EndKeeps ==
  ASSUME CatalogueInv, NEW c \in Clients, Draws(c) \/ Records(c) \/ Replied(c)
  PROVE  CatalogueInv'
  <1>1. Still
    BY DEF Draws, Records, Replied, Still
  <1>2. CASE Draws(c)
    <2> DEFINE r == [NotAsked EXCEPT !.at = "drawn", !.choice = clients[c].choice,
                                     !.shown = Payload(clients[c].list, clients[c].choice)]
    <2>1. DOMAIN r = DOMAIN NotAsked /\ r.at = "drawn" /\ r.rounds = {}
      BY DEF NotAsked
    <2>2. ClientIsTimed(r)
      <3> HIDE DEF r
      <3> QED  BY <2>1 DEF ClientIsTimed
    <2>3. clients' = [clients EXCEPT ![c] = r]
      BY <1>2 DEF Draws
    <2> HIDE DEF r
    <2> QED  BY <1>1, <2>2, <2>3, OneClientMoves
  <1>3. CASE Records(c) \/ Replied(c)
    <2>1. clients' = [clients EXCEPT ![c] = NotAsked]
      BY <1>3 DEF Records, Replied
    <2> QED  BY <1>1, <2>1, NotAskedIsTimed, OneClientMoves
  <1> QED  BY <1>2, <1>3

LEMMA ListingShiftsKeeps ==
  ASSUME CatalogueInv, NEW rows \in Listings, ListingShifts(rows)
  PROVE  CatalogueInv'
  <1>1. /\ UNCHANGED <<time, cached, cachedAt, clients, cachedSent>>
        /\ listing' = rows /\ offeredAt' = Offering(rows, time)
    BY DEF ListingShifts
  <1>2. CacheIsTimed /\ time \in Nat /\ cachedSent \in Nat /\ cachedSent <= time
        /\ ListedSince(cached, cachedSent)
    BY DEF CatalogueInv, CacheIsTimed
  <1>3. /\ \A slug \in DOMAIN offeredAt' :
              offeredAt'[slug] \in Nat /\ offeredAt'[slug] <= time
        /\ \A slug \in Slugs(Catalogued[rows]) :
              slug \in DOMAIN offeredAt' /\ offeredAt'[slug] = time
        /\ ListedSince(cached, cachedSent)'
    <2>1. \A slug \in Slugs(cached) : slug \in DOMAIN offeredAt'
          /\ offeredAt'[slug] >= cachedSent
      BY <1>1, <1>2 DEF CacheIsTimed, Offering, ListedSince
    <2>2. ListedSince(cached, cachedSent)'
      BY <1>1, <2>1 DEF ListedSince
    <2>3. \A slug \in DOMAIN offeredAt' : offeredAt'[slug] \in Nat
          /\ offeredAt'[slug] <= time
      BY <1>1, <1>2 DEF CacheIsTimed, Offering
    <2> QED  BY <1>1, <2>2, <2>3 DEF Offering
  <1>4. CacheIsTimed'
    BY <1>1, <1>2, <1>3 DEF CacheIsTimed, ListedSince
  <1>5. \A slug \in DOMAIN offeredAt :
            slug \in DOMAIN offeredAt' /\ offeredAt'[slug] \in Nat
            /\ offeredAt[slug] \in Nat /\ offeredAt'[slug] >= offeredAt[slug]
    BY <1>1, <1>2 DEF CacheIsTimed, Offering
  <1>6. ASSUME NEW c \in Clients PROVE ClientIsTimed(clients[c])'
    <2>1. ClientIsTimed(clients[c])
      BY DEF CatalogueInv
    <2>2. (clients[c].at = "fetch" \/ clients[c].at = "stamp") =>
              \A slug \in Slugs(clients[c].list) :
                 slug \in DOMAIN offeredAt' /\ offeredAt'[slug] >= clients[c].sent
      BY <1>5, <2>1 DEF ClientIsTimed, ListedSince
    <2>3. (clients[c].at = "read" /\ ~clients[c].stale) =>
              \A slug \in Slugs(clients[c].list) :
                 /\ slug \in DOMAIN offeredAt'
                 /\ time < offeredAt'[slug] + CacheTtl + SlowestFetch
      BY <1>2, <1>5, <2>1, CatalogueAssumption
         DEF ClientIsTimed, ListedLately, CatalogueAssumption
    <2> QED  BY <1>1, <2>1, <2>2, <2>3 DEF ClientIsTimed, ListedSince, ListedLately
  <1> QED  BY <1>1, <1>4, <1>6 DEF CatalogueInv

\* While time passes nobody reads: whoever waits for a list has none to rely on.
LEMMA TimePassesKeeps ==
  ASSUME CatalogueInv, CatalogueAssumption, TimePasses
  PROVE  CatalogueInv'
  <1>1. /\ UNCHANGED <<listing, cached, cachedAt, clients, cachedSent>>
        /\ time' = time + 1 /\ offeredAt' = Offering(listing, time + 1)
        /\ \A c \in Clients : Waits(c)
    BY DEF TimePasses
  <1>2. /\ CacheIsTimed /\ time \in Nat /\ cachedSent \in Nat /\ cachedSent <= time
        /\ cachedAt \in Nat /\ cachedAt <= time /\ SlowestFetch \in Nat
        /\ listing \in Listings
    BY DEF CatalogueInv, CacheIsTimed, CatalogueAssumption
  <1>3. \A slug \in DOMAIN offeredAt :
            slug \in DOMAIN offeredAt' /\ offeredAt'[slug] \in Nat
            /\ offeredAt[slug] \in Nat /\ offeredAt'[slug] >= offeredAt[slug]
    BY <1>1, <1>2 DEF CacheIsTimed, Offering
  <1>4. /\ \A slug \in DOMAIN offeredAt' :
              offeredAt'[slug] \in Nat /\ offeredAt'[slug] <= time'
        /\ \A slug \in Slugs(Catalogued[listing]) :
              slug \in DOMAIN offeredAt' /\ offeredAt'[slug] = time'
    BY <1>1, <1>2 DEF CacheIsTimed, Offering
  <1>5. CacheIsTimed'
    BY <1>1, <1>2, <1>3, <1>4 DEF CacheIsTimed, ListedSince
  <1>6. ASSUME NEW c \in Clients PROVE ClientIsTimed(clients[c])'
    <2>1. ClientIsTimed(clients[c])
      BY DEF CatalogueInv
    <2>2. clients[c].at \in {"idle", "thinking", "drawn"}
          \/ (clients[c].at = "fetch" /\ time < clients[c].sent + SlowestFetch)
      BY <1>1 DEF Waits, Client
    <2>3. CASE clients[c].at = "fetch" /\ time < clients[c].sent + SlowestFetch
      <3>1. \A slug \in Slugs(clients[c].list) :
                slug \in DOMAIN offeredAt' /\ offeredAt'[slug] >= clients[c].sent
        BY <1>3, <2>1, <2>3 DEF ClientIsTimed, ListedSince
      <3>2. clients[c].sent \in Nat /\ clients[c].sent <= time + 1
            /\ time + 1 <= clients[c].sent + SlowestFetch
        BY <1>2, <2>1, <2>3 DEF ClientIsTimed
      <3> QED  BY <1>1, <2>1, <2>3, <3>1, <3>2 DEF ClientIsTimed, ListedSince
    <2>4. CASE clients[c].at \in {"idle", "thinking", "drawn"}
      BY <1>1, <2>1, <2>4 DEF ClientIsTimed
    <2> QED  BY <2>2, <2>3, <2>4
  <1> QED  BY <1>1, <1>5, <1>6 DEF CatalogueInv

LEMMA CatalogueInvInit == CatalogueInit => CatalogueInv
  <1> SUFFICES ASSUME CatalogueInit PROVE CatalogueInv
    OBVIOUS
  <1>1. ListedSince(cached, cachedSent)
    BY NothingIsListed DEF CatalogueInit, ListedSince
  <1>2. CacheIsTimed
    BY <1>1, CatalogueAssumption
       DEF CatalogueInit, CacheIsTimed, ListedSince, CatalogueAssumption
  <1> QED  BY <1>2, NotAskedIsTimed DEF CatalogueInit, CatalogueInv

LEMMA CatalogueInvNext ==
  CatalogueInv /\ [CatalogueNext]_catalogueVars => CatalogueInv'
  <1> SUFFICES ASSUME CatalogueInv, [CatalogueNext]_catalogueVars PROVE CatalogueInv'
    OBVIOUS
  <1> USE CatalogueAssumption
  <1>1. ASSUME NEW c \in Clients, LooksAtCache(c) PROVE CatalogueInv'
    BY <1>1, LooksAtCacheKeeps
  <1>2. ASSUME NEW c \in Clients, ReturnsCached(c) PROVE CatalogueInv'
    BY <1>2, ReturnsCachedKeeps
  <1>3. ASSUME NEW c \in Clients, StoresList(c) PROVE CatalogueInv'
    BY <1>3, StoresListKeeps
  <1>4. ASSUME NEW c \in Clients, StoresTime(c) PROVE CatalogueInv'
    BY <1>4, StoresTimeKeeps
  <1>5. ASSUME NEW c \in Clients, FetchFails(c) PROVE CatalogueInv'
    BY <1>5, FetchFailsKeeps
  <1>6. ASSUME NEW c \in Clients, NEW picked, NEW slug,
               BeginsWith(c, picked) \/ Rechecks(c) \/ Routes(c) \/ NextRound(c)
                   \/ Chooses(c, slug)
        PROVE  CatalogueInv'
    BY <1>6, RequestKeeps
  <1>7. ASSUME NEW c \in Clients, SendsRound(c) PROVE CatalogueInv'
    BY <1>7, SendsRoundKeeps
  <1>8. ASSUME NEW c \in Clients, Draws(c) \/ Records(c) \/ Replied(c) PROVE CatalogueInv'
    BY <1>8, EndKeeps
  <1>9. ASSUME NEW rows \in Listings, ListingShifts(rows) PROVE CatalogueInv'
    BY <1>9, ListingShiftsKeeps
  <1>10. ASSUME TimePasses PROVE CatalogueInv'
    BY <1>10, TimePassesKeeps
  <1>11. CASE UNCHANGED catalogueVars
    <2>1. Still /\ UNCHANGED clients
      BY <1>11 DEF catalogueVars, Still
    <2> QED  BY <2>1, StillTimed DEF CatalogueInv
  <1> QED  BY <1>1, <1>2, <1>3, <1>4, <1>5, <1>6, <1>7, <1>8, <1>9, <1>10, <1>11
           DEF CatalogueNext

\* Every round of every question is one of the table's models or of one that OpenRouter
\* offered lately, for any number of requests that overlap on the cache, any sequence of
\* listings and any delay a fetch may have.
THEOREM RoundsOffered == CatalogueSpec => []RoundsAreOffered
  <1>1. CatalogueInv => RoundsAreOffered
    BY DEF CatalogueInv, ClientIsTimed, RoundIsOffered, RoundsAreOffered
  <1> QED  BY <1>1, CatalogueInvInit, CatalogueInvNext, PTL DEF CatalogueSpec

-----------------------------------------------------------------------------
(* Inference.                                                              *)

Requests == [step : {"none", "waiting", "working"}, server : Servers,
             texts : Batches \cup {<<>>}, asked : Nat, began : Nat]

InferenceTypeOK ==
    /\ minute \in Nat
    /\ call \in [Calls -> Requests]

\* A request waits no longer than its server lets it, and is at work no longer than the
\* slowest one.
InTime(q, now) ==
    /\ q.step # "none" => q.asked <= now
    /\ q.step = "waiting" => now - q.asked <= BusyWait(q.server)
    /\ q.step = "working" =>
          /\ q.began <= now
          /\ q.began - q.asked <= BusyWait(q.server)
          /\ now - q.began <= Slowest(q.server)

TurnsAreTimed == \A c \in Calls : InTime(call[c], minute)

InferenceInv == InferenceTypeOK /\ TurnsAreTimed

LEMMA WaitsAre ==
    ASSUME InferenceAssumption, NEW server \in Servers
    PROVE  /\ BusyWait(server) \in Nat /\ Slowest(server) \in Nat \ {0} /\ Patience(server) \in Nat
           /\ BusyWait(server) + Slowest(server) <= Patience(server)
BY DEF InferenceAssumption, BusyWait, Slowest, Patience

LEMMA OneRequestMoves ==
    ASSUME InferenceInv, NEW c \in Calls, NEW q \in Requests, InTime(q, minute),
           call' = [call EXCEPT ![c] = q], minute' = minute
    PROVE  InferenceInv'
<1>1. \A x \in Calls : call'[x] = IF x = c THEN q ELSE call[x]
    BY DEF InferenceInv, InferenceTypeOK
<1>2. InferenceTypeOK'
    BY DEF InferenceInv, InferenceTypeOK, Requests
<1>3. \A x \in Calls : InTime(call'[x], minute)
    BY <1>1 DEF InferenceInv, TurnsAreTimed
<1> QED  BY <1>2, <1>3 DEF InferenceInv, TurnsAreTimed

LEMMA InferenceInvNext ==
    ASSUME InferenceAssumption, InferenceInv, [InferenceNext]_inferenceVars
    PROVE  InferenceInv'
<1>0. minute \in Nat /\ \A c \in Calls : call[c] \in Requests /\ InTime(call[c], minute)
    BY DEF InferenceInv, InferenceTypeOK, TurnsAreTimed, Requests
<1>1. CASE UNCHANGED inferenceVars
    BY <1>1 DEF inferenceVars, InferenceInv, InferenceTypeOK, TurnsAreTimed
<1>2. ASSUME NEW c \in Calls, NEW server \in Servers, NEW texts \in Batches \cup {<<>>},
             Sends(c, server, texts)
      PROVE  InferenceInv'
    <2> DEFINE q == [NoCall EXCEPT !.step = "waiting", !.server = server, !.texts = texts,
                                   !.asked = minute]
    <2>1. q \in Requests /\ q.step = "waiting" /\ q.asked = minute /\ q.server = server
        BY <1>0 DEF NoCall, Requests
    <2>2. call' = [call EXCEPT ![c] = q] /\ minute' = minute
        BY <1>2 DEF Sends
    <2> HIDE DEF q
    <2>3. InTime(q, minute)
        <3>1. BusyWait(server) \in Nat /\ minute \in Nat
            BY <1>0, WaitsAre
        <3> QED  BY <2>1, <3>1 DEF InTime
    <2> QED  BY <2>1, <2>2, <2>3, OneRequestMoves
<1>3. ASSUME NEW c \in Calls, Takes(c)
      PROVE  InferenceInv'
    <2> DEFINE q == [call[c] EXCEPT !.step = "working", !.began = minute]
    <2>1. /\ q \in Requests /\ q.step = "working" /\ q.began = minute
          /\ q.asked = call[c].asked /\ q.server = call[c].server
        BY <1>0 DEF Requests
    <2>2. call' = [call EXCEPT ![c] = q] /\ minute' = minute
        BY <1>3 DEF Takes, InferenceInv, InferenceTypeOK
    <2> HIDE DEF q
    <2>3. call[c].server \in Servers /\ call[c].asked \in Nat /\ call[c].step = "waiting"
        BY <1>0, <1>3 DEF Takes, Requests
    <2>4. InTime(q, minute)
        BY SMTT(30), <1>0, <2>1, <2>3, WaitsAre DEF InTime
    <2> QED  BY <2>1, <2>2, <2>4, OneRequestMoves
<1>4. ASSUME NEW c \in Calls, Busy(c) \/ Answers(c) \/ CannotAnswer(c)
      PROVE  InferenceInv'
    <2>1. call' = [call EXCEPT ![c] = NoCall] /\ minute' = minute
        BY <1>4 DEF Busy, Answers, CannotAnswer
    <2>2. NoCall \in Requests /\ InTime(NoCall, minute)
        BY DEF NoCall, Requests, Servers, InTime
    <2> QED  BY <2>1, <2>2, OneRequestMoves
<1>5. CASE MinutePasses
    <2>1. minute' = minute + 1 /\ call' = call
        BY <1>5 DEF MinutePasses
    <2>2. ASSUME NEW c \in Calls
          PROVE  InTime(call[c], minute + 1)
        <3>1. /\ call[c].server \in Servers /\ call[c].asked \in Nat /\ call[c].began \in Nat
              /\ InTime(call[c], minute)
            BY <1>0 DEF Requests
        <3>2. /\ call[c].step = "working" => minute - call[c].began < Slowest(call[c].server)
              /\ call[c].step = "waiting" => ~(minute - call[c].asked >= BusyWait(call[c].server))
            BY <1>5 DEF MinutePasses, WaitedLongEnough
        <3>3. BusyWait(call[c].server) \in Nat /\ Slowest(call[c].server) \in Nat
            BY <3>1, WaitsAre
        <3>4. minute \in Nat /\ call[c].step \in {"none", "waiting", "working"}
            BY <1>0 DEF Requests
        <3>5. CASE call[c].step = "none"
            BY <3>5 DEF InTime
        <3>6. CASE call[c].step = "waiting"
            <4>1. call[c].asked <= minute /\ ~(minute - call[c].asked >= BusyWait(call[c].server))
                BY <3>1, <3>2, <3>6 DEF InTime
            <4>2. PICK later : later = minute + 1
                OBVIOUS
            <4>3. call[c].asked <= later /\ later - call[c].asked <= BusyWait(call[c].server)
                BY ONLY <3>1, <3>3, <3>4, <4>1, <4>2
            <4>4. InTime(call[c], later)
                BY <3>6, <4>3 DEF InTime
            <4> QED  BY <4>2, <4>4
        <3>7. CASE call[c].step = "working"
            <4>1. /\ call[c].asked <= minute /\ call[c].began <= minute
                  /\ call[c].began - call[c].asked <= BusyWait(call[c].server)
                  /\ minute - call[c].began < Slowest(call[c].server)
                BY <3>1, <3>2, <3>7 DEF InTime
            <4>2. PICK later : later = minute + 1
                OBVIOUS
            <4>3. /\ call[c].asked <= later /\ call[c].began <= later
                  /\ later - call[c].began <= Slowest(call[c].server)
                BY ONLY <3>1, <3>3, <3>4, <4>1, <4>2
            <4>4. InTime(call[c], later)
                BY <3>7, <4>1, <4>3 DEF InTime
            <4> QED  BY <4>2, <4>4
        <3> QED  BY <3>4, <3>5, <3>6, <3>7
    <2>3. InferenceTypeOK'
        BY <1>0, <2>1 DEF InferenceInv, InferenceTypeOK
    <2> QED  BY <2>1, <2>2, <2>3 DEF InferenceInv, TurnsAreTimed
<1> QED  BY <1>1, <1>2, <1>3, <1>4, <1>5 DEF InferenceNext

LEMMA InferenceHolds == InferenceSpec => []InferenceInv
<1>1. InferenceInit => InferenceInv
    <2>1. NoCall \in Requests /\ InTime(NoCall, 0)
        BY DEF NoCall, Requests, Servers, InTime
    <2> QED  BY <2>1 DEF InferenceInit, InferenceInv, InferenceTypeOK, TurnsAreTimed, Requests
<1>2. InferenceInv /\ [InferenceNext]_inferenceVars => InferenceInv'
    BY InferenceAssumption, InferenceInvNext
<1> QED  BY <1>1, <1>2, PTL DEF InferenceSpec

\* Nothing is under way for longer than its client waits.  (BUSY_WAIT_SECONDS, TIMEOUT_SECONDS)
THEOREM NothingAbandoned == InferenceSpec => []NothingIsAbandoned
<1>1. InferenceInv => NothingIsAbandoned
    <2> SUFFICES ASSUME InferenceInv, NEW c \in Calls, call[c].step # "none"
                 PROVE  minute - call[c].asked <= Patience(call[c].server)
        BY DEF NothingIsAbandoned
    <2>1. /\ minute \in Nat /\ call[c].asked \in Nat /\ call[c].began \in Nat
          /\ call[c].server \in Servers /\ call[c].step \in {"none", "waiting", "working"}
          /\ InTime(call[c], minute)
        BY DEF InferenceInv, InferenceTypeOK, TurnsAreTimed, Requests
    <2>2. /\ BusyWait(call[c].server) \in Nat /\ Slowest(call[c].server) \in Nat
          /\ Patience(call[c].server) \in Nat
          /\ BusyWait(call[c].server) + Slowest(call[c].server) <= Patience(call[c].server)
        BY <2>1, InferenceAssumption, WaitsAre
    <2> QED  BY <2>1, <2>2 DEF InTime
<1> QED  BY <1>1, InferenceHolds, PTL

-----------------------------------------------------------------------------
(* The order of the texts.                                                 *)

\* A relation that puts each two of a set in order.
Orders(R, S) ==
    /\ \A s \in S : <<s, s>> \notin R
    /\ \A s, t \in S : s # t => <<s, t>> \in R \/ <<t, s>> \in R
    /\ \A s, t, u \in S : <<s, t>> \in R /\ <<t, u>> \in R => <<s, u>> \in R

Preds(R, S, s) == {o \in S : <<o, s>> \in R}

\* Each stands at a place of its own, where as many come before it.
LEMMA PlacesAreOwn ==
    ASSUME NEW S, NEW R, IsFiniteSet(S), Orders(R, S)
    PROVE  /\ \A s \in S : Cardinality(Preds(R, S, s)) + 1 \in 1 .. Cardinality(S)
           /\ \A n \in 1 .. Cardinality(S) : \E s \in S : Cardinality(Preds(R, S, s)) = n - 1
           /\ \A s, t \in S : Cardinality(Preds(R, S, s)) = Cardinality(Preds(R, S, t)) => s = t
<1> DEFINE P(s) == Preds(R, S, s)
           N == Cardinality(S)
           place == [s \in S |-> Cardinality(P(s)) + 1]
<1>1. N \in Nat /\ \A s \in S : P(s) \subseteq S \ {s} /\ IsFiniteSet(P(s)) /\ Cardinality(P(s)) \in Nat
    <2>1. \A s \in S : P(s) \subseteq S \ {s}
        BY DEF Orders, Preds
    <2> HIDE DEF P
    <2>2. \A s \in S : P(s) \subseteq S
        BY <2>1
    <2> QED  BY <2>1, <2>2, FS_Subset, FS_CardinalityType
<1>2. \A s \in S : Cardinality(P(s)) <= N - 1
    <2> SUFFICES ASSUME NEW s \in S PROVE Cardinality(P(s)) <= N - 1
        OBVIOUS
    <2> HIDE DEF P
    <2>1. Cardinality(S \ {s}) = N - 1 /\ IsFiniteSet(S \ {s})
        BY Smaller
    <2> QED  BY <1>1, <2>1, FS_Subset
<1>3. \A s, t \in S : <<s, t>> \in R => Cardinality(P(s)) < Cardinality(P(t))
    <2> SUFFICES ASSUME NEW s \in S, NEW t \in S, <<s, t>> \in R
                 PROVE  Cardinality(P(s)) < Cardinality(P(t))
        OBVIOUS
    <2>1. P(s) \subseteq P(t) \ {s} /\ s \in P(t)
        BY DEF Orders, Preds
    <2> HIDE DEF P
    <2>2. IsFiniteSet(P(t)) /\ Cardinality(P(t) \ {s}) = Cardinality(P(t)) - 1 /\ IsFiniteSet(P(t) \ {s})
        BY <1>1, <2>1, Smaller
    <2>3. Cardinality(P(s)) <= Cardinality(P(t) \ {s})
        BY <2>1, <2>2, FS_Subset
    <2> QED  BY <1>1, <2>2, <2>3
<1>4. \A s, t \in S : Cardinality(P(s)) = Cardinality(P(t)) => s = t
    <2> HIDE DEF P
    <2>1. \A s, t \in S : s # t => Cardinality(P(s)) # Cardinality(P(t))
        <3> SUFFICES ASSUME NEW s \in S, NEW t \in S, s # t
                     PROVE  Cardinality(P(s)) # Cardinality(P(t))
            OBVIOUS
        <3>1. <<s, t>> \in R \/ <<t, s>> \in R
            BY DEF Orders
        <3>2. Cardinality(P(s)) \in Nat /\ Cardinality(P(t)) \in Nat
            BY <1>1
        <3> QED  BY <1>3, <3>1, <3>2
    <2> QED  BY <2>1
<1>5. \A s \in S : Cardinality(P(s)) + 1 \in 1 .. N
    <2> HIDE DEF P, N
    <2> QED  BY <1>1, <1>2
<1>6. place \in Injection(S, 1 .. N)
    <2> HIDE DEF P, N
    <2>1. place \in [S -> 1 .. N]
        BY <1>5
    <2>2. \A s, t \in S : place[s] = place[t] => s = t
        BY <1>1, <1>4
    <2> QED  BY <2>1, <2>2 DEF Injection, IsInjective
<1>7. IsFiniteSet(1 .. N) /\ Cardinality(1 .. N) = N
    BY <1>1, FS_Interval
<1>8. place \in Surjection(S, 1 .. N)
    <2> HIDE DEF place
    <2> QED  BY <1>6, <1>7, FS_Injection
<1>9. \A n \in 1 .. N : \E s \in S : Cardinality(P(s)) = n - 1
    <2> HIDE DEF P, N
    <2>1. \A n \in 1 .. N : \E s \in S : place[s] = n
        BY <1>8 DEF Surjection
    <2>2. \A s \in S : place[s] = Cardinality(P(s)) + 1 /\ Cardinality(P(s)) \in Nat
        BY <1>1
    <2> HIDE DEF place
    <2> SUFFICES ASSUME NEW n \in 1 .. N PROVE \E s \in S : Cardinality(P(s)) = n - 1
        OBVIOUS
    <2>3. PICK s \in S : place[s] = n
        BY <2>1
    <2> QED  BY <2>2, <2>3
<1> QED  BY <1>4, <1>5, <1>9

RowBy(R, S) == [n \in 1 .. Cardinality(S) |-> CHOOSE s \in S : Cardinality(Preds(R, S, s)) = n - 1]

\* All of a set stand in a row, each once.
InRow(row, S) ==
    /\ Cardinality(S) \in Nat
    /\ row \in [1 .. Cardinality(S) -> S]
    /\ \A n, m \in 1 .. Cardinality(S) : row[n] = row[m] => n = m
    /\ \A s \in S : \E n \in 1 .. Cardinality(S) : row[n] = s

LEMMA RowPicked ==
    ASSUME NEW S, NEW R, IsFiniteSet(S), Orders(R, S)
    PROVE  InRow(RowBy(R, S), S)
<1> DEFINE N == Cardinality(S)
           c(s) == Cardinality(Preds(R, S, s))
<1>1. N \in Nat
    BY FS_CardinalityType
<1>2. /\ \A s \in S : c(s) + 1 \in 1 .. N
      /\ \A n \in 1 .. N : \E s \in S : c(s) = n - 1
      /\ \A s, t \in S : c(s) = c(t) => s = t
    BY PlacesAreOwn
<1>3. \A s \in S : c(s) \in Nat
    <2>1. \A s \in S : IsFiniteSet(Preds(R, S, s))
        BY FS_Subset DEF Preds
    <2> QED  BY <2>1, FS_CardinalityType
<1> DEFINE row == RowBy(R, S)
<1>4. row = [n \in 1 .. N |-> CHOOSE s \in S : c(s) = n - 1]
    BY DEF RowBy
<1> HIDE DEF row
<1> HIDE DEF c, N
<1>5. \A n \in 1 .. N : row[n] \in S /\ c(row[n]) = n - 1
    BY <1>2, <1>4
<1>6. row \in [1 .. N -> S]
    BY <1>4, <1>5
<1>7. \A s \in S : row[c(s) + 1] = s /\ c(s) + 1 \in 1 .. N
    BY <1>2, <1>3, <1>5
<1>8. \A n, m \in 1 .. N : row[n] = row[m] => n = m
    BY <1>1, <1>5
<1> QED  BY <1>1, <1>6, <1>7, <1>8 DEF N, row, InRow

Steps(N, X, x0, F, g) ==
    g \in [0 .. N -> X] /\ g[0] = x0 /\ \A n \in 1 .. N : g[n] = F[n][g[n - 1]]

\* What is worked out step by step can be.
LEMMA StepByStep ==
    ASSUME NEW N \in Nat, NEW X, NEW x0 \in X, NEW F \in [1 .. N -> [X -> X]]
    PROVE  \E g : Steps(N, X, x0, F, g)
<1> USE DEF Steps
<1> DEFINE UpTo(g, m) == g \in [0 .. m -> X] /\ g[0] = x0 /\ \A n \in 1 .. m : g[n] = F[n][g[n - 1]]
           Bad == {m \in 0 .. N : ~\E g : UpTo(g, m)}
<1>1. SUFFICES ASSUME Bad # {} PROVE FALSE
    BY <1>1
<1>2. PICK m \in Bad : \A o \in Bad : m <= o
    <2>1. Bad \subseteq Nat
        OBVIOUS
    <2> HIDE DEF Bad
    <2> QED  BY <1>1, <2>1, LeastOf
<1>3. m # 0
    <2>1. UpTo([n \in 0 .. 0 |-> x0], 0)
        OBVIOUS
    <2> QED  BY ZenonT(30), <1>2, <2>1
<1>4. PICK g : UpTo(g, m - 1)
    <2>1. m \in 0 .. N
        OBVIOUS
    <2>2. m - 1 \in 0 .. N /\ ~(m <= m - 1)
        BY <1>3, <2>1
    <2>3. m - 1 \notin Bad
        <3> HIDE DEF Bad
        <3> QED  BY <1>2, <2>2
    <2> HIDE DEF UpTo
    <2> QED  BY <2>2, <2>3
<1>5. PICK h : h = [n \in 0 .. m |-> IF n = m THEN F[m][g[m - 1]] ELSE g[n]]
    OBVIOUS
<1>6. m \in 1 .. N /\ g[m - 1] \in X /\ F[m] \in [X -> X]
    BY <1>2, <1>3, <1>4
<1>7. h \in [0 .. m -> X]
    BY <1>4, <1>5, <1>6
<1>8. h[0] = x0
    BY <1>4, <1>5, <1>6
<1>9. ASSUME NEW n \in 1 .. m PROVE h[n] = F[n][h[n - 1]]
    <2>1. h[n - 1] = g[n - 1]
        BY <1>5, <1>6
    <2>2. CASE n = m
        BY <1>5, <1>6, <2>1, <2>2
    <2>3. CASE n # m
        <3>1. n \in 1 .. (m - 1) /\ h[n] = g[n]
            BY <1>5, <1>6, <2>3
        <3> QED  BY <1>4, <2>1, <3>1
    <2> QED  BY <2>2, <2>3
<1> QED  BY <1>2, <1>7, <1>8, <1>9

\* A text is in a chunk.
In(chunks, k) == \E c \in DOMAIN chunks : \E i \in DOMAIN chunks[c] : chunks[c][i] = k

LEMMA PlaceIs ==
    ASSUME NEW D, NEW k \in D, NEW chunks \in Seq(Seq(D)), NEW lengths
    PROVE  /\ Place(lengths, k, chunks) \in Seq(Seq(D))
           /\ In(Place(lengths, k, chunks), k)
           /\ \A j \in D : In(chunks, j) => In(Place(lengths, k, chunks), j)
<1>1. ASSUME NEW after, after = Append(chunks, <<k>>)
      PROVE  /\ after \in Seq(Seq(D)) /\ In(after, k)
             /\ \A j \in D : In(chunks, j) => In(after, j)
    <2>1. /\ after \in Seq(Seq(D)) /\ Len(chunks) \in Nat
          /\ DOMAIN chunks = 1 .. Len(chunks) /\ DOMAIN after = 1 .. (Len(chunks) + 1)
          /\ after[Len(chunks) + 1] = <<k>>
          /\ \A c \in DOMAIN chunks : after[c] = chunks[c]
        BY <1>1
    <2>2. DOMAIN <<k>> = {1} /\ <<k>>[1] = k
        OBVIOUS
    <2>3. In(after, k)
        <3>1. Len(chunks) + 1 \in DOMAIN after
            BY <2>1
        <3> QED  BY <2>1, <2>2, <3>1 DEF In
    <2>4. \A j \in D : In(chunks, j) => In(after, j)
        BY <2>1 DEF In
    <2> QED  BY <2>1, <2>3, <2>4
<1>2. ASSUME NEW after, chunks # <<>>, after = Append(Front(chunks), Append(Last(chunks), k))
      PROVE  /\ after \in Seq(Seq(D)) /\ In(after, k)
             /\ \A j \in D : In(chunks, j) => In(after, j)
    <2> DEFINE n == Len(chunks)
    <2>1. n \in Nat \ {0} /\ DOMAIN chunks = 1 .. n /\ chunks[n] \in Seq(D)
        BY <1>2
    <2>2. PICK last : last = chunks[n]
        OBVIOUS
    <2>3. PICK more : more = Append(last, k)
        OBVIOUS
    <2>4. PICK front : front = SubSeq(chunks, 1, n - 1)
        OBVIOUS
    <2>5. /\ more \in Seq(D) /\ Len(last) \in Nat
          /\ DOMAIN last = 1 .. Len(last) /\ DOMAIN more = 1 .. (Len(last) + 1)
          /\ more[Len(last) + 1] = k
          /\ \A i \in DOMAIN last : more[i] = last[i]
        BY <2>1, <2>2, <2>3
    <2>6. /\ front \in Seq(Seq(D)) /\ Len(front) = n - 1 /\ DOMAIN front = 1 .. (n - 1)
          /\ \A c \in 1 .. (n - 1) : front[c] = chunks[c]
        BY <2>1, <2>4
    <2>7. after = Append(front, more)
        BY <1>2, <2>2, <2>3, <2>4 DEF Front, Last
    <2> HIDE DEF n
    <2>8. /\ after \in Seq(Seq(D)) /\ DOMAIN after = 1 .. n /\ after[n] = more
          /\ \A c \in 1 .. (n - 1) : after[c] = chunks[c]
        BY <2>1, <2>5, <2>6, <2>7
    <2>9. In(after, k)
        <3>1. n \in DOMAIN after /\ Len(last) + 1 \in DOMAIN after[n] /\ after[n][Len(last) + 1] = k
            BY <2>1, <2>5, <2>8
        <3> QED  BY <3>1 DEF In
    <2>10. ASSUME NEW j \in D, In(chunks, j) PROVE In(after, j)
        <3>1. PICK c \in DOMAIN chunks : \E i \in DOMAIN chunks[c] : chunks[c][i] = j
            BY <2>10 DEF In
        <3>2. CASE c = n
            <4>1. PICK i \in DOMAIN last : last[i] = j
                BY <2>2, <3>1, <3>2
            <4>2. n \in DOMAIN after /\ i \in DOMAIN after[n] /\ after[n][i] = j
                BY <2>1, <2>5, <2>8, <4>1
            <4> QED  BY <4>2 DEF In
        <3>3. CASE c # n
            <4>1. c \in 1 .. (n - 1) /\ c \in DOMAIN after
                BY <2>1, <2>8, <3>3
            <4> QED  BY <2>8, <3>1, <4>1 DEF In
        <3> QED  BY <3>2, <3>3
    <2> QED  BY <2>8, <2>9, <2>10
<1> QED  BY <1>1, <1>2 DEF Place

IsPlan(g, lengths) ==
    g = [n \in 0 .. Len(lengths) |->
            IF n = 0 THEN <<>> ELSE Place(lengths, ShortestFirst(lengths)[n], g[n - 1])]

LEMMA PlanIs == \A lengths : PlanChunks(lengths) = (CHOOSE g : IsPlan(g, lengths))[Len(lengths)]
BY Zenon DEF PlanChunks, IsPlan

\* Every text has its place in the order.
LEMMA ShortestFirstIs ==
    ASSUME NEW lengths \in Seq(Nat)
    PROVE  /\ ShortestFirst(lengths) \in [1 .. Len(lengths) -> 1 .. Len(lengths)]
           /\ \A k \in 1 .. Len(lengths) : \E n \in 1 .. Len(lengths) : ShortestFirst(lengths)[n] = k
<1> DEFINE D == 1 .. Len(lengths)
           Shorter(k, o) == lengths[k] < lengths[o] \/ (lengths[k] = lengths[o] /\ k < o)
           R == {p \in D \X D : Shorter(p[1], p[2])}
<1>1. Len(lengths) \in Nat /\ DOMAIN lengths = D /\ IsFiniteSet(D) /\ Cardinality(D) = Len(lengths)
    <2>1. Len(lengths) \in Nat /\ DOMAIN lengths = 1 .. Len(lengths)
        OBVIOUS
    <2> QED  BY SMTT(30), <2>1, FS_Interval
<1>2. \A k \in D : lengths[k] \in Nat /\ k \in Nat
    BY <1>1
<1>3. \A k, o \in D : <<k, o>> \in R <=> Shorter(k, o)
    OBVIOUS
<1>4. Orders(R, D)
    <2>1. \A k \in D : ~Shorter(k, k)
        BY <1>2
    <2>2. \A k, o \in D : k # o => Shorter(k, o) \/ Shorter(o, k)
        BY <1>2
    <2>3. \A k, o, u \in D : Shorter(k, o) /\ Shorter(o, u) => Shorter(k, u)
        BY <1>2
    <2> HIDE DEF R, D, Shorter
    <2> QED  BY <1>3, <2>1, <2>2, <2>3 DEF Orders
<1>5. ShortestFirst(lengths) = RowBy(R, D)
    <2>1. \A k \in D : Preds(R, D, k) = {o \in D : Shorter(o, k)}
        <3> HIDE DEF R, Shorter, D
        <3> QED  BY <1>3 DEF Preds
    <2>2. ShortestFirst(lengths)
          = [n \in 1 .. Cardinality(D) |-> CHOOSE k \in D : Cardinality({o \in D : Shorter(o, k)}) = n - 1]
        BY <1>1 DEF ShortestFirst, InTurn
    <2> HIDE DEF R, Shorter, D
    <2>3. \A n : (CHOOSE k \in D : Cardinality({o \in D : Shorter(o, k)}) = n - 1)
               = (CHOOSE k \in D : Cardinality(Preds(R, D, k)) = n - 1)
        BY <2>1
    <2> QED  BY <2>2, <2>3 DEF RowBy
<1> HIDE DEF R, Shorter
<1>6. PICK row : row = RowBy(R, D)
    OBVIOUS
<1>7. row \in [1 .. Cardinality(D) -> D] /\ \A k \in D : \E n \in 1 .. Cardinality(D) : row[n] = k
    <2>1. IsFiniteSet(D)
        BY <1>1
    <2> HIDE DEF D
    <2>2. InRow(row, D)
        BY <1>4, <1>6, <2>1, RowPicked
    <2> QED  BY <2>2 DEF InRow
<1> QED  BY <1>1, <1>5, <1>6, <1>7

\* A plan is worked out place by place.
PlannedBy(g, lengths) ==
    /\ g \in [0 .. Len(lengths) -> Seq(Seq(1 .. Len(lengths)))]
    /\ g[0] = <<>>
    /\ \A n \in 1 .. Len(lengths) : g[n] = Place(lengths, ShortestFirst(lengths)[n], g[n - 1])
    /\ PlanChunks(lengths) = g[Len(lengths)]

LEMMA Planned ==
    ASSUME NEW lengths \in Seq(Nat)
    PROVE  \E g : PlannedBy(g, lengths)
<1> DEFINE N == Len(lengths)
           D == 1 .. N
           X == Seq(Seq(D))
           order == ShortestFirst(lengths)
           F == [n \in 1 .. N |-> [x \in X |-> Place(lengths, order[n], x)]]
<1>1. N \in Nat /\ order \in [1 .. N -> D]
    BY ShortestFirstIs
<1>2. <<>> \in X
    OBVIOUS
<1> HIDE DEF D, X, N, order
<1>3. F \in [1 .. N -> [X -> X]]
    <2>1. ASSUME NEW n \in 1 .. N, NEW x \in X PROVE Place(lengths, order[n], x) \in X
        BY <1>1, PlaceIs DEF X
    <2> QED  BY <2>1
<1>4. \E g : IsPlan(g, lengths)
    <2> HIDE DEF F
    <2>1. PICK g \in [0 .. N -> X] : g[0] = <<>> /\ \A n \in 1 .. N : g[n] = F[n][g[n - 1]]
        <3>1. PICK x0 : x0 = <<>>
            OBVIOUS
        <3>2. \E g : Steps(N, X, x0, F, g)
            BY <1>1, <1>2, <1>3, <3>1, StepByStep
        <3> QED  BY <3>1, <3>2 DEF Steps
    <2>2. ASSUME NEW n \in 1 .. N PROVE g[n] = Place(lengths, order[n], g[n - 1])
        <3>1. g[n - 1] \in X
            BY <1>1
        <3> QED  BY <2>1, <3>1 DEF F
    <2>3. g = [n \in 0 .. N |-> IF n = 0 THEN <<>> ELSE Place(lengths, order[n], g[n - 1])]
        <3>1. \A n \in 0 .. N : g[n] = IF n = 0 THEN <<>> ELSE Place(lengths, order[n], g[n - 1])
            BY <1>1, <2>1, <2>2
        <3> QED  BY <3>1
    <2> QED  BY <2>3, Zenon DEF IsPlan, N, order
<1>5. PICK g : IsPlan(g, lengths) /\ PlanChunks(lengths) = g[N]
    BY <1>4, PlanIs DEF N
<1>6. /\ g[0] = <<>> /\ DOMAIN g = 0 .. N
      /\ \A n \in 1 .. N : g[n] = Place(lengths, order[n], g[n - 1])
    <2>1. g = [n \in 0 .. N |-> IF n = 0 THEN <<>> ELSE Place(lengths, order[n], g[n - 1])]
        BY <1>5, Zenon DEF IsPlan, N, order
    <2>2. 0 \in 0 .. N /\ \A n \in 1 .. N : n \in 0 .. N /\ n # 0
        BY <1>1
    <2>3. \A n \in 0 .. N : g[n] = IF n = 0 THEN <<>> ELSE Place(lengths, order[n], g[n - 1])
        BY <2>1
    <2>4. DOMAIN g = 0 .. N
        BY <2>1
    <2> QED  BY <2>2, <2>3, <2>4
<1> DEFINE Bad == {n \in 0 .. N : g[n] \notin X}
<1>7. Bad = {}
    <2>1. SUFFICES ASSUME Bad # {} PROVE FALSE
        OBVIOUS
    <2>2. PICK n \in Bad : \A o \in Bad : n <= o
        <3>1. Bad \subseteq Nat
            OBVIOUS
        <3> HIDE DEF Bad
        <3> QED  BY <2>1, <3>1, LeastOf
    <2>3. n # 0
        BY <1>2, <1>6
    <2>4. n \in 1 .. N /\ n - 1 \in 0 .. N
        BY <1>1, <2>3
    <2>5. g[n - 1] \in X
        <3>1. n - 1 \notin Bad
            <4> HIDE DEF Bad
            <4> QED  BY <2>2, <2>4
        <3> QED  BY <2>4, <3>1
    <2>6. g[n] \in X
        <3>1. order[n] \in D
            BY <1>1, <2>4
        <3>2. Place(lengths, order[n], g[n - 1]) \in X
            BY <2>5, <3>1, PlaceIs DEF X
        <3> QED  BY <1>6, <2>4, <3>2
    <2> QED  BY <2>6
<1>8. g \in [0 .. N -> X]
    <2>1. \A n \in 0 .. N : g[n] \in X
        BY <1>7
    <2>2. g = [n \in 0 .. N |-> IF n = 0 THEN <<>> ELSE Place(lengths, order[n], g[n - 1])]
        BY <1>5, Zenon DEF IsPlan, N, order
    <2> QED  BY <2>1, <2>2
<1>9. PlannedBy(g, lengths)
    BY <1>5, <1>6, <1>8, Zenon DEF PlannedBy, X, D, N, order
<1> QED  BY <1>9

\* Every text is in a chunk.
LEMMA PlanHasAll ==
    ASSUME NEW lengths \in Seq(Nat)
    PROVE  /\ PlanChunks(lengths) \in Seq(Seq(1 .. Len(lengths)))
           /\ \A k \in 1 .. Len(lengths) : In(PlanChunks(lengths), k)
<1> DEFINE N == Len(lengths)
           D == 1 .. N
           X == Seq(Seq(D))
           order == ShortestFirst(lengths)
<1>1. N \in Nat /\ order \in [1 .. N -> D] /\ \A k \in D : \E n \in 1 .. N : order[n] = k
    BY ShortestFirstIs
<1>2. PICK g : PlannedBy(g, lengths)
    BY Planned
<1>3. /\ g \in [0 .. N -> X] /\ PlanChunks(lengths) = g[N]
      /\ \A n \in 1 .. N : g[n] = Place(lengths, order[n], g[n - 1])
    BY <1>2 DEF PlannedBy
<1> HIDE DEF D, X, N, order
<1> DEFINE Has(n) == \A i \in 1 .. n : In(g[n], order[i])
           Bad == {n \in 0 .. N : ~Has(n)}
<1>4. Bad = {}
    <2>1. SUFFICES ASSUME Bad # {} PROVE FALSE
        OBVIOUS
    <2>2. PICK n \in Bad : \A o \in Bad : n <= o
        <3>1. Bad \subseteq Nat
            OBVIOUS
        <3> HIDE DEF Bad
        <3> QED  BY <2>1, <3>1, LeastOf
    <2>3. n # 0
        OBVIOUS
    <2>4. n \in 1 .. N /\ n - 1 \in 0 .. N
        BY <1>1, <2>3
    <2>5. Has(n - 1)
        <3>1. n - 1 \notin Bad
            <4> HIDE DEF Bad
            <4> QED  BY <2>2, <2>4
        <3> HIDE DEF Has
        <3> QED  BY <2>4, <3>1
    <2>6. order[n] \in D /\ \A i \in 1 .. (n - 1) : order[i] \in D
        BY <1>1, <2>4
    <2>7. PICK after : after = Place(lengths, order[n], g[n - 1])
        OBVIOUS
    <2>8. /\ In(after, order[n])
          /\ \A j \in D : In(g[n - 1], j) => In(after, j)
        BY <1>3, <2>4, <2>6, <2>7, PlaceIs DEF X
    <2>9. g[n] = after
        BY <1>3, <2>4, <2>7
    <2>10. \A i \in 1 .. n : In(after, order[i])
        BY <2>4, <2>5, <2>6, <2>8
    <2> QED  BY <2>9, <2>10
<1>5. \A i \in 1 .. N : In(g[N], order[i])
    <2>1. Has(N)
        <3> HIDE DEF Has
        <3> QED  BY <1>1, <1>4
    <2> QED  BY <2>1
<1>6. \A k \in D : In(g[N], k)
    BY <1>1, <1>5
<1>7. g[N] \in X
    BY <1>1, <1>3
<1> QED  BY <1>3, <1>6, <1>7 DEF X, D, N

\* The longest of a chunk.
LEMMA LongestIs ==
    ASSUME NEW lengths \in Seq(Nat), NEW chunk \in Seq(1 .. Len(lengths))
    PROVE  /\ Longest(lengths, chunk) \in Nat
           /\ \A i \in DOMAIN chunk : lengths[chunk[i]] <= Longest(lengths, chunk)
           /\ Longest(lengths, chunk) = 0
              \/ \E i \in DOMAIN chunk : lengths[chunk[i]] = Longest(lengths, chunk)
<1> DEFINE S == {lengths[k] : k \in Range(chunk)}
<1>1. /\ Len(chunk) \in Nat /\ DOMAIN chunk = 1 .. Len(chunk)
      /\ \A i \in DOMAIN chunk : chunk[i] \in DOMAIN lengths /\ lengths[chunk[i]] \in Nat
    OBVIOUS
<1>2. S = {lengths[chunk[i]] : i \in DOMAIN chunk}
    BY DEF Range
<1> HIDE DEF S
<1>3. S \subseteq Nat
    BY <1>1, <1>2
<1>4. IsFiniteSet(S)
    <2>1. PICK f : f = [i \in 1 .. Len(chunk) |-> lengths[chunk[i]]]
        OBVIOUS
    <2>2. f \in Surjection(1 .. Len(chunk), S)
        <3>1. f \in [1 .. Len(chunk) -> S]
            BY <1>1, <1>2, <2>1
        <3>2. \A s \in S : \E i \in 1 .. Len(chunk) : f[i] = s
            BY <1>1, <1>2, <2>1
        <3> QED  BY <3>1, <3>2 DEF Surjection
    <2>3. IsFiniteSet(1 .. Len(chunk))
        BY <1>1, FS_Interval
    <2> QED  BY <2>2, <2>3, FS_Surjection
<1>5. IsFiniteSet({0} \cup S) /\ {0} \cup S # {} /\ {0} \cup S \subseteq Nat
    <2>1. IsFiniteSet({0})
        BY FS_Singleton
    <2>2. IsFiniteSet({0} \cup S)
        BY <1>4, <2>1, FS_Union
    <2> QED  BY <1>3, <2>2
<1>6. PICK m : m = Max({0} \cup S)
    OBVIOUS
<1>7. m \in {0} \cup S /\ \A p \in {0} \cup S : p <= m
    BY <1>5, <1>6, LargestOf
<1>8. Longest(lengths, chunk) = m
    BY <1>6 DEF Longest, S
<1> QED  BY <1>1, <1>2, <1>3, <1>5, <1>7, <1>8

\* A chunk is no longer than a batch, and padded to its longest no larger than the
\* budget, if it is of more than one text.
Fits(lengths, chunk) ==
    /\ Len(chunk) <= InferenceBatch
    /\ Len(chunk) > 1 => Len(chunk) * Longest(lengths, chunk) <= MaxBatchTokens

\* A sequence with one more at its end.
OneMore(D, s, k, more) ==
    /\ more \in Seq(D) /\ Len(s) \in Nat /\ Len(more) = Len(s) + 1
    /\ DOMAIN s = 1 .. Len(s) /\ DOMAIN more = 1 .. (Len(s) + 1)
    /\ more[Len(s) + 1] = k
    /\ \A i \in DOMAIN s : more[i] = s[i]

LEMMA AppendIs ==
    ASSUME NEW D, NEW s \in Seq(D), NEW k \in D
    PROVE  OneMore(D, s, k, Append(s, k))
<1>1. PICK more : more = Append(s, k)
    OBVIOUS
<1>2. /\ more \in Seq(D) /\ Len(s) \in Nat
      /\ DOMAIN s = 1 .. Len(s) /\ DOMAIN more = 1 .. (Len(s) + 1)
      /\ more[Len(s) + 1] = k /\ \A i \in DOMAIN s : more[i] = s[i]
    BY <1>1
<1>3. Len(more) = Len(s) + 1
    BY <1>1
<1> QED  BY <1>1, <1>2, <1>3 DEF OneMore

LEMMA FitsWithOneMore ==
    ASSUME InferenceAssumption, NEW lengths \in Seq(Nat), NEW chunk \in Seq(1 .. Len(lengths)),
           NEW k \in 1 .. Len(lengths), ~Full(lengths, chunk, k)
    PROVE  Fits(lengths, Append(chunk, k))
<1> DEFINE D == 1 .. Len(lengths)
<1>0. chunk \in Seq(D) /\ k \in D
    OBVIOUS
<1>1. PICK more : more = Append(chunk, k)
    OBVIOUS
<1>2. /\ more \in Seq(D) /\ Len(chunk) \in Nat /\ Len(more) = Len(chunk) + 1
      /\ DOMAIN chunk = 1 .. Len(chunk) /\ DOMAIN more = 1 .. (Len(chunk) + 1)
      /\ more[Len(chunk) + 1] = k /\ \A i \in DOMAIN chunk : more[i] = chunk[i]
    <2> HIDE DEF D
    <2>1. OneMore(D, chunk, k, more)
        BY <1>0, <1>1, AppendIs
    <2> QED  BY <2>1 DEF OneMore
<1>3. lengths[k] \in Nat
    BY ONLY lengths \in Seq(Nat), k \in 1 .. Len(lengths), ElementOfSeq
<1>4. PICK long : long = Longest(lengths, chunk)
    OBVIOUS
<1>5. /\ long \in Nat /\ \A i \in DOMAIN chunk : lengths[chunk[i]] <= long
      /\ long = 0 \/ \E i \in DOMAIN chunk : lengths[chunk[i]] = long
    BY <1>4, LongestIs
<1>6. PICK longer : longer = Longest(lengths, more)
    OBVIOUS
<1>7. /\ longer \in Nat /\ \A i \in DOMAIN more : lengths[more[i]] <= longer
      /\ longer = 0 \/ \E i \in DOMAIN more : lengths[more[i]] = longer
    BY <1>2, <1>6, LongestIs
<1>8. longer = IF long >= lengths[k] THEN long ELSE lengths[k]
    <2>1. lengths[k] <= longer
        <3>1. PICK last : last = Len(chunk) + 1
            OBVIOUS
        <3>2. last \in DOMAIN more /\ more[last] = k
            BY <1>2, <3>1
        <3> QED  BY <1>7, <3>2
    <2>2. long <= longer
        <3>1. CASE long = 0
            BY <1>7, <3>1
        <3>2. ASSUME NEW i \in DOMAIN chunk, lengths[chunk[i]] = long
              PROVE  long <= longer
            <4>1. i \in DOMAIN more /\ more[i] = chunk[i]
                BY SMTT(30), <1>2
            <4> QED  BY <1>7, <3>2, <4>1
        <3> QED  BY <1>5, <3>1, <3>2
    <2>3. longer <= long \/ longer = lengths[k]
        <3>1. CASE longer = 0
            BY <1>5, <3>1
        <3>2. ASSUME NEW i \in DOMAIN more, lengths[more[i]] = longer
              PROVE  longer <= long \/ longer = lengths[k]
            <4>1. CASE i = Len(chunk) + 1
                BY <1>2, <3>2, <4>1
            <4>2. CASE i # Len(chunk) + 1
                <5>1. i \in DOMAIN chunk
                    BY SMTT(30), <1>2, <4>2
                <5> QED  BY <1>2, <1>5, <3>2, <5>1
            <4> QED  BY <4>1, <4>2
        <3> QED  BY <1>7, <3>1, <3>2
    <2> QED  BY ONLY <1>3, <1>5, <1>7, <2>1, <2>2, <2>3
<1>9. Max({long, lengths[k]}) = longer
    <2>1. PICK here : here = lengths[k]
        OBVIOUS
    <2>2. Max({long, here}) = IF long >= here THEN long ELSE here
        <3>1. long \in Int /\ here \in Int
            BY SMTT(30), <1>3, <1>5, <2>1
        <3> QED  BY ONLY <3>1, MaxOfTwo
    <2> QED  BY <1>8, <2>1, <2>2
<1>10. /\ ~(Len(chunk) >= InferenceBatch)
       /\ ~((Len(chunk) + 1) * Max({long, lengths[k]}) > MaxBatchTokens)
    BY <1>4 DEF Full
<1>11. InferenceBatch \in Nat /\ MaxBatchTokens \in Nat
    BY DEF InferenceAssumption
<1>12. Len(more) <= InferenceBatch
    BY <1>2, <1>10, <1>11
<1>13. Len(more) * longer <= MaxBatchTokens
    <2>1. ~(Len(more) * longer > MaxBatchTokens)
        BY <1>2, <1>9, <1>10
    <2>2. PICK tokens : tokens = Len(more) * longer
        OBVIOUS
    <2>3. tokens \in Nat
        BY <1>2, <1>7, <2>2
    <2> QED  BY SMTT(30), <1>11, <2>1, <2>2, <2>3
<1> QED  BY <1>1, <1>6, <1>12, <1>13 DEF Fits

\* What is true of every chunk stays true as a text is placed.
LEMMA PlaceKeeps ==
    ASSUME NEW Good, NEW lengths, NEW k, NEW chunks \in Seq(Good), <<k>> \in Good,
           \A chunk \in Good : ~Full(lengths, chunk, k) => Append(chunk, k) \in Good
    PROVE  Place(lengths, k, chunks) \in Seq(Good)
<1>1. PICK one : one = <<k>>
    OBVIOUS
<1>2. Append(chunks, one) \in Seq(Good)
    BY <1>1
<1>3. ASSUME chunks # <<>>, ~Full(lengths, Last(chunks), k)
      PROVE  Append(Front(chunks), Append(Last(chunks), k)) \in Seq(Good)
    <2>1. PICK n \in Nat : n = Len(chunks)
        OBVIOUS
    <2>2. n # 0 /\ chunks[n] \in Good
        BY <1>3, <2>1
    <2>3. PICK more : more = Append(chunks[n], k)
        OBVIOUS
    <2>4. more \in Good
        BY <1>3, <2>1, <2>2, <2>3 DEF Last
    <2>5. SubSeq(chunks, 1, n - 1) \in Seq(Good)
        BY <2>1, <2>2
    <2>6. Append(SubSeq(chunks, 1, n - 1), more) \in Seq(Good)
        BY <2>4, <2>5
    <2> QED  BY <2>1, <2>3, <2>6 DEF Front, Last
<1> QED  BY <1>1, <1>2, <1>3 DEF Place

\* No chunk of a plan is more than the server can hold, but one that is a single text:
\* "a chunk of 32 rows at the 512-token cap reached 2,091 MB and was killed".  (plan_chunks)
THEOREM ChunksFit ==
    ASSUME InferenceAssumption, NEW lengths \in Seq(Nat)
    PROVE  \A c \in DOMAIN PlanChunks(lengths) : Fits(lengths, PlanChunks(lengths)[c])
<1> DEFINE N == Len(lengths)
           D == 1 .. N
           order == ShortestFirst(lengths)
           Good == {chunk \in Seq(D) : Fits(lengths, chunk)}
<1>1. N \in Nat /\ order \in [1 .. N -> D]
    <2>1. order \in [1 .. N -> D]
        BY ShortestFirstIs
    <2> QED  BY SMTT(30), <2>1
<1>2. PICK g : PlannedBy(g, lengths)
    BY Planned
<1>3. /\ PlanChunks(lengths) = g[N] /\ g[0] = <<>>
      /\ \A n \in 1 .. N : g[n] = Place(lengths, order[n], g[n - 1])
    BY <1>2 DEF PlannedBy
<1>4. ASSUME NEW k \in D
      PROVE  /\ <<k>> \in Good
             /\ \A chunk \in Good : ~Full(lengths, chunk, k) => Append(chunk, k) \in Good
    <2>1. <<k>> \in Good
        <3>1. Len(<<k>>) = 1 /\ InferenceBatch \in Nat \ {0}
            BY DEF InferenceAssumption
        <3>2. <<k>> \in Seq(D)
            OBVIOUS
        <3> QED  BY <3>1, <3>2 DEF Fits
    <2>2. ASSUME NEW chunk \in Good, ~Full(lengths, chunk, k)
          PROVE  Append(chunk, k) \in Good
        <3>1. Fits(lengths, Append(chunk, k))
            BY <2>2, FitsWithOneMore
        <3>2. Append(chunk, k) \in Seq(D)
            <4> HIDE DEF D
            <4> QED  OBVIOUS
        <3> QED  BY <3>1, <3>2
    <2> QED  BY <2>1, <2>2
<1> HIDE DEF D, N, order, Good
<1> DEFINE Bad == {n \in 0 .. N : g[n] \notin Seq(Good)}
<1>5. Bad = {}
    <2>1. SUFFICES ASSUME Bad # {} PROVE FALSE
        OBVIOUS
    <2>2. PICK n \in Bad : \A o \in Bad : n <= o
        <3>1. Bad \subseteq Nat
            OBVIOUS
        <3> HIDE DEF Bad
        <3> QED  BY <2>1, <3>1, LeastOf
    <2>3. n # 0
        <3>1. <<>> \in Seq(Good)
            OBVIOUS
        <3> QED  BY <1>3, <3>1
    <2>4. n \in 1 .. N /\ n - 1 \in 0 .. N
        BY <1>1, <2>3
    <2>5. g[n - 1] \in Seq(Good)
        <3>1. n - 1 \notin Bad
            <4> HIDE DEF Bad
            <4> QED  BY <2>2, <2>4
        <3> QED  BY <2>4, <3>1
    <2>6. PICK k \in D : k = order[n]
        BY <1>1, <2>4
    <2>7. Place(lengths, k, g[n - 1]) \in Seq(Good)
        BY <1>4, <2>5, PlaceKeeps
    <2> QED  BY <1>3, <2>4, <2>6, <2>7
<1>6. g[N] \in Seq(Good)
    <2>1. N \in 0 .. N /\ N \notin Bad
        <3> HIDE DEF Bad
        <3> QED  BY <1>1, <1>5
    <2> QED  BY <2>1
<1>7. \A c \in DOMAIN g[N] : g[N][c] \in Good
    BY <1>6
<1> QED  BY <1>3, <1>7 DEF Good

IsFlat(g, seqs) ==
    g = [i \in 1 .. Len(seqs) |-> IF i = 1 THEN seqs[i] ELSE g[i - 1] \o seqs[i]]

LEMMA FlattenIs ==
    \A seqs : FlattenSeq(seqs) = IF Len(seqs) = 0 THEN seqs
                                 ELSE (CHOOSE g : IsFlat(g, seqs))[Len(seqs)]
BY Zenon DEF FlattenSeq, IsFlat

\* What is in a chunk is in the row that they make.
LEMMA FlatHasAll ==
    ASSUME NEW D, NEW chunks \in Seq(Seq(D))
    PROVE  /\ FlattenSeq(chunks) \in Seq(D)
           /\ \A k \in D : In(chunks, k) => \E r \in DOMAIN FlattenSeq(chunks) : FlattenSeq(chunks)[r] = k
<1> DEFINE N == Len(chunks)
           X == Seq(D)
           F == [n \in 1 .. N |-> [x \in X |-> IF n = 1 THEN chunks[n] ELSE x \o chunks[n]]]
<1>1. N \in Nat /\ DOMAIN chunks = 1 .. N /\ \A n \in 1 .. N : chunks[n] \in X
    OBVIOUS
<1>2. CASE N = 0
    <2>1. chunks = <<>> /\ FlattenSeq(chunks) = <<>>
        BY <1>2, FlattenIs
    <2>2. \A k : ~In(chunks, k)
        BY <1>1, <1>2 DEF In
    <2>3. <<>> \in Seq(D)
        OBVIOUS
    <2>4. FlattenSeq(chunks) \in Seq(D)
        BY <2>1, <2>3, Zenon
    <2> QED  BY <2>2, <2>4, Zenon
<1>3. CASE N # 0
    <2>0. \A x, y \in X : x \o y \in X
        OBVIOUS
    <2>1. F \in [1 .. N -> [X -> X]] /\ <<>> \in X
        <3>1. <<>> \in X
            OBVIOUS
        <3> HIDE DEF X, N
        <3> QED  BY <1>1, <2>0, <3>1
    <2>2. \E g : IsFlat(g, chunks)
        <3>1. PICK h \in [0 .. N -> X] : h[0] = <<>> /\ \A n \in 1 .. N : h[n] = F[n][h[n - 1]]
            <4> HIDE DEF F, X, N
            <4>1. PICK x0 : x0 = <<>>
                OBVIOUS
            <4>2. \E h : Steps(N, X, x0, F, h)
                BY <1>1, <2>1, <4>1, StepByStep
            <4> QED  BY <4>1, <4>2 DEF Steps
        <3>2. PICK g : g = [n \in 1 .. N |-> h[n]]
            OBVIOUS
        <3> HIDE DEF X, N
        <3>3. ASSUME NEW n \in 1 .. N
              PROVE  g[n] = IF n = 1 THEN chunks[n] ELSE g[n - 1] \o chunks[n]
            <4>1. n - 1 \in 0 .. N /\ (n # 1 => n - 1 \in 1 .. N)
                BY <1>1
            <4>2. h[n] = IF n = 1 THEN chunks[n] ELSE h[n - 1] \o chunks[n]
                BY <3>1, <4>1
            <4> QED  BY <3>2, <4>1, <4>2
        <3>4. g = [n \in 1 .. N |-> IF n = 1 THEN chunks[n] ELSE g[n - 1] \o chunks[n]]
            <4>1. g = [n \in 1 .. N |-> g[n]]
                BY <3>2
            <4> QED  BY <3>3, <4>1
        <3> QED  BY <3>4, Zenon DEF IsFlat, N
    <2>3. PICK g : IsFlat(g, chunks) /\ FlattenSeq(chunks) = g[N]
        BY <1>3, <2>2, FlattenIs
    <2>4. \A n \in 1 .. N : g[n] = IF n = 1 THEN chunks[n] ELSE g[n - 1] \o chunks[n]
        BY <2>3 DEF IsFlat
    <2> DEFINE Has(n) == /\ g[n] \in X
                         /\ \A c \in 1 .. n : \A i \in DOMAIN chunks[c] :
                               \E r \in DOMAIN g[n] : g[n][r] = chunks[c][i]
               Bad == {n \in 1 .. N : ~Has(n)}
    <2> HIDE DEF X, N, F
    <2>5. Bad = {}
        <3>1. SUFFICES ASSUME Bad # {} PROVE FALSE
            OBVIOUS
        <3>2. PICK n \in Bad : \A o \in Bad : n <= o
            <4>1. Bad \subseteq Nat
                OBVIOUS
            <4> HIDE DEF Bad
            <4> QED  BY <3>1, <4>1, LeastOf
        <3>3. n \in 1 .. N
            OBVIOUS
        <3>4. CASE n = 1
            BY <1>1, <2>4, <3>3, <3>4
        <3>5. CASE n # 1
            <4>1. n - 1 \in 1 .. N
                BY <1>1, <3>3, <3>5
            <4>2. Has(n - 1)
                <5>1. n - 1 \notin Bad
                    <6> HIDE DEF Bad
                    <6> QED  BY <1>1, <3>2, <3>3, <4>1
                <5> HIDE DEF Has
                <5> QED  BY <4>1, <5>1
            <4>3. PICK a, b : a = g[n - 1] /\ b = chunks[n]
                OBVIOUS
            <4>4. a \in Seq(D) /\ b \in Seq(D) /\ g[n] = a \o b
                BY <1>1, <2>4, <3>3, <3>5, <4>2, <4>3 DEF X
            <4>5. /\ a \o b \in Seq(D)
                  /\ \A r \in DOMAIN a : r \in DOMAIN (a \o b) /\ (a \o b)[r] = a[r]
                  /\ \A i \in DOMAIN b : Len(a) + i \in DOMAIN (a \o b) /\ (a \o b)[Len(a) + i] = b[i]
                BY <4>4
            <4>6. ASSUME NEW c \in 1 .. n, NEW i \in DOMAIN chunks[c]
                  PROVE  \E r \in DOMAIN g[n] : g[n][r] = chunks[c][i]
                <5>1. CASE c = n
                    BY ZenonT(30), <4>3, <4>4, <4>5, <5>1
                <5>2. CASE c # n
                    <6>1. c \in 1 .. (n - 1)
                        BY <3>3, <5>2
                    <6>2. PICK r \in DOMAIN a : a[r] = chunks[c][i]
                        BY <4>2, <4>3, <6>1
                    <6> QED  BY <4>4, <4>5, <6>2
                <5> QED  BY <5>1, <5>2
            <4>7. Has(n)
                BY <4>4, <4>5, <4>6 DEF X
            <4> QED  BY <4>7
        <3> QED  BY <3>4, <3>5
    <2>6. Has(N)
        <3> HIDE DEF Has
        <3> QED  BY <1>1, <1>3, <2>5
    <2>7. g[N] \in Seq(D)
        BY <2>6 DEF X
    <2>8. ASSUME NEW k \in D, In(chunks, k) PROVE \E r \in DOMAIN g[N] : g[N][r] = k
        <3>1. PICK c \in 1 .. N : \E i \in DOMAIN chunks[c] : chunks[c][i] = k
            BY <1>1, <2>8 DEF In
        <3> QED  BY <2>6, <3>1
    <2> QED  BY <2>3, <2>7, <2>8
<1> QED  BY <1>2, <1>3

-----------------------------------------------------------------------------
(* The readings.                                                           *)

\* The model's readings of some texts stand where the texts stood.
LEMMA RunIs ==
    ASSUME NEW lengths \in Seq(Nat)
    PROVE  /\ DOMAIN Run(lengths) = 1 .. Len(lengths)
           /\ \A k \in 1 .. Len(lengths) : Run(lengths)[k] = k
<1> DEFINE D == 1 .. Len(lengths)
<1>1. PICK chunks : chunks = PlanChunks(lengths)
    OBVIOUS
<1>2. PICK rows : rows = FlattenSeq(chunks)
    OBVIOUS
<1>3. DOMAIN lengths = D
    OBVIOUS
<1>4. Run(lengths) = [k \in D |-> rows[CHOOSE r \in DOMAIN rows : rows[r] = k]]
    BY <1>1, <1>2, <1>3 DEF Run
<1>5. \A k \in D : \E r \in DOMAIN rows : rows[r] = k
    <2>1. chunks \in Seq(Seq(D)) /\ \A k \in D : In(chunks, k)
        BY <1>1, PlanHasAll
    <2> HIDE DEF D
    <2> QED  BY <1>2, <2>1, FlatHasAll
<1>6. \A k \in D : rows[CHOOSE r \in DOMAIN rows : rows[r] = k] = k
    BY <1>5
<1> QED  BY <1>4, <1>6

\* The texts that are not blank, in the caller's order.
LEMMA WantedIs ==
    ASSUME NEW texts \in Seq(Nat), NEW K, K = {k \in DOMAIN texts : texts[k] # 0}
    PROVE  InRow(Wanted(texts), K)
<1> DEFINE R == {p \in K \X K : p[1] < p[2]}
<1>1. K \subseteq Nat /\ IsFiniteSet(K)
    <2>1. Len(texts) \in Nat /\ DOMAIN texts = 1 .. Len(texts)
        OBVIOUS
    <2>2. IsFiniteSet(1 .. Len(texts)) /\ K \subseteq 1 .. Len(texts)
        BY <2>1, FS_Interval
    <2> QED  BY <2>1, <2>2, FS_Subset
<1>2. \A k, o \in K : <<k, o>> \in R <=> k < o
    OBVIOUS
<1>3. Orders(R, K)
    <2> HIDE DEF R
    <2>1. \A k \in K : k \in Nat
        BY <1>1
    <2> QED  BY <1>2, <2>1 DEF Orders
<1>4. Wanted(texts) = RowBy(R, K)
    <2>1. \A k \in K : Preds(R, K, k) = {o \in K : o < k}
        <3> HIDE DEF R
        <3> QED  BY <1>2 DEF Preds
    <2>2. Wanted(texts)
          = [n \in 1 .. Cardinality(K) |-> CHOOSE k \in K : Cardinality({o \in K : o < k}) = n - 1]
        BY DEF Wanted, InTurn
    <2> HIDE DEF R
    <2>3. \A n : (CHOOSE k \in K : Cardinality({o \in K : o < k}) = n - 1)
               = (CHOOSE k \in K : Cardinality(Preds(R, K, k)) = n - 1)
        BY <2>1
    <2> QED  BY <2>2, <2>3 DEF RowBy
<1> HIDE DEF R
<1> QED  BY <1>1, <1>3, <1>4, RowPicked

\* Each reading is put back beside the text it is of.
LEMMA PutBackIs ==
    ASSUME NEW texts \in Seq(Nat), NEW k \in DOMAIN texts
    PROVE  PutBack(texts, Run(Sent(texts)))[k] = IF texts[k] = 0 THEN NotRead ELSE k
<1>1. PICK K : K = {j \in DOMAIN texts : texts[j] # 0}
    OBVIOUS
<1>2. PICK wanted : wanted = Wanted(texts)
    OBVIOUS
<1> DEFINE n == Cardinality(K)
<1>3. /\ n \in Nat /\ wanted \in [1 .. n -> K]
      /\ \A i, j \in 1 .. n : wanted[i] = wanted[j] => i = j
      /\ \A j \in K : \E i \in 1 .. n : wanted[i] = j
    <2>1. InRow(Wanted(texts), K)
        BY <1>1, WantedIs
    <2> QED  BY <1>2, <2>1 DEF InRow
<1> HIDE DEF n
<1>4. PICK sent : sent = Sent(texts)
    OBVIOUS
<1>5. sent \in Seq(Nat) /\ Len(sent) = n
    <2>1. sent = [r \in 1 .. n |-> texts[wanted[r]]]
        BY <1>2, <1>3, <1>4 DEF Sent
    <2>2. \A r \in 1 .. n : texts[wanted[r]] \in Nat
        BY <1>1, <1>3
    <2>3. sent \in [1 .. n -> Nat]
        BY <2>1, <2>2
    <2> QED  BY <1>3, <2>3, SeqDef
<1>6. PICK readings : readings = Run(sent)
    OBVIOUS
<1>7. DOMAIN readings = 1 .. n /\ \A r \in 1 .. n : readings[r] = r
    BY <1>5, <1>6, RunIs
<1>8. PutBack(texts, readings)[k]
      = IF texts[k] = 0 THEN NotRead
        ELSE wanted[readings[CHOOSE i \in DOMAIN readings : wanted[i] = k]]
    BY <1>2 DEF PutBack
<1>9. ASSUME texts[k] # 0
      PROVE  wanted[readings[CHOOSE i \in DOMAIN readings : wanted[i] = k]] = k
    <2>1. \E i \in DOMAIN readings : wanted[i] = k
        BY <1>1, <1>3, <1>7, <1>9
    <2>2. PICK i : i = CHOOSE j \in DOMAIN readings : wanted[j] = k
        OBVIOUS
    <2>3. i \in 1 .. n /\ wanted[i] = k
        BY <1>7, <2>1, <2>2
    <2> QED  BY <1>7, <2>2, <2>3
<1> QED  BY <1>4, <1>6, <1>8, <1>9

\* What was answered is of the texts that were asked, in their order.
AnswersAreRead ==
    /\ answer.texts \in Seq(Nat)
    /\ EachTextItsReading

LEMMA AnswersStep ==
    ASSUME InferenceAssumption, InferenceInv, AnswersAreRead, [InferenceNext]_inferenceVars
    PROVE  AnswersAreRead'
<1>1. ASSUME NEW c \in Calls, Answers(c), call[c].server # "hear"
      PROVE  AnswersAreRead'
    <2>1. PICK texts : texts = call[c].texts
        OBVIOUS
    <2>2. texts \in Seq(Nat)
        <3>1. texts \in Batches \cup {<<>>}
            BY <2>1 DEF InferenceInv, InferenceTypeOK, Requests
        <3>2. <<>> \in Seq(Nat) /\ Batches \subseteq Seq(Nat)
            BY DEF InferenceAssumption
        <3> QED  BY <3>1, <3>2
    <2>3. answer' = [texts |-> texts, readings |-> PutBack(texts, Run(Sent(texts)))]
        BY <1>1, <2>1 DEF Answers
    <2>4. \A k \in DOMAIN texts :
             PutBack(texts, Run(Sent(texts)))[k] = IF texts[k] = 0 THEN NotRead ELSE k
        BY <2>2, PutBackIs
    <2> QED  BY <2>2, <2>3, <2>4 DEF AnswersAreRead, EachTextItsReading
<1>2. CASE answer' = answer
    BY <1>2 DEF AnswersAreRead, EachTextItsReading
<1> QED  BY <1>1, <1>2
         DEF InferenceNext, Sends, Takes, Busy, Answers, CannotAnswer, MinutePasses, inferenceVars

\* A caller gets its own readings, or none, before it gives up, whatever the texts are.
\* (score, run, plan_chunks, BUSY_WAIT_SECONDS, TIMEOUT_SECONDS)
THEOREM ReadingsReachTheirCallers == InferenceSpec => []ReadingsAreTheCallers
<1>1. InferenceInit => AnswersAreRead
    BY DEF InferenceInit, NoAnswer, AnswersAreRead, EachTextItsReading
<1>2. InferenceInv /\ AnswersAreRead /\ [InferenceNext]_inferenceVars => AnswersAreRead'
    BY InferenceAssumption, AnswersStep
<1>3. AnswersAreRead /\ NothingIsAbandoned => ReadingsAreTheCallers
    BY DEF AnswersAreRead, ReadingsAreTheCallers
<1> QED  BY <1>1, <1>2, <1>3, InferenceHolds, NothingAbandoned, PTL DEF InferenceSpec

-----------------------------------------------------------------------------
(* Screen.                                                                 *)

Writing == [kind : {"price", "report"}, at : Nat]
Scores == UNION {[ids -> Int] : ids \in {S \in SUBSET Nat : IsFiniteSet(S)}}

\* A sequence, of whatever it holds.
OwnSeq(s) == s \in Seq({s[k] : k \in DOMAIN s})

\* A bar, a report and a run are stamped with a moment that has been.
RunOK(r, now) ==
    /\ r.at \in {"bars", "facts"} /\ r.alone \in BOOLEAN
    /\ r = IF r.at = "bars" THEN [at |-> "bars", asOf |-> r.asOf, started |-> r.started, alone |-> r.alone]
           ELSE [at |-> "facts", asOf |-> r.asOf, started |-> r.started, alone |-> r.alone,
                 bars |-> r.bars]
    /\ r.asOf \in Nat /\ r.asOf <= LastMoment \div Hours
    /\ r.started \in Nat /\ r.started <= now

ScoredOK(n, now, rules) ==
    /\ n.asOf \in Nat /\ n.asOf <= LastMoment \div Hours
    /\ n.started \in Nat /\ n.started <= now
    /\ n.scores \in Scores /\ n.logic \in 1 .. rules

ScreenTypeOK ==
    /\ moment \in Nat /\ logic \in {1, 2}
    /\ DOMAIN price \subseteq Nat /\ price \in [DOMAIN price -> Nat]
    /\ \A d \in DOMAIN price : price[d] <= moment
    /\ report \in Seq(Nat)
    /\ \A k \in DOMAIN report : report[k] <= moment
    /\ writing # NoWrite => writing \in Writing /\ writing.at <= moment
    /\ scoring # NoRun => RunOK(scoring, moment)
    /\ OwnSeq(night)
    /\ \A k \in DOMAIN night : ScoredOK(night[k], moment, logic)

\* While a night is scored alone nothing is written, and what there is was written
\* before it.
NightsAreAlone ==
    /\ scoring # NoRun /\ scoring.alone =>
          /\ writing = NoWrite
          /\ \A d \in DOMAIN price : price[d] <= scoring.started
          /\ \A k \in DOMAIN report : report[k] <= scoring.started
          /\ scoring.at = "facts" => scoring.bars = VisibleBars(scoring.asOf, CutoffOf(scoring.asOf))
    /\ writing # NoWrite => \A k \in DOMAIN night : night[k].alone => night[k].started < writing.at

\* A night is made of what is seen of its day still, or one of its bars was written since.
IsOf(n) ==
    \E bars, fact :
        /\ n.stored = Metrics(bars, fact)
        /\ VisibleReport(View(n)) = fact
        /\ Refreshed(n) \/ VisibleBars(n.asOf, View(n)) = bars

NightsAreOf == \A k \in DOMAIN night : night[k].alone => IsOf(night[k])

AlarmInv == ScreenTypeOK /\ NightsAreAlone /\ NightsAreOf

LEMMA MinOfTwo ==
    ASSUME NEW a \in Int, NEW b \in Int
    PROVE  Min({a, b}) = IF a <= b THEN a ELSE b
<1>1. PICK m \in {a, b} : m <= a /\ m <= b
    OBVIOUS
<1>2. Min({a, b}) = CHOOSE x \in {a, b} : \A y \in {a, b} : x <= y
    BY DEF Min
<1>3. Min({a, b}) \in {a, b} /\ \A y \in {a, b} : Min({a, b}) <= y
    BY <1>1, <1>2
<1> QED  BY <1>3

\* What a night could see began to be written no later than it started.
LEMMA ViewIs ==
    ASSUME ScreenAssumption, NEW n, n.asOf \in Nat, n.started \in Nat
    PROVE  /\ CutoffOf(n.asOf) \in Nat /\ View(n) \in Nat
           /\ View(n) = IF CutoffOf(n.asOf) <= n.started THEN CutoffOf(n.asOf) ELSE n.started
<1>1. CutoffOf(n.asOf) \in Nat
    BY DEF CutoffOf, ScreenAssumption
<1> QED  BY <1>1, MinOfTwo DEF View

\* Of things with a bounded number each, one has the highest.
LEMMA HighestOf ==
    ASSUME NEW S, NEW f, NEW b \in Nat, S # {}, \A k \in S : f[k] \in Nat /\ f[k] <= b
    PROVE  \E k \in S : \A j \in S : f[j] <= f[k]
<1> DEFINE Tops == {n \in Nat : \A k \in S : f[k] <= n}
<1>1. Tops \subseteq Nat /\ Tops # {}
    OBVIOUS
<1>2. PICK n \in Tops : \A o \in Tops : n <= o
    BY <1>1, LeastOf
<1>3. n \in Nat /\ \A k \in S : f[k] <= n
    OBVIOUS
<1>4. ASSUME \A k \in S : f[k] # n
      PROVE  FALSE
    <2>1. \A k \in S : f[k] <= n - 1 /\ n - 1 \in Nat
        BY <1>3, <1>4
    <2>2. n - 1 \in Tops
        BY <2>1
    <2> QED  BY <1>2, <1>3, <2>2
<1> QED  BY <1>3, <1>4

\* What is seen of the reports is of the moments up to one.
LEMMA ReportSeen ==
    ASSUME NEW u, NEW r, NEW s, {at \in Range(r) : at <= u} = {at \in Range(s) : at <= u}
    PROVE  (IF {at \in Range(r) : at <= u} = {} THEN <<>> ELSE <<Max({at \in Range(r) : at <= u})>>)
           = (IF {at \in Range(s) : at <= u} = {} THEN <<>> ELSE <<Max({at \in Range(s) : at <= u})>>)
OBVIOUS

\* Two moments with nothing written between them see the same.
LEMMA SameSeen ==
    ASSUME NEW asOf, NEW u, NEW v,
           \A d \in DOMAIN price : price[d] <= u <=> price[d] <= v,
           \A k \in DOMAIN report : report[k] <= u <=> report[k] <= v
    PROVE  VisibleBars(asOf, u) = VisibleBars(asOf, v) /\ VisibleReport(u) = VisibleReport(v)
<1>1. {d \in DOMAIN price : d <= asOf /\ price[d] <= u}
      = {d \in DOMAIN price : d <= asOf /\ price[d] <= v}
    OBVIOUS
<1>2. {at \in Range(report) : at <= u} = {at \in Range(report) : at <= v}
    BY DEF Range
<1>3. VisibleBars(asOf, u) = VisibleBars(asOf, v)
    BY <1>1, Zenon DEF VisibleBars
<1>4. VisibleReport(u) = VisibleReport(v)
    BY <1>2, Zenon DEF VisibleReport
<1> QED  BY <1>3, <1>4

\* The metric that no price goes into is of the report alone.
LEMMA QualityIs ==
    ASSUME NEW bars, NEW fact
    PROVE  /\ "quality" \in DOMAIN Metrics(bars, fact) <=> fact # <<>>
           /\ fact # <<>> => Metrics(bars, fact)["quality"] = <<fact>>
BY DEF Metrics, Pillars

\* A sequence is one of its own elements, and so is a longer one.
LEMMA LongerSeq ==
    ASSUME NEW s, NEW e, OwnSeq(s)
    PROVE  /\ OwnSeq(Append(s, e))
           /\ DOMAIN Append(s, e) = DOMAIN s \cup {Len(s) + 1} /\ Len(s) + 1 \notin DOMAIN s
           /\ \A k \in DOMAIN s : Append(s, e)[k] = s[k]
           /\ Append(s, e)[Len(s) + 1] = e
<1> DEFINE R == {s[k] : k \in DOMAIN s} \cup {e}
           t == Append(s, e)
<1>1. s \in Seq(R)
    <2>1. Len(s) \in Nat /\ DOMAIN s = 1 .. Len(s) /\ s \in [1 .. Len(s) -> R]
        BY DEF OwnSeq
    <2> QED  BY <2>1, SeqDef
<1>2. t \in Seq(R)
    BY <1>1
<1>3. /\ Len(t) = Len(s) + 1 /\ Len(s) \in Nat
      /\ DOMAIN s = 1 .. Len(s) /\ DOMAIN t = 1 .. (Len(s) + 1)
      /\ \A k \in DOMAIN s : t[k] = s[k]
      /\ t[Len(s) + 1] = e
    BY <1>1
<1>4. t \in [1 .. (Len(s) + 1) -> {t[k] : k \in DOMAIN t}]
    <2> HIDE DEF t, R
    <2>1. t \in [1 .. (Len(s) + 1) -> R]
        BY <1>2, <1>3
    <2>2. \A k \in 1 .. (Len(s) + 1) : t[k] \in {t[k0] : k0 \in DOMAIN t}
        BY <1>3
    <2> QED  BY <2>1, <2>2
<1>5. OwnSeq(t)
    <2> HIDE DEF t
    <2>1. Len(s) + 1 \in Nat
        BY <1>3
    <2> QED  BY <2>1, <1>4, SeqDef DEF OwnSeq
<1> QED  BY <1>3, <1>5

LEMMA AlarmInit == ASSUME ScreenAssumption, ScreenInit PROVE AlarmInv
<1>1. ScreenTypeOK
    <2>1. OwnSeq(<<>>)
        BY DEF OwnSeq
    <2>2. DOMAIN price = {} /\ price \in [DOMAIN price -> Nat]
        BY DEF ScreenInit
    <2> QED  BY <2>1, <2>2 DEF ScreenInit, ScreenTypeOK
<1>2. NightsAreAlone /\ NightsAreOf
    BY DEF ScreenInit, NightsAreAlone, NightsAreOf
<1> QED  BY <1>1, <1>2 DEF AlarmInv

LEMMA ScreenTypeStep ==
    ASSUME ScreenAssumption, ScreenTypeOK, [ScreenNext]_screenVars
    PROVE  ScreenTypeOK'
<1> USE DEF ScreenTypeOK
<1>0. ASSUME Tick
      PROVE  /\ moment' \in Nat /\ \A m \in Nat : m <= moment => m <= moment'
             /\ \A d \in DOMAIN price : price[d] <= moment'
             /\ \A k \in DOMAIN report : report[k] <= moment'
             /\ logic' = logic => \A n : ScoredOK(n, moment, logic) => ScoredOK(n, moment', logic')
             /\ \A n : RunOK(n, moment) => RunOK(n, moment')
    <2>1. /\ \A d \in DOMAIN price : price[d] \in Nat
          /\ \A k \in DOMAIN report : report[k] \in Nat
        <3>1. DOMAIN report = 1 .. Len(report) /\ \A k \in 1 .. Len(report) : report[k] \in Nat
            OBVIOUS
        <3> QED  BY <3>1
    <2>2. moment' = moment + 1
        BY <1>0 DEF Tick
    <2>3. ASSUME NEW n, ScoredOK(n, moment, logic), logic' = logic PROVE ScoredOK(n, moment', logic')
        BY <2>2, <2>3 DEF ScoredOK
    <2>4. ASSUME NEW n, RunOK(n, moment) PROVE RunOK(n, moment')
        BY <2>2, <2>4 DEF RunOK
    <2> QED  BY <2>1, <2>2, <2>3, <2>4
<1>1. ASSUME NEW kind \in {"price", "report"}, BeginWrite(kind) PROVE ScreenTypeOK'
    <2>1. writing' \in Writing /\ writing'.at <= moment'
        BY <1>1 DEF BeginWrite, Tick, Writing
    <2>2. scoring' # NoRun => RunOK(scoring', moment')
        <3>1. SUFFICES ASSUME scoring' # NoRun PROVE RunOK(scoring', moment')
            OBVIOUS
        <3>2. scoring # NoRun /\ scoring' = [scoring EXCEPT !.alone = FALSE]
            BY <1>1, <3>1 DEF BeginWrite
        <3>3. RunOK(scoring, moment')
            BY <1>0, <1>1, <3>2 DEF BeginWrite
        <3>4. PICK a, b, c, e, f :
                 /\ a = scoring.at /\ b = scoring.asOf /\ c = scoring.started /\ e = scoring.alone
                 /\ f = scoring.bars
            OBVIOUS
        <3>5. CASE a = "bars"
            <4>1. scoring = [at |-> "bars", asOf |-> b, started |-> c, alone |-> e]
                BY <3>3, <3>4, <3>5 DEF RunOK
            <4>2. scoring' = [at |-> "bars", asOf |-> b, started |-> c, alone |-> FALSE]
                BY <3>2, <4>1
            <4> QED  BY <3>3, <3>4, <4>2 DEF RunOK
        <3>6. CASE a = "facts"
            <4>1. scoring = [at |-> "facts", asOf |-> b, started |-> c, alone |-> e, bars |-> f]
                BY <3>3, <3>4, <3>6 DEF RunOK
            <4>2. scoring' = [at |-> "facts", asOf |-> b, started |-> c, alone |-> FALSE, bars |-> f]
                BY <3>2, <4>1
            <4> QED  BY <3>3, <3>4, <4>2 DEF RunOK
        <3> QED  BY <3>3, <3>4, <3>5, <3>6 DEF RunOK
    <2> QED  BY <1>0, <1>1, <2>1, <2>2 DEF BeginWrite
<1>2. ASSUME CommitWrite PROVE ScreenTypeOK'
    <2> DEFINE today == writing.at \div Hours
               again == {d \in 0 .. today : d >= today - Settling}
    <2>1. writing.at \in Nat /\ writing.at <= moment
        BY <1>2 DEF CommitWrite, Writing
    <2>2. again \subseteq Nat
        OBVIOUS
    <2>3. IF writing.kind = "report"
          THEN report' = Append(report, writing.at) /\ price' = price
          ELSE /\ price' = [d \in DOMAIN price \cup again |-> IF d \in again THEN writing.at ELSE price[d]]
               /\ report' = report
        BY <1>2 DEF CommitWrite
    <2>4. /\ moment' = moment /\ logic' = logic /\ night' = night /\ scoring' = scoring
          /\ writing' = NoWrite
        BY <1>2 DEF CommitWrite
    <2>5. /\ scoring' # NoRun => RunOK(scoring', moment')
          /\ \A k \in DOMAIN night' : ScoredOK(night'[k], moment', logic')
        BY <2>4 DEF RunOK, ScoredOK
    <2> HIDE DEF again
    <2>6. CASE writing.kind = "report"
        <3>1. report' \in Seq(Nat)
            BY SMTT(30), <2>1, <2>3, <2>6
        <3>2. \A k \in DOMAIN report' : IF k \in DOMAIN report THEN report'[k] = report[k] ELSE report'[k] = writing.at
            <4>1. report \in Seq(Nat) /\ writing.at \in Nat /\ report' = Append(report, writing.at)
                BY <2>1, <2>3, <2>6
            <4> QED  BY ONLY <4>1
        <3>3. \A k \in DOMAIN report' : report'[k] <= moment'
            BY <2>1, <2>4, <3>2
        <3> QED  BY <2>3, <2>4, <2>5, <2>6, <3>1, <3>3
    <2>7. CASE writing.kind # "report"
        <3>1. DOMAIN price' = DOMAIN price \cup again
            BY <2>3, <2>7
        <3>2. \A d \in DOMAIN price' : price'[d] \in Nat /\ price'[d] <= moment
            BY <2>1, <2>3, <2>7
        <3>3. price' \in [DOMAIN price' -> Nat]
            BY <2>3, <2>7, <3>1, <3>2
        <3> QED  BY <2>2, <2>3, <2>4, <2>5, <2>7, <3>1, <3>2, <3>3
    <2> QED  BY <2>6, <2>7
<1>3. ASSUME NEW asOf \in 0 .. LastMoment \div Hours, OpenNight(asOf) PROVE ScreenTypeOK'
    <2>1. asOf \in Nat /\ asOf <= LastMoment \div Hours
        BY DEF ScreenAssumption
    <2>2. /\ scoring' = [at |-> "bars", asOf |-> asOf, started |-> moment + 1, alone |-> writing = NoWrite]
          /\ moment' = moment + 1
        BY <1>3 DEF OpenNight, Tick
    <2>3. RunOK(scoring', moment')
        BY <2>1, <2>2 DEF RunOK
    <2>4. writing # NoWrite => writing.at \in Nat
        BY DEF Writing
    <2> QED  BY <1>0, <1>3, <2>3, <2>4 DEF OpenNight
<1>4. ASSUME ReadBars PROVE ScreenTypeOK'
    <2>1. scoring # NoRun /\ RunOK(scoring, moment)
        BY <1>4 DEF ReadBars, NoRun
    <2>2. moment' = moment /\ logic' = logic /\ night' = night
        BY <1>4 DEF ReadBars
    <2>3. scoring' # NoRun => RunOK(scoring', moment')
        <3>1. SUFFICES ASSUME scoring' # NoRun PROVE RunOK(scoring', moment')
            OBVIOUS
        <3>2. PICK bars : bars = VisibleBars(scoring.asOf, CutoffOf(scoring.asOf))
            OBVIOUS
        <3>3. scoring' = [at |-> "facts", asOf |-> scoring.asOf, started |-> scoring.started,
                          alone |-> scoring.alone, bars |-> bars]
            BY <1>4, <3>1, <3>2 DEF ReadBars
        <3> QED  BY <2>1, <2>2, <3>3 DEF RunOK
    <2>4. \A k \in DOMAIN night' : ScoredOK(night'[k], moment', logic')
        BY <2>2 DEF ScoredOK
    <2> QED  BY <1>4, <2>2, <2>3, <2>4 DEF ReadBars
<1>5. ASSUME NEW scores \in NightScores, CommitNight(scores) PROVE ScreenTypeOK'
    <2>1. PICK n : n = [asOf |-> scoring.asOf, started |-> scoring.started, logic |-> logic,
                     alone |-> scoring.alone, scores |-> scores,
                     stored |-> Metrics(scoring.bars, VisibleReport(CutoffOf(scoring.asOf)))]
        OBVIOUS
    <2>2. night' = Append(night, n) /\ scoring # NoRun /\ moment' = moment /\ logic' = logic
        BY <1>5, <2>1 DEF CommitNight, NoRun
    <2>3. scores \in Scores
        BY DEF Scores, ScreenAssumption
    <2>4. ScoredOK(n, moment', logic')
        BY <2>1, <2>2, <2>3 DEF RunOK, ScoredOK
    <2>5. \A k \in DOMAIN night' : IF k \in DOMAIN night THEN night'[k] = night[k] ELSE night'[k] = n
        BY <2>2, LongerSeq
    <2>6. OwnSeq(night')
        BY <2>2, LongerSeq
    <2>7. \A k \in DOMAIN night' : ScoredOK(night'[k], moment', logic')
        <3>1. ASSUME NEW k \in DOMAIN night PROVE ScoredOK(night[k], moment', logic')
            BY <2>2 DEF ScoredOK
        <3> QED  BY <2>4, <2>5, <3>1
    <2> QED  BY <1>5, <2>6, <2>7 DEF CommitNight
<1>6. ASSUME NightFails \/ NextPage \/ (\E sort \in Sorts : Browse(sort)) \/ UNCHANGED screenVars
      PROVE  ScreenTypeOK'
    <2>1. /\ moment' = moment /\ logic' = logic /\ night' = night /\ price' = price /\ report' = report
          /\ writing' = writing /\ (scoring' = scoring \/ scoring' = NoRun)
        BY <1>6 DEF NightFails, NextPage, Browse, screenVars
    <2>2. \A k \in DOMAIN night' : ScoredOK(night'[k], moment', logic')
        BY <2>1 DEF ScoredOK
    <2>3. scoring' # NoRun => RunOK(scoring', moment')
        BY <2>1 DEF RunOK
    <2> QED  BY <2>1, <2>2, <2>3
<1>7. ASSUME TimeGoesBy PROVE ScreenTypeOK'
    <2>1. writing # NoWrite => writing.at \in Nat
        BY DEF Writing
    <2> QED  BY <1>0, <1>7, <2>1 DEF TimeGoesBy
<1>8. ASSUME Deploy PROVE ScreenTypeOK'
    <2>1. /\ moment' = moment /\ logic = 1 /\ logic' = 2 /\ night' = night /\ price' = price
          /\ report' = report /\ writing' = writing /\ scoring' = NoRun
        BY <1>8 DEF Deploy
    <2>2. \A k \in DOMAIN night' : ScoredOK(night'[k], moment', logic')
        BY <2>1 DEF ScoredOK
    <2> QED  BY <2>1, <2>2
<1> QED  BY <1>1, <1>2, <1>3, <1>4, <1>5, <1>6, <1>7, <1>8 DEF ScreenNext

\* What is stamped is a number.
LEMMA StampsAre ==
    ASSUME ScreenTypeOK
    PROVE  /\ moment \in Nat
           /\ \A d \in DOMAIN price : price[d] \in Nat /\ price[d] <= moment
           /\ \A k \in DOMAIN report : report[k] \in Nat /\ report[k] <= moment
           /\ \A k \in DOMAIN night : night[k].started \in Nat /\ night[k].started <= moment
<1>1. DOMAIN report = 1 .. Len(report) /\ \A k \in 1 .. Len(report) : report[k] \in Nat
    BY DEF ScreenTypeOK
<1> QED  BY <1>1 DEF ScreenTypeOK, ScoredOK

LEMMA AloneStep ==
    ASSUME ScreenAssumption, ScreenTypeOK, NightsAreAlone, [ScreenNext]_screenVars
    PROVE  NightsAreAlone'
<1> USE DEF NightsAreAlone
<1>1. ASSUME NEW kind \in {"price", "report"}, BeginWrite(kind) PROVE NightsAreAlone'
    <2>1. writing'.at = moment + 1 /\ night' = night
        BY <1>1 DEF BeginWrite
    <2>2. scoring' # NoRun => ~scoring'.alone
        <3>1. SUFFICES ASSUME scoring' # NoRun PROVE ~scoring'.alone
            OBVIOUS
        <3>2. scoring # NoRun /\ scoring' = [scoring EXCEPT !.alone = FALSE]
            BY <1>1, <3>1 DEF BeginWrite
        <3>3. RunOK(scoring, moment)
            BY <3>2 DEF ScreenTypeOK
        <3> QED  BY <3>2, <3>3 DEF RunOK
    <2>3. \A k \in DOMAIN night : night[k].started < moment + 1
        BY StampsAre
    <2> QED  BY <2>1, <2>2, <2>3
<1>2. ASSUME CommitWrite PROVE NightsAreAlone'
    <2>1. writing # NoWrite /\ writing' = NoWrite /\ scoring' = scoring
        BY <1>2 DEF CommitWrite
    <2> QED  BY <2>1
<1>3. ASSUME NEW asOf \in 0 .. LastMoment \div Hours, OpenNight(asOf) PROVE NightsAreAlone'
    <2>1. /\ writing' = writing /\ price' = price /\ report' = report /\ night' = night
          /\ scoring' = [at |-> "bars", asOf |-> asOf, started |-> moment + 1, alone |-> writing = NoWrite]
        BY <1>3 DEF OpenNight
    <2>2. /\ \A d \in DOMAIN price : price[d] <= moment + 1
          /\ \A k \in DOMAIN report : report[k] <= moment + 1
        BY StampsAre
    <2> QED  BY <2>1, <2>2
<1>4. ASSUME ReadBars PROVE NightsAreAlone'
    <2> DEFINE seen == VisibleBars(scoring.asOf, CutoffOf(scoring.asOf))
    <2>1. /\ scoring # NoRun
          /\ price' = price /\ report' = report /\ writing' = writing /\ night' = night
          /\ scoring' = IF DOMAIN seen = {} THEN NoRun
                        ELSE [at |-> "facts", asOf |-> scoring.asOf, started |-> scoring.started,
                              alone |-> scoring.alone, bars |-> seen]
        BY <1>4 DEF ReadBars, NoRun
    <2>2. scoring' # NoRun => /\ scoring'.asOf = scoring.asOf /\ scoring'.started = scoring.started
                              /\ scoring'.alone = scoring.alone /\ scoring'.bars = seen
        BY <2>1
    <2>3. scoring' # NoRun => VisibleBars(scoring.asOf, CutoffOf(scoring.asOf))' = scoring'.bars
        BY <2>1, <2>2 DEF VisibleBars, CutoffOf
    <2>4. scoring' # NoRun =>
            VisibleBars(scoring.asOf, CutoffOf(scoring.asOf))' = VisibleBars(scoring.asOf, CutoffOf(scoring.asOf))
        BY <2>2, <2>3
    <2> HIDE DEF seen
    <2> QED  BY <2>1, <2>2, <2>3
<1>5. ASSUME NEW scores \in NightScores, CommitNight(scores) PROVE NightsAreAlone'
    <2>1. PICK n : n = [asOf |-> scoring.asOf, started |-> scoring.started, logic |-> logic,
                     alone |-> scoring.alone, scores |-> scores,
                     stored |-> Metrics(scoring.bars, VisibleReport(CutoffOf(scoring.asOf)))]
        OBVIOUS
    <2>2. scoring # NoRun /\ scoring' = NoRun /\ writing' = writing /\ night' = Append(night, n)
        BY <1>5, <2>1 DEF CommitNight, NoRun
    <2>3. n.alone = scoring.alone
        BY <2>1
    <2>4. \A k \in DOMAIN night' : IF k \in DOMAIN night THEN night'[k] = night[k] ELSE night'[k] = n
        BY SMTT(30), <2>2, LongerSeq DEF ScreenTypeOK
    <2> QED  BY <2>2, <2>3, <2>4
<1>6. ASSUME NightFails PROVE NightsAreAlone'
    BY <1>6 DEF NightFails
<1>7. ASSUME TimeGoesBy \/ Deploy \/ NextPage \/ (\E sort \in Sorts : Browse(sort)) \/ UNCHANGED screenVars
      PROVE  NightsAreAlone'
    <2>1. /\ price' = price /\ report' = report /\ writing' = writing
          /\ scoring' = scoring /\ night' = night
        BY <1>7 DEF TimeGoesBy, Deploy, NextPage, Browse, screenVars
    <2> QED  BY <2>1 DEF VisibleBars, CutoffOf
<1> QED  BY <1>1, <1>2, <1>3, <1>4, <1>5, <1>6, <1>7 DEF ScreenNext

\* What is written after a night started takes nothing from what it is made of.
LEMMA NightKept ==
    ASSUME ScreenAssumption, ScreenTypeOK, NightsAreAlone, CommitWrite,
           NEW k \in DOMAIN night, night[k].alone, IsOf(night[k])
    PROVE  IsOf(night[k])'
<1> DEFINE n == night[k]
           at == writing.at
           today == writing.at \div Hours
           again == {d \in 0 .. today : d >= today - Settling}
<1>1. /\ n.started \in Nat /\ n.asOf \in Nat /\ View(n) \in Nat /\ View(n) <= n.started
      /\ n.started < at /\ at \in Nat
    <2>1. n.asOf \in Nat /\ n.started \in Nat
        BY DEF ScreenTypeOK, ScoredOK
    <2>2. writing # NoWrite
        BY DEF CommitWrite
    <2>3. writing \in Writing /\ n.started < writing.at
        BY <2>2 DEF ScreenTypeOK, NightsAreAlone
    <2>4. writing.at \in Nat
        BY <2>3 DEF Writing
    <2> HIDE DEF n
    <2> QED  BY <2>1, <2>3, <2>4, ViewIs
<1>2. /\ night' = night
      /\ IF writing.kind = "report"
         THEN report' = Append(report, at) /\ price' = price
         ELSE /\ price' = [d \in DOMAIN price \cup again |-> IF d \in again THEN at ELSE price[d]]
              /\ report' = report
    BY DEF CommitWrite
<1>3. VisibleReport(View(n))' = VisibleReport(View(n)) /\ View(n)' = View(n)
    <2>1. View(n)' = View(n)
        BY <1>2 DEF View, CutoffOf
    <2>2. PICK u \in Nat : u = View(n) /\ u < at
        BY <1>1
    <2>3. CASE writing.kind = "report"
        <3>1. report \in Seq(Nat) /\ report' = Append(report, at) /\ at \in Nat
            BY <1>1, <1>2, <2>3 DEF ScreenTypeOK
        <3>2. Range(report') = Range(report) \cup {at}
            <4>1. /\ DOMAIN report' = DOMAIN report \cup {Len(report) + 1} /\ Len(report) + 1 \notin DOMAIN report
                  /\ \A j \in DOMAIN report : report'[j] = report[j]
                  /\ report'[Len(report) + 1] = at
                BY ONLY <3>1
            <4> QED  BY <4>1 DEF Range
        <3>3. {x \in Range(report') : x <= u} = {x \in Range(report) : x <= u}
            BY <1>1, <2>2, <3>2
        <3> QED  BY <2>1, <2>2, <3>3, Zenon DEF VisibleReport
    <2>4. CASE writing.kind # "report"
        BY <1>2, <2>1, <2>4 DEF VisibleReport
    <2> QED  BY <2>1, <2>3, <2>4
<1>4. PICK bars, fact :
        /\ n.stored = Metrics(bars, fact)
        /\ VisibleReport(View(n)) = fact
        /\ Refreshed(n) \/ VisibleBars(n.asOf, View(n)) = bars
    BY DEF IsOf
<1>5. \A d \in DOMAIN price : d \in DOMAIN price' /\ (price'[d] = price[d] \/ price'[d] = at)
    BY <1>2
<1>6. Refreshed(n)' \/ VisibleBars(n.asOf, View(n))' = bars
    <2>1. CASE Refreshed(n)
        <3>1. PICK d \in DOMAIN price : d <= n.asOf /\ price[d] > n.started
            BY <2>1 DEF Refreshed
        <3>2. d \in DOMAIN price' /\ price'[d] > n.started
            BY <1>1, <1>5, <3>1
        <3> QED  BY <1>2, <3>1, <3>2 DEF Refreshed
    <2>2. CASE ~Refreshed(n) /\ \E d \in DOMAIN price' : d <= n.asOf /\ price'[d] = at
        BY <1>1, <1>2, <2>2 DEF Refreshed
    <2>3. CASE ~Refreshed(n) /\ \A d \in DOMAIN price' : d <= n.asOf => price'[d] # at
        <3>1. PICK a, u : a = n.asOf /\ u = View(n)
            OBVIOUS
        <3>2. \A d \in DOMAIN price : d <= a => price'[d] = price[d]
            BY <1>5, <2>3, <3>1
        <3>3. \A d : d \in DOMAIN price /\ d <= a <=> d \in DOMAIN price' /\ d <= a
            BY <1>2, <2>3, <3>1
        <3>4. VisibleBars(a, u) = bars
            BY <1>4, <2>3, <3>1
        <3>5. VisibleBars(n.asOf, View(n))' = Restrict(price', {d \in DOMAIN price' : d <= a /\ price'[d] <= u})
            BY <1>2, <1>3, <3>1 DEF VisibleBars
        <3>6. PICK days : days = {d \in DOMAIN price : d <= a /\ price[d] <= u}
            OBVIOUS
        <3>7. {d \in DOMAIN price' : d <= a /\ price'[d] <= u} = days /\ \A d \in days : price'[d] = price[d]
            BY <3>2, <3>3, <3>6
        <3>8. VisibleBars(a, u) = [d \in days |-> price[d]]
            BY <3>6 DEF VisibleBars, Restrict
        <3>9. VisibleBars(n.asOf, View(n))' = [d \in days |-> price'[d]]
            BY <3>5, <3>7 DEF Restrict
        <3> QED  BY <3>4, <3>7, <3>8, <3>9
    <2> QED  BY <2>1, <2>2, <2>3
<1>7. Metrics(bars, fact) = n'.stored /\ VisibleReport(View(n))' = fact
    BY <1>2, <1>3, <1>4
<1> QED  BY <1>6, <1>7 DEF IsOf

\* A night is made of what its run could see, and nothing else was written meanwhile.
LEMMA NightMade ==
    ASSUME ScreenAssumption, ScreenTypeOK, NightsAreAlone, NEW scores, CommitNight(scores), scoring.alone,
           NEW n, n = [asOf |-> scoring.asOf, started |-> scoring.started, logic |-> logic,
                       alone |-> scoring.alone, scores |-> scores,
                       stored |-> Metrics(scoring.bars, VisibleReport(CutoffOf(scoring.asOf)))]
    PROVE  IsOf(n)
<1> DEFINE c == CutoffOf(scoring.asOf)
<1>1. /\ n.asOf = scoring.asOf /\ n.started = scoring.started
      /\ n.stored = Metrics(scoring.bars, VisibleReport(c))
    OBVIOUS
<1>2. scoring # NoRun /\ scoring.at = "facts"
    BY DEF CommitNight, NoRun
<1>3. n.asOf \in Nat /\ n.started \in Nat
    BY <1>1, <1>2 DEF ScreenTypeOK, RunOK
<1>4. c \in Nat /\ View(n) = (IF c <= n.started THEN c ELSE n.started)
    BY <1>1, <1>3, ViewIs
<1>5. /\ \A d \in DOMAIN price : price[d] \in Nat /\ price[d] <= n.started
      /\ \A k \in DOMAIN report : report[k] \in Nat /\ report[k] <= n.started
      /\ scoring.bars = VisibleBars(scoring.asOf, c)
    BY <1>1, <1>2, StampsAre DEF NightsAreAlone
<1> HIDE DEF c
<1>6. /\ \A d \in DOMAIN price : price[d] <= View(n) <=> price[d] <= c
      /\ \A k \in DOMAIN report : report[k] <= View(n) <=> report[k] <= c
    <2>1. PICK v, st, cc \in Nat : v = View(n) /\ st = n.started /\ cc = c /\ v = (IF cc <= st THEN cc ELSE st)
        BY <1>3, <1>4
    <2>2. \A x : x \in Nat /\ x <= st => (x <= v <=> x <= cc)
        BY ONLY <2>1
    <2>3. \A d \in DOMAIN price : price[d] <= v <=> price[d] <= cc
        BY <1>5, <2>1, <2>2
    <2>4. \A k \in DOMAIN report : report[k] <= v <=> report[k] <= cc
        BY <1>5, <2>1, <2>2
    <2> QED  BY <2>1, <2>3, <2>4
<1>7. VisibleBars(n.asOf, View(n)) = VisibleBars(n.asOf, c) /\ VisibleReport(View(n)) = VisibleReport(c)
    BY <1>6, SameSeen
<1> QED  BY <1>1, <1>5, <1>7 DEF IsOf

LEMMA NightsStep ==
    ASSUME ScreenAssumption, AlarmInv, [ScreenNext]_screenVars
    PROVE  NightsAreOf'
<1> USE DEF AlarmInv
<1>1. ASSUME NEW n, IsOf(n), price' = price, report' = report
      PROVE  IsOf(n)'
    BY <1>1 DEF IsOf, VisibleReport, VisibleBars, Refreshed, View, CutoffOf
<1>2. ASSUME price' = price, report' = report, night' = night
      PROVE  NightsAreOf'
    BY <1>1, <1>2 DEF NightsAreOf
<1>3. CASE CommitWrite
    <2>1. night' = night
        BY <1>3 DEF CommitWrite
    <2>2. ASSUME NEW k \in DOMAIN night, night[k].alone PROVE IsOf(night[k])'
        BY <1>3, <2>2, NightKept DEF NightsAreOf
    <2> QED  BY <2>1, <2>2 DEF NightsAreOf
<1>4. ASSUME NEW scores \in NightScores, CommitNight(scores) PROVE NightsAreOf'
    <2>1. PICK n : n = [asOf |-> scoring.asOf, started |-> scoring.started, logic |-> logic,
                        alone |-> scoring.alone, scores |-> scores,
                        stored |-> Metrics(scoring.bars, VisibleReport(CutoffOf(scoring.asOf)))]
        OBVIOUS
    <2>2. night' = Append(night, n) /\ price' = price /\ report' = report
        BY <1>4, <2>1 DEF CommitNight
    <2>3. n.alone => IsOf(n)
        <3>1. n.alone = scoring.alone
            BY <2>1
        <3> QED  BY <1>4, <2>1, <3>1, NightMade
    <2>4. n.alone => IsOf(n)'
        BY <2>2, <2>3 DEF IsOf, VisibleReport, VisibleBars, Refreshed, View, CutoffOf
    <2>5. \A k \in DOMAIN night' : IF k \in DOMAIN night THEN night'[k] = night[k] ELSE night'[k] = n
        BY <2>2, LongerSeq DEF ScreenTypeOK
    <2>6. ASSUME NEW k \in DOMAIN night', night'[k].alone PROVE IsOf(night[k])'
        <3>1. CASE k \in DOMAIN night
            <4>1. night'[k] = night[k] /\ IsOf(night[k])
                BY <2>5, <2>6, <3>1 DEF NightsAreOf
            <4> QED  BY <2>2, <4>1 DEF IsOf, VisibleReport, VisibleBars, Refreshed, View, CutoffOf
        <3>2. CASE k \notin DOMAIN night
            BY <2>4, <2>5, <2>6, <3>2
        <3> QED  BY <3>1, <3>2
    <2> QED  BY <2>6 DEF NightsAreOf
<1> QED  BY <1>2, <1>3, <1>4
        DEF ScreenNext, BeginWrite, OpenNight, ReadBars, NightFails, TimeGoesBy, Deploy, NextPage, Browse, screenVars

\* A metric that is made of what its night was made of is not called wrong.
LEMMA NotAlarmed ==
    ASSUME NEW n, IsOf(n), NEW pillar \in Pillars
    PROVE  Check(n, pillar) \notin {"mismatch", "unexpected"}
<1>1. PICK bars, fact :
        /\ n.stored = Metrics(bars, fact)
        /\ VisibleReport(View(n)) = fact
        /\ Refreshed(n) \/ VisibleBars(n.asOf, View(n)) = bars
    BY DEF IsOf
<1>2. Reproduce(n) = Metrics(VisibleBars(n.asOf, View(n)), fact)
    BY <1>1 DEF Reproduce
<1>3. CASE pillar # "quality" /\ Refreshed(n)
    BY <1>3 DEF Check
<1>4. CASE ~Refreshed(n)
    <2>1. Reproduce(n) = n.stored
        BY <1>1, <1>2, <1>4
    <2> QED  BY <1>4, <2>1 DEF Check
<1>5. CASE pillar = "quality" /\ Refreshed(n)
    <2> DEFINE first == Metrics(bars, fact)
               again == Metrics(VisibleBars(n.asOf, View(n)), fact)
    <2>1. /\ "quality" \in DOMAIN first <=> "quality" \in DOMAIN again
          /\ "quality" \in DOMAIN first => first["quality"] = again["quality"]
        BY QualityIs
    <2>2. n.stored = first /\ Reproduce(n) = again
        BY <1>1, <1>2
    <2> HIDE DEF first, again
    <2> QED  BY <1>5, <2>1, <2>2 DEF Check
<1> QED  BY <1>3, <1>4, <1>5

\* Nothing that ingest writes makes a metric of a night look wrong, unless it wrote
\* while the night was scored.  (view_offset, reproduce, check)
THEOREM NothingLooksWrong ==
    ASSUME ScreenAssumption
    PROVE  ScreenSpec => []NoFalseAlarm
<1>1. ScreenInit => AlarmInv
    BY AlarmInit
<1>2. AlarmInv /\ [ScreenNext]_screenVars => AlarmInv'
    BY ScreenTypeStep, AloneStep, NightsStep DEF AlarmInv
<1>3. AlarmInv => NoFalseAlarm
    BY NotAlarmed DEF AlarmInv, NightsAreOf, NoFalseAlarm
<1> QED  BY <1>1, <1>2, <1>3, PTL DEF ScreenSpec

-----------------------------------------------------------------------------
(* The pages.                                                              *)

\* Any two of some things are one before the other.
IsLinear(P, S) ==
    /\ \A s, t \in S : s # t => <<s, t>> \in P \/ <<t, s>> \in P
    /\ \A s, t, u \in S : <<s, t>> \in P /\ <<t, u>> \in P => <<s, u>> \in P

InOrder(P, S, rows) ==
    /\ rows \in [1 .. Cardinality(S) -> S]
    /\ \A i, j \in 1 .. Cardinality(S) : i < j => <<rows[i], rows[j]>> \in P

IsLast(P, S, s) == s \in S /\ \A t \in S \ {s} : <<t, s>> \in P

\* Of things in order one is behind all others.
LEMMA LastRow ==
    ASSUME NEW P, NEW S, IsFiniteSet(S), IsLinear(P, S)
    PROVE  \A T \in SUBSET S : T # {} => \E s : IsLast(P, T, s)
<1> DEFINE Bad == {n \in Nat : \E T \in SUBSET S : Cardinality(T) = n /\ T # {} /\ ~\E s : IsLast(P, T, s)}
<1>1. \A T \in SUBSET S : IsFiniteSet(T) /\ Cardinality(T) \in Nat
    BY FS_Subset, FS_CardinalityType
<1>2. SUFFICES ASSUME Bad # {} PROVE FALSE
    BY <1>1
<1>3. PICK n \in Bad : \A o \in Bad : n <= o
    BY <1>2, LeastOf
<1>4. PICK T \in SUBSET S : Cardinality(T) = n /\ T # {} /\ ~\E s : IsLast(P, T, s)
    BY <1>3
<1>5. PICK x : x \in T
    BY <1>4
<1>6. /\ IsFiniteSet(T) /\ Cardinality(T \ {x}) \in Nat
      /\ Cardinality(T \ {x}) = n - 1
    BY <1>1, <1>4, <1>5, Smaller
<1>7. T \ {x} # {}
    BY <1>4, <1>5 DEF IsLast
<1>8. PICK s : IsLast(P, T \ {x}, s)
    <2>1. n - 1 \notin Bad /\ T \ {x} \in SUBSET S
        BY <1>3
    <2> HIDE DEF Bad
    <2>2. ~(\E U \in SUBSET S : Cardinality(U) = n - 1 /\ U # {} /\ ~\E s : IsLast(P, U, s))
        BY <1>6, <2>1 DEF Bad
    <2> QED  BY <1>6, <1>7, <2>1, <2>2
<1>9. CASE <<x, s>> \in P
    BY <1>4, <1>5, <1>8, <1>9 DEF IsLast
<1>10. CASE <<s, x>> \in P
    <2>1. \A t \in T \ {x} : <<t, x>> \in P
        BY <1>5, <1>8, <1>10 DEF IsLast, IsLinear
    <2> QED  BY <1>4, <1>5, <2>1 DEF IsLast
<1> QED  BY <1>5, <1>8, <1>9, <1>10 DEF IsLast, IsLinear

\* Any finite set of things in order can be put in that order.
LEMMA OrderExists ==
    ASSUME NEW P, NEW S, IsFiniteSet(S), IsLinear(P, S)
    PROVE  \E rows : InOrder(P, S, rows)
<1> DEFINE Bad == {n \in Nat : \E T \in SUBSET S : Cardinality(T) = n /\ ~\E rows : InOrder(P, T, rows)}
<1>0. \A T \in SUBSET S : IsFiniteSet(T) /\ Cardinality(T) \in Nat
    BY FS_Subset, FS_CardinalityType
<1>1. SUFFICES ASSUME Bad # {} PROVE FALSE
    BY <1>0
<1>2. PICK n \in Bad : \A o \in Bad : n <= o
    BY <1>1, LeastOf
<1>3. PICK T \in SUBSET S : Cardinality(T) = n /\ ~\E rows : InOrder(P, T, rows)
    BY <1>2
<1>4. T # {}
    <2>1. SUFFICES ASSUME T = {} PROVE FALSE
        OBVIOUS
    <2>2. Cardinality(T) = 0
        BY <2>1, FS_EmptySet
    <2>3. InOrder(P, T, [i \in {} |-> 0])
        BY <2>2 DEF InOrder
    <2> QED  BY <1>3, <2>3
<1>5. PICK last : IsLast(P, T, last)
    BY <1>4, LastRow
<1>6. /\ IsFiniteSet(T) /\ Cardinality(T \ {last}) \in Nat
      /\ Cardinality(T \ {last}) = n - 1 /\ last \in T
    BY <1>0, <1>3, <1>5, Smaller DEF IsLast
<1>7. PICK rows : InOrder(P, T \ {last}, rows)
    <2>1. n - 1 \notin Bad /\ T \ {last} \in SUBSET S
        BY <1>2
    <2> HIDE DEF Bad
    <2>2. ~(\E U \in SUBSET S : Cardinality(U) = n - 1 /\ ~\E rows : InOrder(P, U, rows))
        BY <1>6, <2>1 DEF Bad
    <2> QED  BY <1>6, <2>1, <2>2
<1>8. PICK more : more = [i \in 1 .. n |-> IF i = n THEN last ELSE rows[i]]
    OBVIOUS
<1>9. InOrder(P, T, more)
    <2>1. /\ rows \in [1 .. (n - 1) -> T \ {last}]
          /\ \A i, j \in 1 .. (n - 1) : i < j => <<rows[i], rows[j]>> \in P
          /\ n \in Nat
        BY <1>2, <1>6, <1>7 DEF InOrder
    <2>2. more \in [1 .. n -> T]
        BY <1>6, <1>8, <2>1
    <2>3. ASSUME NEW i \in 1 .. n, NEW j \in 1 .. n, i < j
          PROVE  <<more[i], more[j]>> \in P
        <3>1. i \in 1 .. (n - 1) /\ more[i] = rows[i] /\ rows[i] \in T \ {last}
            BY <1>8, <2>1, <2>3
        <3>2. CASE j = n
            BY <1>5, <1>8, <3>1, <3>2 DEF IsLast
        <3>3. CASE j # n
            <4>1. j \in 1 .. (n - 1) /\ more[j] = rows[j]
                BY <1>8, <2>1, <2>3, <3>3
            <4> QED  BY <2>1, <2>3, <3>1, <4>1
        <3> QED  BY <3>2, <3>3
    <2> QED  BY <1>3, <2>2, <2>3 DEF InOrder
<1> QED  BY <1>3, <1>9

\* A better key first, of two that are equal the lower id, and what has none last.
Ahead(key, s, t) ==
    \/ key[s] # {} /\ key[t] = {}
    \/ key[s] # {} /\ key[t] # {} /\ \E x \in key[s], y \in key[t] : x > y \/ (x = y /\ s < t)
    \/ key[s] = {} /\ key[t] = {} /\ s < t

AllAhead(key, S) == {p \in S \X S : Ahead(key, p[1], p[2])}

LEMMA KeysOrder ==
    ASSUME NEW S, S \subseteq Nat, NEW key, \A s \in S : key[s] = {} \/ \E x \in Int : key[s] = {x}
    PROVE  IsLinear(AllAhead(key, S), S)
<1>1. ASSUME NEW s \in S, NEW t \in S, s # t
      PROVE  Ahead(key, s, t) \/ Ahead(key, t, s)
    <2>1. s \in Nat /\ t \in Nat
        OBVIOUS
    <2>2. CASE key[s] = {} \/ key[t] = {}
        BY <1>1, <2>1, <2>2 DEF Ahead
    <2>3. CASE key[s] # {} /\ key[t] # {}
        <3>1. PICK x \in Int : key[s] = {x}
            BY <2>3
        <3>2. PICK y \in Int : key[t] = {y}
            BY <2>3
        <3> QED  BY <1>1, <2>1, <3>1, <3>2 DEF Ahead
    <2> QED  BY <2>2, <2>3
<1>2. ASSUME NEW s \in S, NEW t \in S, NEW u \in S, Ahead(key, s, t), Ahead(key, t, u)
      PROVE  Ahead(key, s, u)
    <2>1. s \in Nat /\ t \in Nat /\ u \in Nat
        OBVIOUS
    <2>2. CASE key[s] = {}
        BY <1>2, <2>1, <2>2 DEF Ahead
    <2>3. CASE key[s] # {} /\ key[u] = {}
        BY <2>3 DEF Ahead
    <2>4. CASE key[s] # {} /\ key[u] # {}
        <3>1. key[t] # {}
            BY <1>2, <2>4 DEF Ahead
        <3>2. PICK x \in Int : key[s] = {x}
            BY <2>4
        <3>3. PICK y \in Int : key[t] = {y}
            BY <3>1
        <3>4. PICK z \in Int : key[u] = {z}
            BY <2>4
        <3>5. x > y \/ (x = y /\ s < t)
            BY <1>2, <3>2, <3>3 DEF Ahead
        <3>6. y > z \/ (y = z /\ t < u)
            BY <1>2, <3>3, <3>4 DEF Ahead
        <3>7. x > z \/ (x = z /\ s < u)
            BY <2>1, <3>5, <3>6
        <3> QED  BY <3>2, <3>4, <3>7 DEF Ahead
    <2> QED  BY <2>2, <2>3, <2>4
<1>3. ASSUME NEW s \in S, NEW t \in S
      PROVE  <<s, t>> \in AllAhead(key, S) <=> Ahead(key, s, t)
    BY DEF AllAhead
<1> QED  BY <1>1, <1>2, <1>3 DEF IsLinear

\* The night a change is measured from is one of those before.
LEMMA PreviousIs ==
    ASSUME ScreenAssumption, ScreenTypeOK, NEW k, PreviousRuns(k) # {}
    PROVE  \E j \in PreviousRuns(k) : \A i \in PreviousRuns(k) : night[i].asOf <= night[j].asOf
<1> DEFINE f == [j \in PreviousRuns(k) |-> night[j].asOf]
<1>1. LastMoment \div Hours \in Nat
    BY DEF ScreenAssumption
<1>2. \A j \in PreviousRuns(k) : f[j] \in Nat /\ f[j] <= LastMoment \div Hours
    BY DEF PreviousRuns, Qualifying, ScreenTypeOK, ScoredOK
<1> HIDE DEF f
<1>3. \E j \in PreviousRuns(k) : \A i \in PreviousRuns(k) : f[i] <= f[j]
    BY <1>1, <1>2, HighestOf
<1> QED  BY <1>3 DEF f

Previous(k) == CHOOSE j \in PreviousRuns(k) : \A i \in PreviousRuns(k) : night[i].asOf <= night[j].asOf

LEMMA ScoresAre ==
    ASSUME ScreenTypeOK, NEW k \in DOMAIN night
    PROVE  /\ DOMAIN night[k].scores \subseteq Nat /\ IsFiniteSet(DOMAIN night[k].scores)
           /\ \A s \in DOMAIN night[k].scores : night[k].scores[s] \in Int
<1>1. night[k].scores \in Scores
    BY DEF ScreenTypeOK, ScoredOK
<1>2. PICK f : f = night[k].scores
    OBVIOUS
<1>3. PICK S \in SUBSET Nat : IsFiniteSet(S) /\ f \in [S -> Int]
    BY <1>1, <1>2 DEF Scores
<1> QED  BY <1>2, <1>3

\* An id is sorted by one number, or has none.
LEMMA KeyIs ==
    ASSUME ScreenAssumption, ScreenTypeOK, NEW k \in DOMAIN night, NEW sort,
           NEW s \in DOMAIN night[k].scores
    PROVE  Key(k, sort, s) = {} \/ \E x \in Int : Key(k, sort, s) = {x}
<1>1. PICK v \in Int : v = night[k].scores[s]
    BY ScoresAre
<1>2. CASE sort = "score"
    BY <1>1, <1>2 DEF Key
<1>3. CASE sort # "score"
    <2>1. Key(k, sort, s) = {v - p : p \in PreviousScore(k, s)}
        BY <1>1, <1>3 DEF Key
    <2>2. PreviousScore(k, s) = {} \/ \E p \in Int : PreviousScore(k, s) = {p}
        <3>1. PreviousScore(k, s) = IF PreviousRuns(k) = {} \/ s \notin DOMAIN night[Previous(k)].scores THEN {}
                                    ELSE {night[Previous(k)].scores[s]}
            BY Zenon DEF PreviousScore, Previous
        <3>2. CASE PreviousRuns(k) # {} /\ s \in DOMAIN night[Previous(k)].scores
            <4>1. Previous(k) \in PreviousRuns(k)
                BY <3>2, PreviousIs DEF Previous
            <4>2. PICK j : j = Previous(k) /\ j \in DOMAIN night
                BY <4>1 DEF PreviousRuns, Qualifying
            <4>3. night[j].scores[s] \in Int
                BY <3>2, <4>2, ScoresAre
            <4> QED  BY <3>1, <3>2, <4>2, <4>3
        <3> QED  BY <3>1, <3>2
    <2>3. CASE PreviousScore(k, s) = {}
        BY <2>1, <2>3
    <2>4. ASSUME NEW p \in Int, PreviousScore(k, s) = {p}
          PROVE  \E x \in Int : Key(k, sort, s) = {x}
        <3>1. Key(k, sort, s) = {v - p} /\ v - p \in Int
            BY <2>1, <2>4
        <3> QED  BY <3>1
    <2> QED  BY <2>2, <2>3, <2>4
<1> QED  BY <1>2, <1>3

\* The order of a night has every id once.
LEMMA OrderIs ==
    ASSUME ScreenAssumption, ScreenTypeOK, NEW k \in DOMAIN night, NEW sort
    PROVE  \E S : Order(k, sort) \in Seq(S)
<1> DEFINE ids == DOMAIN night[k].scores
           key == [s \in ids |-> Key(k, sort, s)]
           Sorted(rows) == \A i, j \in DOMAIN rows : i < j => Before(k, sort, rows[i], rows[j])
           R == [1 .. Cardinality(ids) -> ids]
<1>1. IsFiniteSet(ids) /\ ids \subseteq Nat /\ Cardinality(ids) \in Nat
    BY ScoresAre, FS_CardinalityType
<1>2. ASSUME NEW s \in ids, NEW t \in ids PROVE Before(k, sort, s, t) <=> Ahead(key, s, t)
    BY DEF Before, Ahead
<1>3. IsLinear(AllAhead(key, ids), ids)
    <2>1. \A s \in ids : key[s] = {} \/ \E x \in Int : key[s] = {x}
        BY KeyIs
    <2> HIDE DEF key, ids
    <2> QED  BY <1>1, <2>1, KeysOrder
<1>4. Order(k, sort) = CHOOSE rows \in R : Sorted(rows)
    BY Zenon DEF Order
<1> HIDE DEF key, ids
<1>5. PICK rows : InOrder(AllAhead(key, ids), ids, rows)
    BY <1>1, <1>3, OrderExists
<1>6. rows \in R /\ Sorted(rows)
    BY <1>2, <1>5 DEF InOrder, AllAhead
<1> HIDE DEF Sorted, R
<1>7. Order(k, sort) \in R
    BY <1>4, <1>6
<1>8. Order(k, sort) \in Seq(ids)
    BY <1>1, <1>7, SeqDef DEF R
<1> QED  BY <1>8

\* What is seen of an order so far is its beginning.
Shows(rows, order) == \E m \in 0 .. Len(order) : rows = SubSeq(order, 1, m)

\* The page that comes next is what follows.
LEMMA NextRows ==
    ASSUME ScreenAssumption, NEW S, NEW order \in Seq(S), NEW rows, Shows(rows, order)
    PROVE  Shows(rows \o SubSeq(order, Len(rows) + 1, Min({Len(rows) + PageSize, Len(order)})), order)
<1>1. PICK m \in 0 .. Len(order) : rows = SubSeq(order, 1, m)
    BY DEF Shows
<1>2. m \in Nat /\ Len(order) \in Nat /\ PageSize \in Nat /\ m <= Len(order)
    BY <1>1 DEF ScreenAssumption
<1>3. Len(rows) = m
    <2>1. \A i \in 1 .. m : order[i] \in S
        BY <1>2
    <2>2. Len(SubSeq(order, 1, m)) = IF 1 <= m THEN m - 1 + 1 ELSE 0
        BY <1>2, <2>1, SubSeqProperties
    <2> QED  BY <1>1, <1>2, <2>2
<1>4. PICK n : n = Min({m + PageSize, Len(order)})
    OBVIOUS
<1>5. n = IF m + PageSize <= Len(order) THEN m + PageSize ELSE Len(order)
    <2>1. PICK a, b \in Int : a = m + PageSize /\ b = Len(order)
        BY <1>2
    <2>2. Min({a, b}) = IF a <= b THEN a ELSE b
        BY ONLY MinOfTwo
    <2> QED  BY <1>4, <2>1, <2>2
<1>6. n \in m .. Len(order) /\ n \in 0 .. Len(order)
    BY <1>2, <1>5
<1>7. SubSeq(order, 1, m) \o SubSeq(order, m + 1, n) = SubSeq(order, 1, n)
    <2>1. 1 \in 1 .. Len(order) + 1 /\ m \in 1 - 1 .. Len(order)
        BY <1>2
    <2> QED  BY <1>6, <2>1, ConcatAdjacentSubSeq
<1> QED  BY <1>1, <1>3, <1>4, <1>6, <1>7 DEF Shows

LEMMA FirstRows ==
    ASSUME ScreenAssumption, NEW S, NEW order \in Seq(S)
    PROVE  Shows(SubSeq(order, 0 + 1, Min({0 + PageSize, Len(order)})), order)
<1>1. PageSize \in Nat /\ Len(order) \in Nat
    BY DEF ScreenAssumption
<1>2. PICK n : n = Min({0 + PageSize, Len(order)})
    OBVIOUS
<1>3. n \in 0 .. Len(order)
    <2>1. PICK a, b \in Int : a = 0 + PageSize /\ b = Len(order)
        BY <1>1
    <2>2. Min({a, b}) = IF a <= b THEN a ELSE b
        BY ONLY MinOfTwo
    <2> QED  BY <1>1, <1>2, <2>1, <2>2
<1>4. SubSeq(order, 0 + 1, n) = SubSeq(order, 1, n)
    OBVIOUS
<1> QED  BY <1>2, <1>3, <1>4 DEF Shows

LEMMA ShownIsPrefix ==
    ASSUME NEW S, NEW order \in Seq(S), NEW rows, Shows(rows, order)
    PROVE  IsPrefix(rows, order)
<1>1. PICK m \in 0 .. Len(order) : rows = SubSeq(order, 1, m)
    BY DEF Shows
<1>2. \A i \in 1 .. m : order[i] \in S
    BY <1>1
<1>3. rows \in Seq(S) /\ Len(rows) = m
    <2>1. /\ SubSeq(order, 1, m) \in Seq(S)
          /\ Len(SubSeq(order, 1, m)) = IF 1 <= m THEN m - 1 + 1 ELSE 0
        BY <1>2, SubSeqProperties
    <2> QED  BY <1>1, <2>1
<1>4. SubSeq(rows, 1, Len(rows)) = rows
    BY <1>3, SubSeqFull
<1> QED  BY <1>1, <1>3, <1>4 DEF IsPrefix

\* A run that is asked for is served while it qualifies; no other is served for it.
LEMMA ServedRun ==
    ASSUME ScreenTypeOK, ScreenAssumption, NEW pinned, ResolveRun(pinned) # 0
    PROVE  /\ ResolveRun(pinned) \in DOMAIN night
           /\ pinned # 0 => ResolveRun(pinned) = pinned
<1>1. CASE pinned # 0
    BY <1>1 DEF ResolveRun, Qualifying
<1>2. CASE pinned = 0
    <2>1. Qualifying # {} /\ ResolveRun(pinned) = LatestRun
        BY <1>2 DEF ResolveRun, ServeLatest
    <2> DEFINE f == [k \in Qualifying |-> night[k].asOf]
    <2>2. LastMoment \div Hours \in Nat
        BY DEF ScreenAssumption
    <2>3. \A k \in Qualifying : f[k] \in Nat /\ f[k] <= LastMoment \div Hours
        BY DEF Qualifying, ScreenTypeOK, ScoredOK
    <2> HIDE DEF f
    <2>4. \E k \in Qualifying : \A j \in Qualifying : f[j] <= f[k]
        BY <2>1, <2>2, <2>3, HighestOf
    <2>5. \E k \in Qualifying : \A j \in Qualifying : night[j].asOf <= night[k].asOf
        BY <2>4 DEF f
    <2>6. LatestRun \in Qualifying
        BY <2>5 DEF LatestRun
    <2> QED  BY <1>2, <2>1, <2>6 DEF Qualifying
<1> QED  BY <1>1, <1>2

\* A reader has the beginning of the order of one night.
ReaderTypeOK ==
    reader # NoReader =>
        /\ reader = [run |-> reader.run, sort |-> reader.sort, of |-> reader.of, rows |-> reader.rows]
        /\ reader.run \in DOMAIN night /\ reader.sort \in Sorts
        /\ reader.of \in Nat /\ reader.of <= Len(night)
        /\ reader.run \in Qualifying /\ ~MeasuredAnew =>
              Shows(reader.rows, Order(reader.run, reader.sort))

\* A night keeps its order while the nights before it are the same.
LEMMA OrderStays ==
    ASSUME ScreenAssumption, ScreenTypeOK, NEW k \in DOMAIN night, NEW sort,
           \A j \in DOMAIN night : night'[j] = night[j],
           sort # "score" => PreviousRuns(k)' = PreviousRuns(k)
    PROVE  Order(k, sort)' = Order(k, sort)
<1> DEFINE ids == DOMAIN night[k].scores
           R == [1 .. Cardinality(ids) -> ids]
           Sorted(rows) == \A i, j \in DOMAIN rows : i < j => Before(k, sort, rows[i], rows[j])
           SortedNow(rows) == \A i, j \in DOMAIN rows : i < j => Before(k, sort, rows[i], rows[j])'
<1>1. night'[k] = night[k]
    OBVIOUS
<1>2. ASSUME NEW s, sort # "score" PROVE PreviousScore(k, s)' = PreviousScore(k, s)
    <2>1. PreviousRuns(k)' = PreviousRuns(k) /\ PreviousRuns(k) \subseteq DOMAIN night
        BY <1>2 DEF PreviousRuns, Qualifying
    <2>2. PICK p : p = PreviousRuns(k)
        OBVIOUS
    <2>3. PreviousScore(k, s) =
              (IF p = {} \/ s \notin DOMAIN night[CHOOSE j \in p : \A i \in p : night[i].asOf <= night[j].asOf].scores
               THEN {} ELSE {night[CHOOSE j \in p : \A i \in p : night[i].asOf <= night[j].asOf].scores[s]})
        BY <2>2, Zenon DEF PreviousScore
    <2>4. PreviousScore(k, s)' =
              (IF p = {} \/ s \notin DOMAIN night'[CHOOSE j \in p : \A i \in p : night'[i].asOf <= night'[j].asOf].scores
               THEN {} ELSE {night'[CHOOSE j \in p : \A i \in p : night'[i].asOf <= night'[j].asOf].scores[s]})
        BY <2>1, <2>2, Zenon DEF PreviousScore
    <2>5. \A j \in p : night'[j] = night[j]
        BY <2>1, <2>2
    <2>6. \A j : (j \in p /\ \A i \in p : night'[i].asOf <= night'[j].asOf)
                 <=> (j \in p /\ \A i \in p : night[i].asOf <= night[j].asOf)
        BY <2>5
    <2>7. (CHOOSE j \in p : \A i \in p : night'[i].asOf <= night'[j].asOf)
          = (CHOOSE j \in p : \A i \in p : night[i].asOf <= night[j].asOf)
        BY <2>6, Zenon
    <2>8. PICK c : c = CHOOSE j \in p : \A i \in p : night[i].asOf <= night[j].asOf
        OBVIOUS
    <2>9. p # {} => c \in p
        BY <2>2, <2>8, PreviousIs
    <2>10. PreviousScore(k, s) = (IF p = {} \/ s \notin DOMAIN night[c].scores THEN {} ELSE {night[c].scores[s]})
        BY <2>3, <2>8, Zenon
    <2>11. PreviousScore(k, s)' = (IF p = {} \/ s \notin DOMAIN night'[c].scores THEN {} ELSE {night'[c].scores[s]})
        BY <2>4, <2>7, <2>8, Zenon
    <2> QED  BY <2>5, <2>9, <2>10, <2>11
<1>3. ASSUME NEW s PROVE Key(k, sort, s)' = Key(k, sort, s)
    <2>1. CASE sort = "score"
        BY <1>1, <2>1 DEF Key
    <2>2. CASE sort # "score"
        <3>1. PreviousScore(k, s)' = PreviousScore(k, s)
            BY <1>2, <2>2
        <3> QED  BY <1>1, <2>2, <3>1 DEF Key
    <2> QED  BY <2>1, <2>2
<1>4. ASSUME NEW s, NEW t PROVE Before(k, sort, s, t)' <=> Before(k, sort, s, t)
    BY <1>3 DEF Before
<1>5. \A rows : SortedNow(rows) <=> Sorted(rows)
    BY <1>4
<1>6. Order(k, sort) = CHOOSE rows \in R : Sorted(rows)
    BY Zenon DEF Order
<1>7. Order(k, sort)' = CHOOSE rows \in R : SortedNow(rows)
    BY <1>1, Zenon DEF Order
<1> HIDE DEF R, Sorted, SortedNow
<1> QED  BY <1>5, <1>6, <1>7, Zenon

\* A night that is added is not one of those that a change was measured from.
LEMMA ReaderKept ==
    ASSUME ScreenAssumption, ScreenTypeOK, ReaderTypeOK, reader # NoReader, reader' = reader, logic' = logic,
           \A j \in DOMAIN night : j \in DOMAIN night' /\ night'[j] = night[j],
           \A j \in DOMAIN night' : j \in Nat /\ (j \in DOMAIN night \/ j > Len(night)),
           (reader.run \in Qualifying /\ ~MeasuredAnew)'
    PROVE  Shows(reader.rows, Order(reader.run, reader.sort))'
<1> DEFINE k == reader.run
<1>1. k \in DOMAIN night /\ reader.of \in Nat /\ reader.of <= Len(night) /\ Len(night) \in Nat
    BY DEF ReaderTypeOK, ScreenTypeOK, OwnSeq
<1>2. k \in Qualifying
    BY <1>1 DEF Qualifying
<1>3. PreviousRuns(k) \subseteq PreviousRuns(k)'
    BY <1>1 DEF PreviousRuns, Qualifying
<1>4. ~MeasuredAnew
    BY <1>3 DEF MeasuredAnew
<1>5. ASSUME reader.sort = "delta" PROVE PreviousRuns(k)' = PreviousRuns(k)
    <2>1. ASSUME NEW j \in PreviousRuns(k)' PROVE j \in PreviousRuns(k)
        <3>1. j \in DOMAIN night' /\ ~(j > reader.of) /\ night'[j].logic = logic /\ night'[j].asOf < night[k].asOf
            BY <1>1, <1>5 DEF MeasuredAnew, PreviousRuns, Qualifying
        <3>2. PICK L, o \in Nat : L = Len(night) /\ o = reader.of
            BY <1>1
        <3>3. j \in Nat
            BY <3>1, <1>1
        <3>4. j <= o
            BY <3>1, <3>2, <3>3
        <3>5. j <= L
            BY <1>1, <3>2, <3>3, <3>4
        <3>6. j \in DOMAIN night
            BY <3>1, <3>2, <3>3, <3>5
        <3> QED  BY <3>1, <3>6 DEF PreviousRuns, Qualifying
    <2> QED  BY <1>3, <2>1
<1>6. Shows(reader.rows, Order(k, reader.sort))
    BY <1>2, <1>4 DEF ReaderTypeOK
<1>7. Order(k, reader.sort)' = Order(k, reader.sort)
    <2>1. PICK sort : sort = reader.sort /\ sort \in Sorts
        BY DEF ReaderTypeOK
    <2>2. \A j \in DOMAIN night : night'[j] = night[j]
        OBVIOUS
    <2>3. sort # "score" => PreviousRuns(k)' = PreviousRuns(k)
        BY <1>5, <2>1 DEF Sorts
    <2> QED  BY <1>1, <2>1, <2>2, <2>3, OrderStays
<1> QED  BY <1>6, <1>7 DEF Shows

LEMMA ReaderStep ==
    ASSUME ScreenAssumption, ScreenTypeOK, ReaderTypeOK, [ScreenNext]_screenVars
    PROVE  ReaderTypeOK'
<1>1. ASSUME night' = night, reader' = reader, logic' = logic PROVE ReaderTypeOK'
    <2>1. SUFFICES ASSUME reader # NoReader, (reader.run \in Qualifying /\ ~MeasuredAnew)'
                   PROVE  Shows(reader.rows, Order(reader.run, reader.sort))'
        BY <1>1 DEF ReaderTypeOK
    <2>2. /\ \A j \in DOMAIN night : j \in DOMAIN night' /\ night'[j] = night[j]
          /\ \A j \in DOMAIN night' : j \in Nat /\ (j \in DOMAIN night \/ j > Len(night))
        BY <1>1 DEF ScreenTypeOK, OwnSeq
    <2> QED  BY <1>1, <2>1, <2>2, ReaderKept
<1>2. ASSUME NEW scores, CommitNight(scores) PROVE ReaderTypeOK'
    <2>1. PICK n : night' = Append(night, n)
        BY <1>2 DEF CommitNight
    <2>2. /\ \A j \in DOMAIN night : j \in DOMAIN night' /\ night'[j] = night[j]
          /\ \A j \in DOMAIN night' : j \in Nat /\ (j \in DOMAIN night \/ j > Len(night))
          /\ Len(night) \in Nat /\ Len(night') = Len(night) + 1
        BY <2>1, LongerSeq DEF ScreenTypeOK, OwnSeq
    <2>3. reader' = reader /\ logic' = logic
        BY <1>2 DEF CommitNight
    <2>4. SUFFICES ASSUME reader # NoReader, (reader.run \in Qualifying /\ ~MeasuredAnew)'
                   PROVE  Shows(reader.rows, Order(reader.run, reader.sort))'
        BY <2>2, <2>3 DEF ReaderTypeOK
    <2> QED  BY <2>2, <2>3, <2>4, ReaderKept
<1>3. ASSUME Deploy PROVE ReaderTypeOK'
    <2>1. logic = 1 /\ logic' = 2 /\ night' = night /\ reader' = reader
        BY <1>3 DEF Deploy
    <2>2. \A k \in DOMAIN night : night[k].logic = 1
        BY <2>1 DEF ScreenTypeOK, ScoredOK
    <2>3. Qualifying' = {}
        BY <2>1, <2>2 DEF Qualifying
    <2> QED  BY <2>1, <2>3 DEF ReaderTypeOK
<1>4. ASSUME NEW sort \in Sorts, Browse(sort) PROVE ReaderTypeOK'
    <2>1. PICK k : k = ResolveRun(0)
        OBVIOUS
    <2>2. k \in DOMAIN night
        BY <1>4, <2>1, ServedRun DEF Browse
    <2>3. /\ reader' = [run |-> k, sort |-> sort, of |-> Len(night), rows |-> Page(k, sort, 0)]
          /\ night' = night /\ logic' = logic
        BY <1>4, <2>1 DEF Browse
    <2>4. PICK order : order = Order(k, sort)
        OBVIOUS
    <2>5. PICK S : order \in Seq(S)
        BY <2>2, <2>4, OrderIs
    <2>6. Shows(Page(k, sort, 0), order)
        BY <2>4, <2>5, FirstRows DEF Page
    <2>7. Order(k, sort)' = order
        <3>1. PreviousRuns(k)' = PreviousRuns(k) /\ \A j \in DOMAIN night : night'[j] = night[j]
            BY <2>3 DEF PreviousRuns, Qualifying
        <3> QED  BY <2>2, <2>4, <3>1, OrderStays
    <2>8. PICK rows : rows = Page(k, sort, 0)
        OBVIOUS
    <2>9. reader'.run = k /\ reader'.sort = sort /\ reader'.of = Len(night) /\ reader'.rows = rows
        BY <2>3, <2>8
    <2>10. Shows(reader.rows, Order(reader.run, reader.sort))'
        BY <2>6, <2>7, <2>8, <2>9
    <2>11. Len(night) \in Nat
        BY DEF ScreenTypeOK, OwnSeq
    <2>12. reader' = [run |-> reader'.run, sort |-> reader'.sort, of |-> reader'.of, rows |-> reader'.rows]
        BY <2>3
    <2> QED  BY <2>2, <2>3, <2>9, <2>10, <2>11, <2>12 DEF ReaderTypeOK
<1>5. ASSUME NextPage PROVE ReaderTypeOK'
    <2>1. PICK k : k = reader.run
        OBVIOUS
    <2>2. reader # NoReader /\ k \in DOMAIN night /\ night' = night /\ logic' = logic
        BY <1>5, <2>1 DEF NextPage, ReaderTypeOK
    <2>3. CASE ResolveRun(k) = 0
        BY <1>5, <2>1, <2>3 DEF NextPage, ReaderTypeOK
    <2>4. CASE ResolveRun(k) # 0
        <3>1. k # 0
            BY <2>2 DEF ScreenTypeOK, OwnSeq
        <3>2. ResolveRun(k) = k
            BY <2>4, <3>1, ServedRun
        <3>3. PICK sort, of, rows : sort = reader.sort /\ of = reader.of /\ rows = reader.rows
            OBVIOUS
        <3>4. PICK order : order = Order(k, sort)
            OBVIOUS
        <3>5. PICK S : order \in Seq(S)
            BY <2>2, <3>4, OrderIs
        <3>6. PICK more : more = rows \o Page(k, sort, Len(rows))
            OBVIOUS
        <3>7. reader = [run |-> k, sort |-> sort, of |-> of, rows |-> rows]
            BY <2>1, <2>2, <3>3 DEF ReaderTypeOK
        <3>8. reader' = [run |-> k, sort |-> sort, of |-> of, rows |-> more]
            <4>1. reader' = [reader EXCEPT !.rows = more]
                BY <1>5, <2>1, <2>4, <3>2, <3>3, <3>6 DEF NextPage
            <4>2. [[run |-> k, sort |-> sort, of |-> of, rows |-> rows] EXCEPT !.rows = more]
                  = [run |-> k, sort |-> sort, of |-> of, rows |-> more]
                BY ONLY TRUE
            <4>3. reader' = [[run |-> k, sort |-> sort, of |-> of, rows |-> rows] EXCEPT !.rows = more]
                BY ONLY <3>7, <4>1, Zenon
            <4> QED  BY ONLY <4>2, <4>3, Zenon
        <3>9. reader'.run = k /\ reader'.sort = sort /\ reader'.of = of /\ reader'.rows = more
            BY <3>8
        <3>10. PreviousRuns(k)' = PreviousRuns(k) /\ Qualifying' = Qualifying /\ \A j \in DOMAIN night : night'[j] = night[j]
            BY <2>2 DEF PreviousRuns, Qualifying
        <3>11. MeasuredAnew' = MeasuredAnew
            BY <2>1, <3>3, <3>9, <3>10 DEF MeasuredAnew, PreviousRuns, Qualifying
        <3>12. ASSUME (reader.run \in Qualifying /\ ~MeasuredAnew)' PROVE Shows(more, order)
            <4>1. k \in Qualifying /\ ~MeasuredAnew
                BY <3>9, <3>10, <3>11, <3>12
            <4>2. Shows(rows, order)
                BY <2>1, <2>2, <3>3, <3>4, <4>1 DEF ReaderTypeOK
            <4>3. more = rows \o SubSeq(order, Len(rows) + 1, Min({Len(rows) + PageSize, Len(order)}))
                BY <3>4, <3>6 DEF Page
            <4> QED  BY <3>5, <4>2, <4>3, NextRows
        <3>13. Order(k, sort)' = order
            BY <2>2, <3>4, <3>10, OrderStays
        <3>14. (reader.run \in Qualifying /\ ~MeasuredAnew)' => Shows(reader.rows, Order(reader.run, reader.sort))'
            BY <3>9, <3>12, <3>13
        <3>15. of \in Nat /\ of <= Len(night) /\ sort \in Sorts
            BY <2>2, <3>3 DEF ReaderTypeOK
        <3>16. reader' = [run |-> reader'.run, sort |-> reader'.sort, of |-> reader'.of, rows |-> reader'.rows]
            BY <3>8
        <3> QED  BY <2>2, <3>9, <3>14, <3>15, <3>16 DEF ReaderTypeOK
    <2> QED  BY <2>3, <2>4
<1> QED  BY <1>1, <1>2, <1>3, <1>4, <1>5
         DEF ScreenNext, BeginWrite, CommitWrite, OpenNight, ReadBars, NightFails, TimeGoesBy, screenVars

PagesInv == ScreenTypeOK /\ ReaderTypeOK

\* Pages neither overlap nor skip, and are of one night, whatever is scored and
\* deployed between them; those by change, until an earlier date is scored.
\* (resolve_run, previous_run, screen_page)
THEOREM PagesNeverMix ==
    ASSUME ScreenAssumption
    PROVE  ScreenSpec => []PagesAreOneNight
<1>1. ScreenInit => PagesInv
    BY AlarmInit DEF PagesInv, AlarmInv, ReaderTypeOK, ScreenInit
<1>2. PagesInv /\ [ScreenNext]_screenVars => PagesInv'
    BY ScreenTypeStep, ReaderStep DEF PagesInv
<1>3. PagesInv => PagesAreOneNight
    <2>1. SUFFICES ASSUME PagesInv, reader # NoReader, reader.run \in Qualifying, ~MeasuredAnew
                   PROVE  IsPrefix(reader.rows, Order(reader.run, reader.sort))
        BY DEF PagesAreOneNight
    <2>2. reader.run \in DOMAIN night /\ Shows(reader.rows, Order(reader.run, reader.sort))
        BY <2>1 DEF PagesInv, ReaderTypeOK
    <2>3. PICK S : Order(reader.run, reader.sort) \in Seq(S)
        BY <2>1, <2>2, OrderIs DEF PagesInv
    <2> QED  BY <2>2, <2>3, ShownIsPrefix
<1> QED  BY <1>1, <1>2, <1>3, PTL DEF ScreenSpec

\* What a reader is shown of a night is that night.  (screen_page, reproduce)
THEOREM ShownIsTrue ==
    ASSUME ScreenAssumption
    PROVE  ScreenSpec => []ScreenIsTrue
<1>1. NoFalseAlarm /\ PagesAreOneNight => ScreenIsTrue
    BY DEF ScreenIsTrue
<1> QED  BY <1>1, NothingLooksWrong, PagesNeverMix, PTL

-----------------------------------------------------------------------------
(* What the panel says (Panel).                                            *)

\* A mention, and the instants it may have.
IsMention(d, t) ==
    /\ d.state \in {"undecided", "resolved", "none", "crowded"}
    /\ d.said \in Nat /\ d.said <= t
    /\ d.observed \in Nat /\ d.observed <= t /\ d.cost \in Nat
    /\ d.reading \in Readings \cup {Unread}

PanelTypes ==
    /\ panelNow \in Nat
    /\ DOMAIN decision = Mentions
    /\ \A m \in Mentions : IsMention(decision[m], panelNow)

LEMMA PanelTyped == PanelTypes /\ [PanelNext]_panelVars => PanelTypes'
<1> SUFFICES ASSUME PanelTypes, [PanelNext]_panelVars PROVE PanelTypes'
    OBVIOUS
<1>1. ASSUME NEW m \in Mentions, NEW state \in {"resolved", "none", "crowded"}, NEW c \in Companies,
             NEW said \in SaidInstants, NEW reading \in Readings \cup {Unread},
             Decides(m, state, c, said, reading)
      PROVE  PanelTypes'
    <2>1. said \in Nat /\ said <= panelNow /\ panelNow' = panelNow /\ panelNow \in Nat
        BY <1>1, PanelAssumption DEF Decides, PanelTypes
    <2>2. PICK d : /\ d = [state |-> state, company |-> IF state = "resolved" THEN c ELSE "none",
                           said |-> said, observed |-> panelNow,
                           cost |-> IF state = "crowded" THEN 0 ELSE 1,
                           reading |-> IF state = "resolved" THEN reading ELSE Unread]
        OBVIOUS
    <2>3. decision' = [decision EXCEPT ![m] = d]
        BY <1>1, <2>2, Zenon DEF Decides
    <2>4. IsMention(d, panelNow)
        BY <2>1, <2>2 DEF IsMention
    <2> QED  BY <2>1, <2>3, <2>4 DEF PanelTypes
<1>2. CASE PanelTimePasses
    <2>1. panelNow' = panelNow + 1 /\ decision' = decision /\ panelNow \in Nat
        BY <1>2 DEF PanelTimePasses, PanelTypes
    <2>2. ASSUME NEW m \in Mentions PROVE IsMention(decision[m], panelNow + 1)
        BY <2>1 DEF PanelTypes, IsMention
    <2> QED  BY <2>1, <2>2 DEF PanelTypes
<1>3. CASE UNCHANGED panelVars
    BY <1>3 DEF panelVars, PanelTypes
<1> QED  BY <1>1, <1>2, <1>3 DEF PanelNext

LEMMA PanelTypedFirst == PanelInit => PanelTypes
BY DEF PanelInit, PanelTypes, IsMention, Undecided, Unread

LEMMA CostsAre ==
    ASSUME PanelTypes
    PROVE  \A m \in Mentions : Costs[m] \in Nat
BY DEF PanelTypes, Costs, IsMention

\* A day holds its instants, and the next begins after them.
LEMMA DayHolds ==
    ASSUME NEW t \in Nat
    PROVE  /\ DayOf(t) \in Nat /\ DayOf(t) * DayParts <= t
           /\ t < (DayOf(t) + 1) * DayParts
<1>1. DayParts \in Nat /\ DayParts > 0
    BY PanelAssumption
<1>2. PICK q : q = t \div DayParts
    OBVIOUS
<1>3. q \in Int /\ t < DayParts * (q + 1) /\ DayParts * q <= t
    BY <1>1, <1>2
<1>4. q >= 0
    <2>1. SUFFICES ASSUME q <= -1 PROVE FALSE
        BY <1>3
    <2>2. PICK k \in Int : k = DayParts * (q + 1)
        BY <1>1, <1>3
    <2>3. k <= 0
        BY <1>1, <1>3, <2>1, <2>2
    <2> QED  BY <1>3, <2>2, <2>3
<1> QED  BY <1>1, <1>2, <1>3, <1>4 DEF DayOf

LEMMA TimesMonotone ==
    ASSUME NEW a \in Int, NEW b \in Int, NEW p \in Nat, a <= b
    PROVE  a * p <= b * p
OBVIOUS

\* To be of a day or a later one is to be no earlier than it begins.
LEMMA SinceADay ==
    ASSUME NEW t \in Nat, NEW d \in Int
    PROVE  t >= d * DayParts <=> DayOf(t) >= d
<1>1. DayParts \in Nat /\ DayParts > 0
    BY PanelAssumption
<1>2. PICK q \in Nat : q = DayOf(t) /\ q * DayParts <= t /\ t < (q + 1) * DayParts
    BY DayHolds
<1>3. CASE q >= d
    <2>1. d * DayParts <= q * DayParts
        BY <1>1, <1>3, TimesMonotone
    <2>2. d * DayParts \in Int /\ q * DayParts \in Int
        BY <1>1
    <2> QED  BY <1>2, <1>3, <2>1, <2>2
<1>4. CASE q < d
    <2>1. (q + 1) * DayParts <= d * DayParts
        BY <1>1, <1>4, TimesMonotone
    <2>2. d * DayParts \in Int /\ (q + 1) * DayParts \in Int
        BY <1>1
    <2> QED  BY <1>2, <1>4, <2>1, <2>2
<1> QED  BY <1>2, <1>3, <1>4

\* What goes back n days from now begins in the day n before this one.
LEMMA WindowOfDays ==
    ASSUME NEW now \in Nat, NEW t \in Nat, t <= now, NEW n \in Nat
    PROVE  /\ DayOf(t) <= DayOf(now)
           /\ t >= now - n * DayParts => DayOf(t) >= DayOf(now) - n
           /\ DayOf(t) >= DayOf(now) - n + 1 => t >= now - n * DayParts
<1>1. DayParts \in Nat /\ DayParts > 0
    BY PanelAssumption
<1>2. PICK d \in Nat : d = DayOf(now) /\ d * DayParts <= now /\ now < (d + 1) * DayParts
    BY DayHolds
<1>3. PICK k \in Nat : k = n * DayParts
    BY <1>1
<1>4. PICK w \in Nat : w = d * DayParts
    BY <1>1
<1>5. (d + 1) * DayParts = w + DayParts /\ (d - n) * DayParts = w - k
      /\ (d - n + 1) * DayParts = w - k + DayParts
    BY <1>1, <1>3, <1>4
<1>6. /\ t >= (d - n) * DayParts <=> DayOf(t) >= d - n
      /\ t >= (d - n + 1) * DayParts <=> DayOf(t) >= d - n + 1
      /\ t >= (d + 1) * DayParts <=> DayOf(t) >= d + 1
    <2>1. d - n \in Int /\ d - n + 1 \in Int /\ d + 1 \in Int
        OBVIOUS
    <2> QED  BY <2>1, SinceADay
<1>7. DayOf(t) \in Nat
    BY DayHolds
<1>8. DayOf(t) <= d
    BY <1>1, <1>2, <1>4, <1>5, <1>6, <1>7
<1>9. t >= now - n * DayParts => DayOf(t) >= d - n
    BY <1>1, <1>2, <1>3, <1>4, <1>5, <1>6
<1>10. DayOf(t) >= d - n + 1 => t >= now - n * DayParts
    BY <1>1, <1>2, <1>3, <1>4, <1>5, <1>6
<1> QED  BY <1>2, <1>8, <1>9, <1>10

\* The window is the chart's days, and the end of the day before them.
InWindow(window, days, late) == window = days \cup late /\ days \cap late = {}

LEMMA CostsOfBoth ==
    ASSUME PanelTypes, NEW U, NEW V, U \subseteq Mentions, V \subseteq Mentions, U \cap V = {}
    PROVE  CostOf(U \cup V) = CostOf(U) + CostOf(V)
<1>1. IsFiniteSet(U) /\ IsFiniteSet(V)
    BY PanelAssumption, FS_Subset
<1>2. \A m \in U \cup V : Costs[m] \in Nat
    BY CostsAre
<1>3. SumsJoin(Costs, U, V)
    BY <1>1, <1>2, SumJoin
<1> QED  BY <1>3, Zenon DEF SumsJoin, CostOf, SumOf

LEMMA ChartDays ==
    ASSUME PanelTypes
    PROVE  InWindow(ObservedSince(Ago(ActivityDays)),
                    UNION {ObservedOn(Today - ActivityDays + k) : k \in 1 .. ActivityDays}, LateObserved)
<1> DEFINE U == UNION {ObservedOn(Today - ActivityDays + k) : k \in 1 .. ActivityDays}
<1>1. ActivityDays \in Nat /\ ActivityDays > 0 /\ panelNow \in Nat
    BY PanelAssumption DEF PanelTypes
<1>2. Today \in Nat
    BY <1>1, DayHolds DEF Today
<1>3. ASSUME NEW m \in Made
      PROVE  /\ decision[m].observed \in Nat /\ decision[m].observed <= panelNow
             /\ DayOf(decision[m].observed) \in Nat
    BY DayHolds DEF PanelTypes, IsMention, Made
<1>4. ASSUME NEW m \in Made
      PROVE  m \in U <=> DayOf(decision[m].observed) \in Today - ActivityDays + 1 .. Today
    <2>1. PICK d \in Nat : d = DayOf(decision[m].observed)
        BY <1>3
    <2>2. ASSUME NEW k \in 1 .. ActivityDays, m \in ObservedOn(Today - ActivityDays + k)
          PROVE  d \in Today - ActivityDays + 1 .. Today
        BY <1>1, <1>2, <2>1, <2>2 DEF ObservedOn
    <2>3. ASSUME d \in Today - ActivityDays + 1 .. Today PROVE m \in U
        <3>1. PICK k \in Int : k = d - Today + ActivityDays
            BY <1>1, <1>2
        <3>2. k \in 1 .. ActivityDays /\ Today - ActivityDays + k = d
            BY <1>1, <1>2, <2>3, <3>1
        <3> QED  BY <2>1, <3>2 DEF ObservedOn
    <2> QED  BY <2>1, <2>2, <2>3
<1>5. U \subseteq Made /\ LateObserved \subseteq Made /\ ObservedSince(Ago(ActivityDays)) \subseteq Made
    BY DEF ObservedOn, ObservedSince, LateObserved
<1> HIDE DEF U
<1>6. ASSUME NEW m \in Made
      PROVE  /\ m \in ObservedSince(Ago(ActivityDays)) <=> m \in U \/ m \in LateObserved
             /\ ~(m \in U /\ m \in LateObserved)
    <2>1. PICK t \in Nat : t = decision[m].observed /\ t <= panelNow
        BY <1>3
    <2>2. /\ DayOf(t) <= Today
          /\ t >= Ago(ActivityDays) => DayOf(t) >= Today - ActivityDays
          /\ DayOf(t) >= Today - ActivityDays + 1 => t >= Ago(ActivityDays)
        BY <1>1, <2>1, WindowOfDays DEF Today, Ago
    <2>3. m \in ObservedSince(Ago(ActivityDays)) <=> t >= Ago(ActivityDays)
        BY <2>1 DEF ObservedSince
    <2>4. m \in LateObserved <=> DayOf(t) = Today - ActivityDays /\ t >= Ago(ActivityDays)
        BY <2>1 DEF LateObserved, ObservedOn
    <2>5. DayOf(t) \in Nat
        BY <1>3, <2>1
    <2> QED  BY <1>1, <1>2, <1>4, <2>1, <2>2, <2>3, <2>4, <2>5
<1> QED  BY <1>5, <1>6 DEF InWindow, U

\* The chart adds up to the cost of its days.
LEMMA ChartAddsUp ==
    ASSUME PanelTypes
    PROVE  LET bars == [k \in 1 .. ActivityDays |-> PanelDaily[k].cost]
           IN  PanelSpend.costWindow
                  = MapThenSumSet(LAMBDA k : bars[k], 1 .. ActivityDays) + CostOf(LateObserved)
<1> DEFINE part == [k \in 1 .. ActivityDays |-> ObservedOn(Today - ActivityDays + k)]
           bars == [k \in 1 .. ActivityDays |-> PanelDaily[k].cost]
           U == UNION {ObservedOn(Today - ActivityDays + k) : k \in 1 .. ActivityDays}
<1>1. ActivityDays \in Nat /\ panelNow \in Nat /\ Today \in Nat
    BY PanelAssumption, DayHolds DEF PanelTypes, Today
<1>2. SumsOfParts(Costs, part, ActivityDays)
    <2>1. \A k \in 1 .. ActivityDays : part[k] \subseteq Mentions
        BY DEF ObservedOn, Made
    <2>2. ASSUME NEW j \in 1 .. ActivityDays, NEW k \in 1 .. ActivityDays, j # k
          PROVE  part[j] \cap part[k] = {}
        BY <1>1, <2>2 DEF ObservedOn
    <2>3. \A m \in Mentions : Costs[m] \in Nat
        BY CostsAre
    <2>4. IsFiniteSet(Mentions)
        BY PanelAssumption
    <2> HIDE DEF part
    <2> QED  BY <1>1, <2>1, <2>2, <2>3, <2>4, SumOfParts
<1>3. U = UNION {part[k] : k \in 1 .. ActivityDays}
    OBVIOUS
<1>4. \A k \in 1 .. ActivityDays : PanelDaily[k].cost = SumOf(Costs, part[k])
    BY DEF PanelDaily, CostOf, SumOf
<1>5. bars = [k \in 1 .. ActivityDays |-> SumOf(Costs, part[k])]
    <2> HIDE DEF part
    <2> QED  BY <1>4
<1>6. CostOf(U) = SumOf(Costs, UNION {part[k] : k \in 1 .. ActivityDays})
    <2> HIDE DEF part, U
    <2> QED  BY <1>3, Zenon DEF CostOf, SumOf
<1>7. SumOf(bars, 1 .. ActivityDays) = CostOf(U)
    <2> HIDE DEF part, bars, U
    <2> QED  BY <1>2, <1>5, <1>6, Zenon DEF SumsOfParts
<1>8. PanelSpend.costWindow = CostOf(ObservedSince(Ago(ActivityDays)))
    BY Zenon DEF PanelSpend
<1>9. InWindow(ObservedSince(Ago(ActivityDays)), U, LateObserved)
    BY ChartDays, Zenon
<1>10. U \subseteq Mentions /\ LateObserved \subseteq Mentions
    BY DEF ObservedOn, LateObserved, Made
<1> HIDE DEF part, bars, U
<1>11. CostOf(U \cup LateObserved) = CostOf(U) + CostOf(LateObserved)
    BY <1>9, <1>10, CostsOfBoth DEF InWindow
<1>12. PanelSpend.costWindow = SumOf(bars, 1 .. ActivityDays) + CostOf(LateObserved)
    <2>1. PanelSpend.costWindow = CostOf(U \cup LateObserved)
        BY <1>8, <1>9, Zenon DEF InWindow
    <2> QED  BY <1>7, <1>11, <2>1, Zenon
<1> QED  BY <1>12, Zenon DEF SumOf, bars

\* What is decided is resolved, nobody's or crowded out.
LEMMA CountsAddUp ==
    ASSUME PanelTypes
    PROVE  PanelCounts("resolved") + PanelCounts("none") = PanelSpend.decisions
<1> DEFINE R == {m \in Made : decision[m].state = "resolved"}
           N == {m \in Made : decision[m].state = "none"}
<1>1. Paying(Made) = R \cup N /\ R \cap N = {}
    BY DEF Paying, Made, PanelTypes, IsMention
<1>2. IsFiniteSet(R) /\ IsFiniteSet(N)
    <2>1. R \subseteq Mentions /\ N \subseteq Mentions /\ IsFiniteSet(Mentions)
        BY PanelAssumption DEF Made
    <2> QED  BY <2>1, FS_Subset
<1>3. PanelSpend.decisions = Cardinality(Paying(Made))
    BY DEF PanelSpend
<1>4. PanelCounts("resolved") = Cardinality(R) /\ PanelCounts("none") = Cardinality(N)
    BY DEF PanelCounts
<1> HIDE DEF R, N
<1>5. Cardinality(R \cup N) = Cardinality(R) + Cardinality(N)
    <2>1. Cardinality(R) \in Nat /\ Cardinality(N) \in Nat
        BY <1>2, FS_CardinalityType
    <2>2. Cardinality(R \cap N) = 0
        BY <1>1, FS_EmptySet
    <2>3. Cardinality(R \cup N) = Cardinality(R) + Cardinality(N) - Cardinality(R \cap N)
        BY <1>2, FS_Union
    <2> QED  BY <2>1, <2>2, <2>3
<1> QED  BY <1>1, <1>3, <1>4, <1>5

\* A company with a tone has enough said of it.
LEMMA TonesAreScoreable ==
    Covered.scoreable >= Cardinality({c \in Companies : Standing(c).mood.of > 0})
<1> DEFINE n(c) == Cardinality(Said(c, LeaderboardDays))
           Scoreable == {c \in Companies : n(c) >= ToneFloor}
           Toned == {c \in Companies : Standing(c).mood.of > 0}
<1>1. ASSUME NEW c \in Companies, Standing(c).mood.of > 0 PROVE n(c) >= ToneFloor
    <2>1. PICK about : about = Said(c, LeaderboardDays)
        OBVIOUS
    <2>2. about \subseteq Mentions /\ ReadOf(about) \subseteq about
        BY <2>1 DEF Said, Resolved, ReadOf
    <2>3. IsFiniteSet(about)
        BY <2>2, PanelAssumption, FS_Subset
    <2>4. /\ Cardinality(ReadOf(about)) \in Nat /\ Cardinality(about) \in Nat
          /\ Cardinality(ReadOf(about)) <= Cardinality(about)
        BY <2>2, <2>3, FS_Subset, FS_CardinalityType
    <2>5. PICK now : now = [m \in Mentions |-> decision[m].reading]
        OBVIOUS
    <2>6. Standing(c).mood = Mood(now, ReadOf(about))
        BY <2>1, <2>5 DEF Standing
    <2>7. ~(Cardinality(ReadOf(about)) < ToneFloor)
        <3>1. SUFFICES ASSUME Cardinality(ReadOf(about)) < ToneFloor PROVE FALSE
            OBVIOUS
        <3>2. Mood(now, ReadOf(about)) = [tone |-> 0, of |-> 0]
            BY <3>1, Zenon DEF Mood
        <3> QED  BY <1>1, <2>6, <3>2
    <2>8. ToneFloor \in Nat
        BY PanelAssumption
    <2> QED  BY <2>1, <2>4, <2>7, <2>8
<1>2. Toned \subseteq Scoreable
    BY <1>1
<1>3. Covered.scoreable = Cardinality(Scoreable)
    BY DEF Covered
<1>4. IsFiniteSet(Scoreable)
    BY PanelAssumption, FS_Subset
<1> HIDE DEF Toned, Scoreable
<1>5. Cardinality(Toned) <= Cardinality(Scoreable) /\ IsFiniteSet(Toned)
    BY <1>2, <1>4, FS_Subset
<1>6. Cardinality(Toned) \in Nat /\ Cardinality(Scoreable) \in Nat
    BY <1>4, <1>5, FS_CardinalityType
<1> QED  BY <1>3, <1>5, <1>6 DEF Toned

\* A company's line on the board is its last point, and the end of the day before.
LEMMA BoardIsTheLastPoint ==
    ASSUME PanelTypes, LeaderboardDays = RollingDays, NEW c
    PROVE  /\ Standing(c).mentions = ScoredOn(c, Today).mentions + Cardinality(LateSaid(c))
           /\ ReadOf(LateSaid(c)) = {} => Standing(c).mood = ScoredOn(c, Today).tone
<1> DEFINE about == Said(c, LeaderboardDays)
           window == {m \in Resolved : decision[m].company = c
                          /\ DayOf(decision[m].said) \in Today - RollingDays + 1 .. Today}
           late == LateSaid(c)
<1>1. RollingDays \in Nat /\ panelNow \in Nat /\ Today \in Nat
    BY PanelAssumption, DayHolds DEF PanelTypes, Today
<1>2. ASSUME NEW m \in Resolved
      PROVE  /\ m \in about <=> m \in window \/ m \in late
             /\ ~(m \in window /\ m \in late)
    <2>1. PICK t \in Nat : t = decision[m].said /\ t <= panelNow
        BY DEF PanelTypes, IsMention, Resolved
    <2>2. /\ DayOf(t) <= Today
          /\ t >= Ago(RollingDays) => DayOf(t) >= Today - RollingDays
          /\ DayOf(t) >= Today - RollingDays + 1 => t >= Ago(RollingDays)
        BY <1>1, <2>1, WindowOfDays DEF Today, Ago
    <2>3. m \in about <=> decision[m].company = c /\ t >= Ago(RollingDays)
        BY <2>1 DEF Said
    <2>4. m \in late <=> m \in about /\ DayOf(t) = Today - RollingDays
        BY <2>1 DEF LateSaid
    <2>5. m \in window <=> decision[m].company = c /\ DayOf(t) \in Today - RollingDays + 1 .. Today
        BY <2>1
    <2>6. DayOf(t) \in Nat
        BY DayHolds
    <2> HIDE DEF about, late, window
    <2> QED  BY <1>1, <2>1, <2>2, <2>3, <2>4, <2>5, <2>6
<1>3. about \subseteq Resolved /\ window \subseteq Resolved /\ late \subseteq Resolved
    BY DEF Said, LateSaid
<1>4. /\ Standing(c).mentions = Cardinality(about)
      /\ Standing(c).mood = Mood([m \in Mentions |-> decision[m].reading], ReadOf(about))
    BY DEF Standing
<1>5. /\ ScoredOn(c, Today).mentions = Cardinality(window)
      /\ ScoredOn(c, Today).tone = Mood([m \in Mentions |-> decision[m].reading], ReadOf(window))
    BY DEF ScoredOn
<1> HIDE DEF about, window, late
<1>6. about = window \cup late /\ window \cap late = {}
    BY <1>2, <1>3
<1>7. Cardinality(about) = Cardinality(window) + Cardinality(late)
    <2>1. window \subseteq Mentions /\ late \subseteq Mentions
        BY <1>3 DEF Resolved
    <2>2. IsFiniteSet(window) /\ IsFiniteSet(late)
        BY <2>1, PanelAssumption, FS_Subset
    <2>3. Cardinality(window) \in Nat /\ Cardinality(late) \in Nat
        BY <2>2, FS_CardinalityType
    <2>4. Cardinality(window \cap late) = 0
        BY <1>6, FS_EmptySet
    <2>5. Cardinality(window \cup late) = Cardinality(window) + Cardinality(late) - Cardinality(window \cap late)
        BY <2>2, FS_Union
    <2> QED  BY <1>6, <2>3, <2>4, <2>5
<1>8. ReadOf(late) = {} => ReadOf(about) = ReadOf(window)
    BY <1>6 DEF ReadOf
<1> QED  BY <1>4, <1>5, <1>7, <1>8 DEF late

\* What stops a pass is what has been decided since the day began.
LEMMA TodayIsTheLastBar ==
    ASSUME PanelTypes
    PROVE  ObservedSince(Today * DayParts) = ObservedOn(Today)
<1>1. ASSUME NEW m \in Made
      PROVE  decision[m].observed >= Today * DayParts <=> DayOf(decision[m].observed) = Today
    <2>1. PICK t \in Nat : t = decision[m].observed /\ t <= panelNow
        BY DEF PanelTypes, IsMention, Made
    <2>2. panelNow \in Nat /\ Today \in Nat /\ DayOf(t) \in Nat
        BY DayHolds DEF PanelTypes, Today
    <2>3. DayOf(t) <= Today
        BY <2>1, <2>2, WindowOfDays DEF Today
    <2>4. t >= Today * DayParts <=> DayOf(t) >= Today
        BY <2>2, SinceADay
    <2> QED  BY <2>1, <2>2, <2>3, <2>4
<1> QED  BY <1>1 DEF ObservedSince, ObservedOn

LEMMA PageAgrees == ASSUME PanelTypes PROVE PanelAgrees
<1>1. PanelSpend.callsToday = PanelDaily[ActivityDays].decisions
    <2>1. Today \in Nat /\ ActivityDays \in 1 .. ActivityDays
        BY PanelAssumption, DayHolds DEF PanelTypes, Today
    <2>2. Today - ActivityDays + ActivityDays = Today
        BY <2>1
    <2> QED  BY <2>1, <2>2, TodayIsTheLastBar DEF PanelSpend, PanelDaily
<1>2. LeaderboardDays = RollingDays =>
          \A c \in Companies :
             /\ Standing(c).mentions = ScoredOn(c, Today).mentions + Cardinality(LateSaid(c))
             /\ ReadOf(LateSaid(c)) = {} => Standing(c).mood = ScoredOn(c, Today).tone
    BY BoardIsTheLastPoint
<1> QED  BY <1>1, <1>2, ChartAddsUp, CountsAddUp, TonesAreScoreable, Zenon DEF PanelAgrees

\* A mood, of what is kept and what that adds up to.
KeptOf(r, S) ==
    {m \in S : Cut(Cardinality(S)) < ToneRank(r, S, m)
               /\ ToneRank(r, S, m) <= Cardinality(S) - Cut(Cardinality(S))}
Certainties(r, S) == [m \in S |-> r[m].certainty]
Tones(r, S) == [m \in S |-> r[m].tone]
Views(r, S) == [m \in S |-> Tones(r, S)[m] * Certainties(r, S)[m]]
MoodBy(n, kept, certainty, tone, view) ==
    IF n < ToneFloor THEN [tone |-> 0, of |-> 0]
    ELSE IF certainty <= 0 THEN [tone |-> tone, of |-> Cardinality(kept)]
         ELSE [tone |-> view, of |-> certainty]

LEMMA MoodIs ==
    \A r, S : Mood(r, S) = MoodBy(Cardinality(S), KeptOf(r, S), SumOf(Certainties(r, S), KeptOf(r, S)),
                                  SumOf(Tones(r, S), KeptOf(r, S)), SumOf(Views(r, S), KeptOf(r, S)))
BY Zenon DEF Mood, MoodBy, KeptOf, Certainties, Tones, Views, SumOf

\* r and t are one but for m, which is above all the rest in both.
LoudestIn(r, t, S, m) ==
    /\ m \in S /\ S \subseteq Mentions
    /\ \A o \in S : r[o].tone \in Int /\ t[o].tone \in Int
    /\ \A o \in S \ {m} : r[o] = t[o] /\ r[o].tone < r[m].tone /\ t[o].tone < t[m].tone

LEMMA LoudestIsCut ==
    ASSUME NEW r, NEW t, NEW S, NEW m, LoudestIn(r, t, S, m)
    PROVE  Mood(t, S) = Mood(r, S)
<1> DEFINE n == Cardinality(S)
<1>1. IsFiniteSet(S) /\ n \in Nat
    BY PanelAssumption, FS_Subset, FS_CardinalityType DEF LoudestIn
<1>2. CASE n < ToneFloor
    BY <1>2, MoodIs, Zenon DEF MoodBy
<1>3. CASE ~(n < ToneFloor)
    <2>1. Cut(n) \in Nat /\ Cut(n) >= 1
        <3>1. TrimOf \in Nat /\ TrimOf > 0 /\ n >= TrimOf
            BY <1>1, <1>3, PanelAssumption
        <3>2. PICK q : q = n \div TrimOf
            OBVIOUS
        <3>3. q \in Int /\ n < TrimOf * (q + 1) /\ TrimOf * q <= n
            BY <1>1, <3>1, <3>2
        <3>4. q >= 1
            <4>1. SUFFICES ASSUME q <= 0 PROVE FALSE
                BY <3>3
            <4>2. TrimOf * (q + 1) <= TrimOf
                BY <3>1, <3>3, <4>1
            <4> QED  BY <1>1, <3>1, <3>3, <4>2
        <3> QED  BY <3>2, <3>3, <3>4 DEF Cut
    <2>2. ASSUME NEW o \in S PROVE ToneRank(t, S, o) = ToneRank(r, S, o)
        <3>1. ASSUME NEW p \in S
              PROVE  (t[p].tone < t[o].tone \/ (t[p].tone = t[o].tone /\ ReadOrder[p] <= ReadOrder[o]))
                     <=> (r[p].tone < r[o].tone \/ (r[p].tone = r[o].tone /\ ReadOrder[p] <= ReadOrder[o]))
            <4>1. CASE p = o
                <5>1. ReadOrder[o] \in Nat /\ r[o].tone \in Int /\ t[o].tone \in Int
                    BY PanelAssumption DEF LoudestIn
                <5> QED  BY <4>1, <5>1
            <4>2. CASE p # m /\ o # m
                BY <4>2 DEF LoudestIn
            <4>3. CASE p = m /\ o # m
                <5>1. r[o].tone < r[p].tone /\ t[o].tone < t[p].tone
                    BY <4>3 DEF LoudestIn
                <5>2. r[o].tone \in Int /\ t[o].tone \in Int /\ r[p].tone \in Int /\ t[p].tone \in Int
                    BY DEF LoudestIn
                <5> QED  BY <5>1, <5>2
            <4>4. CASE p # m /\ o = m
                BY <4>4 DEF LoudestIn
            <4> QED  BY <4>1, <4>2, <4>3, <4>4
        <3>2. {p \in S : t[p].tone < t[o].tone \/ (t[p].tone = t[o].tone /\ ReadOrder[p] <= ReadOrder[o])}
              = {p \in S : r[p].tone < r[o].tone \/ (r[p].tone = r[o].tone /\ ReadOrder[p] <= ReadOrder[o])}
            BY <3>1
        <3> QED  BY <3>2 DEF ToneRank
    <2>3. ToneRank(r, S, m) = n
        <3>1. ASSUME NEW p \in S
              PROVE  r[p].tone < r[m].tone \/ (r[p].tone = r[m].tone /\ ReadOrder[p] <= ReadOrder[m])
            <4>1. CASE p = m
                <5>1. ReadOrder[m] \in Nat
                    BY PanelAssumption DEF LoudestIn
                <5> QED  BY <4>1, <5>1
            <4>2. CASE p # m
                <5>1. p \in S \ {m}
                    BY <4>2
                <5>2. r[p].tone < r[m].tone
                    BY <5>1, Zenon DEF LoudestIn
                <5> QED  BY <5>2
            <4> QED  BY <4>1, <4>2
        <3>2. {p \in S : r[p].tone < r[m].tone \/ (r[p].tone = r[m].tone /\ ReadOrder[p] <= ReadOrder[m])} = S
            BY <3>1
        <3> QED  BY <3>2, Zenon DEF ToneRank
    <2>4. KeptOf(t, S) = KeptOf(r, S)
        BY <2>2 DEF KeptOf
    <2>5. PICK kept : kept = KeptOf(r, S)
        OBVIOUS
    <2>6. kept \subseteq S \ {m}
        <3>1. m \notin kept
            BY <1>1, <2>1, <2>3, <2>5 DEF KeptOf
        <3> QED  BY <2>5, <3>1 DEF KeptOf
    <2>7. IsFiniteSet(kept)
        BY <1>1, <2>6, FS_Subset
    <2>8. \A o \in kept : r[o] = t[o] /\ o \in S
        BY <2>6 DEF LoudestIn
    <2>9. SumOf(Certainties(t, S), kept) = SumOf(Certainties(r, S), kept)
        <3>1. \A o \in kept : Certainties(t, S)[o] = Certainties(r, S)[o]
            BY <2>8 DEF Certainties
        <3> QED  BY <2>7, <3>1, SumSame
    <2>10. \A o \in kept : Tones(t, S)[o] = Tones(r, S)[o]
        BY <2>8 DEF Tones
    <2>11. SumOf(Tones(t, S), kept) = SumOf(Tones(r, S), kept)
        BY <2>7, <2>10, SumSame
    <2>12. SumOf(Views(t, S), kept) = SumOf(Views(r, S), kept)
        <3>1. \A o \in kept : Views(t, S)[o] = Views(r, S)[o]
            BY <2>8 DEF Views, Tones, Certainties
        <3> QED  BY <2>7, <3>1, SumSame
    <2> QED  BY <2>4, <2>5, <2>9, <2>11, <2>12, MoodIs, Zenon
<1> QED  BY <1>2, <1>3

LEMMA NobodyDecides == ASSUME PanelTypes PROVE NoOnePostDecides
<1> SUFFICES ASSUME NEW c \in Companies, NEW m \in ReadOf(Said(c, LeaderboardDays))
             PROVE  LET about == ReadOf(Said(c, LeaderboardDays))
                        now == [o \in Mentions |-> decision[o].reading]
                        louder == [now EXCEPT ![m] = [tone |-> 9, certainty |-> 9]]
                    IN  (\A o \in about \ {m} : now[o].tone < now[m].tone) =>
                            Mood(louder, about) = Mood(now, about)
    BY Zenon DEF NoOnePostDecides
<1> DEFINE about == ReadOf(Said(c, LeaderboardDays))
           now == [o \in Mentions |-> decision[o].reading]
           louder == [now EXCEPT ![m] = [tone |-> 9, certainty |-> 9]]
<1>1. about \subseteq Mentions
    BY DEF ReadOf, Said, Resolved
<1>2. \A o \in Mentions : now[o].tone \in Int /\ now[o].tone < 9
    BY DEF PanelTypes, IsMention, Readings, Unread
<1>3. louder[m].tone = 9 /\ \A o \in Mentions \ {m} : louder[o] = now[o]
    BY <1>1
<1> HIDE DEF now, louder
<1>4. ASSUME \A o \in about \ {m} : now[o].tone < now[m].tone
      PROVE  Mood(louder, about) = Mood(now, about)
    <2>1. LoudestIn(now, louder, about, m)
        BY <1>1, <1>2, <1>3, <1>4 DEF LoudestIn
    <2> HIDE DEF about
    <2> QED  BY <2>1, LoudestIsCut
<1> QED  BY <1>4 DEF now, louder

\* For any mentions and companies, whatever is decided of them and when: the page's
\* figures agree but for the end of one day, and the most extreme reading of a company does not move its tone,
\* however extreme, as the floor is no lower than what a cut of one takes.
\* (spend, daily, standings, trend, mood)
THEOREM PagesAreSound == PanelSpec => []PanelIsSound
<1>1. PanelTypes => PanelIsSound
    BY PageAgrees, NobodyDecides DEF PanelIsSound
<1> QED  BY <1>1, PanelTypedFirst, PanelTyped, PTL DEF PanelSpec
-----------------------------------------------------------------------------
(* What a board is worth (Catalogue).                                      *)

\* What is no less one by one is no less together, and more where one is more.
NoLess(f, g, S) == SumOf(f, S) <= SumOf(g, S)

LEMMA SumNoLess ==
    ASSUME NEW f, NEW g, NEW S, IsFiniteSet(S),
           \A x \in S : f[x] \in Nat /\ g[x] \in Nat /\ f[x] <= g[x]
    PROVE  NoLess(f, g, S)
<1> DEFINE Bad == {n \in Nat : \E t \in SUBSET S : Cardinality(t) = n /\ ~NoLess(f, g, t)}
<1>1. \A t \in SUBSET S : IsFiniteSet(t) /\ Cardinality(t) \in Nat
    BY FS_Subset, FS_CardinalityType
<1> SUFFICES ASSUME Bad # {} PROVE FALSE
    BY <1>1
<1>2. PICK n \in Bad : \A o \in Bad : n <= o
    <2>1. Bad \subseteq Nat
        OBVIOUS
    <2> HIDE DEF Bad
    <2> QED  BY <2>1, LeastOf
<1>3. PICK t \in SUBSET S : Cardinality(t) = n /\ ~NoLess(f, g, t)
    OBVIOUS
<1>4. /\ SumOf(f, t) \in Nat /\ SumOf(g, t) \in Nat
      /\ t = {} => SumOf(f, t) = 0
      /\ \A y \in t : SumOf(f, t) = f[y] + SumOf(f, t \ {y}) /\ SumOf(g, t) = g[y] + SumOf(g, t \ {y})
    BY <1>1, SumOver
<1>5. t # {}
    BY <1>3, <1>4 DEF NoLess
<1>6. PICK x \in t : TRUE
    BY <1>5
<1>7. PICK r \in SUBSET S : r = t \ {x}
    OBVIOUS
<1>8. Cardinality(r) = n - 1 /\ n - 1 \in Nat /\ n \in Nat
    BY <1>1, <1>3, <1>6, <1>7, Smaller
<1>9. NoLess(f, g, r)
    <2>1. n - 1 \notin Bad
        <3> HIDE DEF Bad
        <3> QED  BY <1>2, <1>8
    <2> QED  BY <1>8, <2>1
<1>10. SumOf(f, r) \in Nat /\ SumOf(g, r) \in Nat
    BY <1>1, SumOver
<1>11. SumOf(f, t) = f[x] + SumOf(f, r) /\ SumOf(g, t) = g[x] + SumOf(g, r)
    BY <1>4, <1>7
<1>12. f[x] \in Nat /\ g[x] \in Nat /\ f[x] <= g[x]
    BY <1>6
<1> QED  BY <1>3, <1>9, <1>10, <1>11, <1>12 DEF NoLess

LEMMA SumMore ==
    ASSUME NEW f, NEW g, NEW S, IsFiniteSet(S),
           \A x \in S : f[x] \in Nat /\ g[x] \in Nat /\ f[x] <= g[x],
           NEW y \in S, f[y] < g[y]
    PROVE  SumOf(f, S) < SumOf(g, S)
<1>1. PICK r \in SUBSET S : r = S \ {y}
    OBVIOUS
<1>2. IsFiniteSet(r)
    BY FS_Subset
<1>3. NoLess(f, g, r)
    BY <1>2, SumNoLess
<1>4. SumOf(f, S) = f[y] + SumOf(f, r) /\ SumOf(g, S) = g[y] + SumOf(g, r)
    BY <1>1, SumOver
<1>5. SumOf(f, r) \in Nat /\ SumOf(g, r) \in Nat
    BY <1>2, SumOver
<1>6. f[y] \in Nat /\ g[y] \in Nat
    OBVIOUS
<1> QED  BY <1>3, <1>4, <1>5, <1>6 DEF NoLess

\* A sum of so many times each and so much more.
Linear(f, g, a, b, S) == SumOf(f, S) = a * SumOf(g, S) + b * Cardinality(S)

LEMMA SumLinear ==
    ASSUME NEW f, NEW g, NEW S, IsFiniteSet(S), NEW a \in Int, NEW b \in Int,
           \A x \in S : g[x] \in Int /\ f[x] = a * g[x] + b
    PROVE  Linear(f, g, a, b, S)
<1> DEFINE Bad == {n \in Nat : \E t \in SUBSET S : Cardinality(t) = n /\ ~Linear(f, g, a, b, t)}
<1>1. \A t \in SUBSET S : IsFiniteSet(t) /\ Cardinality(t) \in Nat
    BY FS_Subset, FS_CardinalityType
<1> SUFFICES ASSUME Bad # {} PROVE FALSE
    BY <1>1
<1>2. PICK n \in Bad : \A o \in Bad : n <= o
    <2>1. Bad \subseteq Nat
        OBVIOUS
    <2> HIDE DEF Bad
    <2> QED  BY <2>1, LeastOf
<1>3. PICK t \in SUBSET S : Cardinality(t) = n /\ ~Linear(f, g, a, b, t)
    OBVIOUS
<1>4. \A x \in S : f[x] \in Int
    OBVIOUS
<1>5. /\ t = {} => SumOf(f, t) = 0 /\ SumOf(g, t) = 0
      /\ \A y \in t : SumOf(f, t) = f[y] + SumOf(f, t \ {y}) /\ SumOf(g, t) = g[y] + SumOf(g, t \ {y})
    <2>1. IsFiniteSet(t) /\ (\A x \in t : f[x] \in Int) /\ (\A x \in t : g[x] \in Int)
        BY <1>1, <1>4
    <2>2. /\ t = {} => SumOf(f, t) = 0
          /\ \A y \in t : SumOf(f, t) = f[y] + SumOf(f, t \ {y})
        BY <2>1, SumOverInt
    <2>3. /\ t = {} => SumOf(g, t) = 0
          /\ \A y \in t : SumOf(g, t) = g[y] + SumOf(g, t \ {y})
        BY <2>1, SumOverInt
    <2> QED  BY <2>2, <2>3
<1>6. t # {}
    <2> SUFFICES ASSUME t = {} PROVE FALSE
        OBVIOUS
    <2>1. SumOf(f, t) = 0 /\ SumOf(g, t) = 0 /\ Cardinality(t) = 0
        BY <1>5, FS_EmptySet
    <2>2. a * 0 + b * 0 = 0
        OBVIOUS
    <2> QED  BY <1>3, <2>1, <2>2 DEF Linear
<1>7. PICK x \in t : TRUE
    BY <1>6
<1>8. PICK r \in SUBSET S : r = t \ {x}
    OBVIOUS
<1>9. Cardinality(r) = n - 1 /\ n - 1 \in Nat /\ n \in Nat
    BY <1>1, <1>3, <1>7, <1>8, Smaller
<1>10. Linear(f, g, a, b, r)
    <2>1. n - 1 \notin Bad
        <3> HIDE DEF Bad
        <3> QED  BY <1>2, <1>9
    <2> QED  BY <1>9, <2>1
<1>11. SumOf(g, r) \in Int
    BY <1>1, SumOverInt
<1>12. SumOf(f, t) = f[x] + SumOf(f, r) /\ SumOf(g, t) = g[x] + SumOf(g, r)
    BY <1>5, <1>8
<1>13. g[x] \in Int /\ f[x] = a * g[x] + b
    BY <1>7
<1>14. PICK G \in Int, H \in Int : G = SumOf(g, r) /\ H = g[x]
    BY <1>11, <1>13
<1>15. SumOf(f, t) = (a * H + b) + (a * G + b * (n - 1))
    BY <1>9, <1>10, <1>12, <1>13, <1>14 DEF Linear
<1>16. (a * H + b) + (a * G + b * (n - 1)) = a * (H + G) + b * n
    BY <1>9
<1> QED  BY <1>3, <1>12, <1>14, <1>15, <1>16 DEF Linear

\* What two in A and one in B bring.
Brings(f, g, A, B, S) ==
    SumOf(f, S) = SumOf(g, S) + 2 * Cardinality(A \cap S) + Cardinality(B \cap S)

LEMMA SumBrings ==
    ASSUME NEW f, NEW g, NEW A, NEW B, NEW S, IsFiniteSet(S), A \cap B = {},
           \A x \in S : g[x] \in Int /\ f[x] = g[x] + IF x \in A THEN 2 ELSE IF x \in B THEN 1 ELSE 0
    PROVE  Brings(f, g, A, B, S)
<1> DEFINE Bad == {n \in Nat : \E t \in SUBSET S : Cardinality(t) = n /\ ~Brings(f, g, A, B, t)}
<1>1. \A t \in SUBSET S : IsFiniteSet(t) /\ Cardinality(t) \in Nat
    BY FS_Subset, FS_CardinalityType
<1> SUFFICES ASSUME Bad # {} PROVE FALSE
    BY <1>1
<1>2. PICK n \in Bad : \A o \in Bad : n <= o
    <2>1. Bad \subseteq Nat
        OBVIOUS
    <2> HIDE DEF Bad
    <2> QED  BY <2>1, LeastOf
<1>3. PICK t \in SUBSET S : Cardinality(t) = n /\ ~Brings(f, g, A, B, t)
    OBVIOUS
<1>4. \A x \in S : f[x] \in Int
    OBVIOUS
<1>5. /\ t = {} => SumOf(f, t) = 0 /\ SumOf(g, t) = 0
      /\ \A y \in t : SumOf(f, t) = f[y] + SumOf(f, t \ {y}) /\ SumOf(g, t) = g[y] + SumOf(g, t \ {y})
    <2>1. IsFiniteSet(t) /\ (\A x \in t : f[x] \in Int) /\ (\A x \in t : g[x] \in Int)
        BY <1>1, <1>4
    <2>2. /\ t = {} => SumOf(f, t) = 0
          /\ \A y \in t : SumOf(f, t) = f[y] + SumOf(f, t \ {y})
        BY <2>1, SumOverInt
    <2>3. /\ t = {} => SumOf(g, t) = 0
          /\ \A y \in t : SumOf(g, t) = g[y] + SumOf(g, t \ {y})
        BY <2>1, SumOverInt
    <2> QED  BY <2>2, <2>3
<1>6. t # {}
    <2> SUFFICES ASSUME t = {} PROVE FALSE
        OBVIOUS
    <2>1. SumOf(f, t) = 0 /\ SumOf(g, t) = 0
        BY <1>5
    <2>2. A \cap t = {} /\ B \cap t = {} /\ Cardinality({}) = 0
        BY FS_EmptySet
    <2> QED  BY <1>3, <2>1, <2>2 DEF Brings
<1>7. PICK x \in t : TRUE
    BY <1>6
<1>8. PICK r \in SUBSET S : r = t \ {x}
    OBVIOUS
<1>9. Cardinality(r) = n - 1 /\ n - 1 \in Nat /\ n \in Nat
    BY <1>1, <1>3, <1>7, <1>8, Smaller
<1>10. Brings(f, g, A, B, r)
    <2>1. n - 1 \notin Bad
        <3> HIDE DEF Bad
        <3> QED  BY <1>2, <1>9
    <2> QED  BY <1>9, <2>1
<1>11. SumOf(g, r) \in Int
    BY <1>1, SumOverInt
<1>12. SumOf(f, t) = f[x] + SumOf(f, r) /\ SumOf(g, t) = g[x] + SumOf(g, r)
    BY <1>5, <1>8
<1>13. g[x] \in Int /\ f[x] = g[x] + IF x \in A THEN 2 ELSE IF x \in B THEN 1 ELSE 0
    BY <1>7
<1>14. ASSUME NEW C
       PROVE  /\ Cardinality(C \cap t) = Cardinality(C \cap r) + IF x \in C THEN 1 ELSE 0
              /\ Cardinality(C \cap r) \in Nat
    <2>1. PICK c \in SUBSET S : c = C \cap r
        OBVIOUS
    <2>2. IsFiniteSet(c) /\ Cardinality(c) \in Nat /\ x \notin c
        BY <1>1, <1>8, <2>1
    <2>3. CASE x \in C
        <3>1. C \cap t = c \cup {x}
            BY <1>7, <1>8, <2>1, <2>3
        <3> QED  BY <2>1, <2>2, <2>3, <3>1, FS_AddElement
    <2>4. CASE x \notin C
        <3>1. C \cap t = c
            BY <1>8, <2>1, <2>4
        <3> QED  BY SMTT(30), <2>1, <2>2, <2>4, <3>1
    <2> QED  BY <2>3, <2>4
<1>15. PICK a \in Nat, b \in Nat : a = Cardinality(A \cap r) /\ b = Cardinality(B \cap r)
    BY <1>14
<1>16. /\ Cardinality(A \cap t) = a + IF x \in A THEN 1 ELSE 0
       /\ Cardinality(B \cap t) = b + IF x \in B THEN 1 ELSE 0
    BY <1>14, <1>15
<1>17. SumOf(f, r) = SumOf(g, r) + 2 * a + b
    BY <1>10, <1>15 DEF Brings
<1>18. SumOf(f, t) = SumOf(g, t) + 2 * Cardinality(A \cap t) + Cardinality(B \cap t)
    <2>1. ~(x \in A /\ x \in B)
        OBVIOUS
    <2> QED  BY <1>11, <1>12, <1>13, <1>16, <1>17, <2>1
<1> QED  BY <1>3, <1>18 DEF Brings

\* Two for each that is below, and one for each that is the same.
Below(v, T, k) == {j \in T : v[j] < v[k]}
Alike(v, T, k) == {j \in T : v[j] = v[k]}
Wins(v, T, k) == 2 * Cardinality(Below(v, T, k)) + Cardinality(Alike(v, T, k))

WinsOf(v, T) == [k \in T |-> Wins(v, T, k)]
WinsAre(v, T) == SumOf(WinsOf(v, T), T) = Cardinality(T) * Cardinality(T)

LEMMA Counted ==
    ASSUME NEW v, NEW T, IsFiniteSet(T), NEW k
    PROVE  /\ IsFiniteSet(Below(v, T, k)) /\ Cardinality(Below(v, T, k)) \in Nat
           /\ IsFiniteSet(Alike(v, T, k)) /\ Cardinality(Alike(v, T, k)) \in Nat
           /\ Wins(v, T, k) \in Nat
<1>1. Below(v, T, k) \subseteq T /\ Alike(v, T, k) \subseteq T
    BY DEF Below, Alike
<1>2. /\ IsFiniteSet(Below(v, T, k)) /\ Cardinality(Below(v, T, k)) \in Nat
      /\ IsFiniteSet(Alike(v, T, k)) /\ Cardinality(Alike(v, T, k)) \in Nat
    BY <1>1, FS_Subset, FS_CardinalityType
<1> QED  BY <1>2 DEF Wins

\* One more who may be below, the same or above.
WithOneMore(v, T, r, x) ==
    /\ \A k \in r : Wins(v, T, k) = Wins(v, r, k) + IF v[x] < v[k] THEN 2 ELSE IF v[x] = v[k] THEN 1 ELSE 0
    /\ Wins(v, T, x) = Wins(v, r, x) + 1

LEMMA OneJoins ==
    ASSUME NEW v, NEW T, IsFiniteSet(T), \A k \in T : v[k] \in Int,
           NEW x \in T
    PROVE  WithOneMore(v, T, T \ {x}, x)
<1>0. PICK r \in SUBSET T : r = T \ {x}
    OBVIOUS
<1>1. x \notin r /\ T = r \cup {x} /\ IsFiniteSet(r)
    <2>1. IsFiniteSet(T \ {x})
        BY FS_RemoveElement
    <2>2. x \notin r
        BY <1>0
    <2>3. \A y : y \in T <=> y \in r \/ y = x
        BY <1>0
    <2> QED  BY <1>0, <2>1, <2>2, <2>3
<1>2. ASSUME NEW k \in T
      PROVE  /\ Cardinality(Below(v, T, k)) = Cardinality(Below(v, r, k)) + IF v[x] < v[k] THEN 1 ELSE 0
             /\ Cardinality(Alike(v, T, k)) = Cardinality(Alike(v, r, k)) + IF v[x] = v[k] THEN 1 ELSE 0
    <2>1. /\ IsFiniteSet(Below(v, r, k)) /\ Cardinality(Below(v, r, k)) \in Nat
          /\ IsFiniteSet(Alike(v, r, k)) /\ Cardinality(Alike(v, r, k)) \in Nat
        BY <1>1, Counted
    <2>2. x \notin Below(v, r, k) /\ x \notin Alike(v, r, k)
        BY <1>1 DEF Below, Alike
    <2>3. Below(v, T, k) = IF v[x] < v[k] THEN Below(v, r, k) \cup {x} ELSE Below(v, r, k)
        BY <1>1 DEF Below
    <2>4. Alike(v, T, k) = IF v[x] = v[k] THEN Alike(v, r, k) \cup {x} ELSE Alike(v, r, k)
        BY <1>1 DEF Alike
    <2>5. Cardinality(Below(v, r, k) \cup {x}) = Cardinality(Below(v, r, k)) + 1
        BY <2>1, <2>2, FS_AddElement
    <2>6. Cardinality(Alike(v, r, k) \cup {x}) = Cardinality(Alike(v, r, k)) + 1
        BY <2>1, <2>2, FS_AddElement
    <2>7. Cardinality(Below(v, T, k)) = Cardinality(Below(v, r, k)) + IF v[x] < v[k] THEN 1 ELSE 0
        BY <2>1, <2>3, <2>5
    <2> QED  BY <2>1, <2>4, <2>6, <2>7
<1>3. ASSUME NEW k \in T
      PROVE  /\ Cardinality(Below(v, r, k)) \in Nat /\ Cardinality(Alike(v, r, k)) \in Nat
    BY <1>1, Counted
<1>4. ASSUME NEW k \in r
      PROVE  Wins(v, T, k) = Wins(v, r, k) + IF v[x] < v[k] THEN 2 ELSE IF v[x] = v[k] THEN 1 ELSE 0
    <2>1. k \in T /\ v[x] \in Int /\ v[k] \in Int
        BY <1>1
    <2>2. PICK b \in Nat, a \in Nat : b = Cardinality(Below(v, r, k)) /\ a = Cardinality(Alike(v, r, k))
        BY <1>3, <2>1
    <2> QED  BY <1>2, <2>1, <2>2 DEF Wins
<1>5. Wins(v, T, x) = Wins(v, r, x) + 1
    <2>1. v[x] \in Int /\ ~(v[x] < v[x])
        OBVIOUS
    <2>2. PICK b \in Nat, a \in Nat : b = Cardinality(Below(v, r, x)) /\ a = Cardinality(Alike(v, r, x))
        BY <1>3
    <2> QED  BY <1>2, <2>1, <2>2 DEF Wins
<1> QED  BY <1>0, <1>4, <1>5 DEF WithOneMore

LEMMA WinsAddUp ==
    ASSUME NEW v, NEW S, IsFiniteSet(S), \A k \in S : v[k] \in Int
    PROVE  WinsAre(v, S)
<1> DEFINE Bad == {n \in Nat : \E t \in SUBSET S : Cardinality(t) = n /\ ~WinsAre(v, t)}
<1>1. \A t \in SUBSET S : IsFiniteSet(t) /\ Cardinality(t) \in Nat
    BY FS_Subset, FS_CardinalityType
<1> SUFFICES ASSUME Bad # {} PROVE FALSE
    BY <1>1
<1>2. PICK n \in Bad : \A o \in Bad : n <= o
    <2>1. Bad \subseteq Nat
        OBVIOUS
    <2> HIDE DEF Bad
    <2> QED  BY <2>1, LeastOf
<1>3. PICK t \in SUBSET S : Cardinality(t) = n /\ ~WinsAre(v, t)
    OBVIOUS
<1>4. PICK f : f = WinsOf(v, t)
    OBVIOUS
<1>5. IsFiniteSet(t) /\ \A k \in t : f[k] = Wins(v, t, k) /\ f[k] \in Int
    BY <1>1, <1>4, Counted DEF WinsOf
<1>6. /\ t = {} => SumOf(f, t) = 0
      /\ \A y \in t : SumOf(f, t) = f[y] + SumOf(f, t \ {y})
    BY <1>5, SumOverInt
<1>7. t # {}
    <2> SUFFICES ASSUME t = {} PROVE FALSE
        OBVIOUS
    <2>1. SumOf(f, t) = 0 /\ Cardinality(t) = 0
        BY <1>6, FS_EmptySet
    <2> QED  BY <1>3, <1>4, <2>1 DEF WinsAre
<1>8. PICK x \in t : TRUE
    BY <1>7
<1>9. PICK r \in SUBSET S : r = t \ {x}
    OBVIOUS
<1>10. Cardinality(r) = n - 1 /\ n - 1 \in Nat /\ n \in Nat
    BY <1>1, <1>3, <1>8, <1>9, Smaller
<1>11. WinsAre(v, r)
    <2>1. n - 1 \notin Bad
        <3> HIDE DEF Bad
        <3> QED  BY <1>2, <1>10
    <2> QED  BY <1>10, <2>1
<1>12. PICK g : g = WinsOf(v, r)
    OBVIOUS
<1>13. IsFiniteSet(r) /\ \A k \in r : g[k] = Wins(v, r, k) /\ g[k] \in Int
    BY <1>1, <1>12, Counted DEF WinsOf
<1>14. SumOf(g, r) = (n - 1) * (n - 1)
    BY <1>10, <1>11, <1>12 DEF WinsAre
<1> DEFINE A == {k \in r : v[x] < v[k]}
           B == {k \in r : v[x] = v[k]}
           C == {k \in r : v[k] < v[x]}
<1>15. \A k \in t : v[k] \in Int
    OBVIOUS
<1>16. /\ \A k \in r : Wins(v, t, k) = Wins(v, r, k) + IF v[x] < v[k] THEN 2 ELSE IF v[x] = v[k] THEN 1 ELSE 0
       /\ Wins(v, t, x) = Wins(v, r, x) + 1
    <2>1. WithOneMore(v, t, t \ {x}, x)
        BY <1>5, <1>8, <1>15, OneJoins
    <2> QED  BY <1>9, <2>1 DEF WithOneMore
<1>17. Brings(f, g, A, B, r)
    <2>1. A \cap B = {}
        BY <1>9, <1>15
    <2>2. \A k \in r : g[k] \in Int /\ f[k] = g[k] + IF k \in A THEN 2 ELSE IF k \in B THEN 1 ELSE 0
        <3> SUFFICES ASSUME NEW k \in r
                     PROVE  g[k] \in Int /\ f[k] = g[k] + IF k \in A THEN 2 ELSE IF k \in B THEN 1 ELSE 0
            OBVIOUS
        <3>1. f[k] = Wins(v, t, k) /\ g[k] = Wins(v, r, k) /\ g[k] \in Int
            BY <1>5, <1>9, <1>13
        <3> QED  BY <1>16, <3>1
    <2> HIDE DEF A, B
    <2> QED  BY <1>13, <2>1, <2>2, SumBrings
<1>18. /\ IsFiniteSet(A) /\ IsFiniteSet(B) /\ IsFiniteSet(C)
       /\ A \cup B \cup C = r /\ A \cap B = {} /\ (A \cup B) \cap C = {}
    <2>1. A \subseteq r /\ B \subseteq r /\ C \subseteq r
        OBVIOUS
    <2>2. IsFiniteSet(A) /\ IsFiniteSet(B) /\ IsFiniteSet(C)
        <3> HIDE DEF A, B, C
        <3> QED  BY <1>13, <2>1, FS_Subset
    <2>3. \A k \in r : v[k] \in Int /\ v[x] \in Int
        BY <1>9, <1>15
    <2> QED  BY <2>2, <2>3
<1>19. PICK a \in Nat, b \in Nat, c \in Nat : a = Cardinality(A) /\ b = Cardinality(B) /\ c = Cardinality(C)
    <2> HIDE DEF A, B, C
    <2> QED  BY <1>18, FS_CardinalityType
<1>20. a + b + c = n - 1
    <2> HIDE DEF A, B, C
    <2>1. Cardinality(A \cap B) = 0 /\ Cardinality((A \cup B) \cap C) = 0
        BY <1>18, FS_EmptySet
    <2>2. PICK D : D = A \cup B
        OBVIOUS
    <2>3. IsFiniteSet(D) /\ Cardinality(D) = Cardinality(A) + Cardinality(B) - Cardinality(A \cap B)
        BY <1>18, <2>2, FS_Union
    <2>4. Cardinality(D \cup C) = Cardinality(D) + Cardinality(C) - Cardinality(D \cap C)
        BY <1>18, <2>3, FS_Union
    <2>5. Cardinality(D) = a + b
        BY <1>19, <2>1, <2>3
    <2>6. Cardinality(D \cup C) = a + b + c
        BY <1>19, <2>1, <2>2, <2>4, <2>5
    <2>7. D \cup C = r
        BY <1>18, <2>2
    <2> QED  BY <1>10, <2>6, <2>7
<1>21. A \cap r = A /\ B \cap r = B /\ Below(v, r, x) = C /\ Alike(v, r, x) = B
    BY DEF Below, Alike
<1>22. f[x] = 2 * c + b + 1
    <2>1. f[x] = Wins(v, t, x)
        BY <1>5
    <2>2. Wins(v, r, x) = 2 * c + b
        BY <1>19, <1>21 DEF Wins
    <2> QED  BY <1>16, <2>1, <2>2
<1> HIDE DEF A, B, C
<1>23. SumOf(f, r) = (n - 1) * (n - 1) + 2 * a + b
    BY <1>14, <1>17, <1>19, <1>21 DEF Brings
<1>24. SumOf(f, t) = f[x] + SumOf(f, r)
    BY <1>6, <1>9
<1>25. SumOf(f, t) = n * n
    <2>1. SumOf(f, t) = (n - 1) * (n - 1) + 2 * (a + b + c) + 1
        BY <1>10, <1>22, <1>23, <1>24
    <2>2. (n - 1) * (n - 1) + 2 * (n - 1) + 1 = n * n
        BY <1>10
    <2> QED  BY <1>20, <2>1, <2>2
<1> QED  BY <1>3, <1>4, <1>25 DEF WinsAre

-----------------------------------------------------------------------------
(* The percentiles of a field.                                             *)

\* What is known of the rows that may be offered.
OfferedOk(rows) ==
    /\ IsFiniteSet(DOMAIN rows) /\ DOMAIN rows \subseteq Nat
    /\ \A n \in 1 .. Cardinality(DOMAIN rows) - 1 : \E q \in 1 .. 50 * Unit : n * q = 50 * Unit
    /\ \A k \in DOMAIN rows :
          /\ Cost(rows[k]) \in Nat \ {0}
          /\ DOMAIN rows[k].marks \subseteq Indices
          /\ \A i \in DOMAIN rows[k].marks : rows[k].marks[i] \in Nat

LEMMA CostIs ==
    ASSUME ListingsAssumption, NEW row, row.input \in Nat, row.output \in Nat,
           row.input > 0 \/ row.output > 0
    PROVE  Cost(row) \in Nat \ {0}
<1>1. PICK a \in 1 .. 9, x \in Nat, y \in Nat : a = InputShare /\ x = row.input /\ y = row.output
    BY DEF ListingsAssumption
<1>2. Cost(row) = a * x + (10 - a) * y
    BY <1>1 DEF Cost
<1>3. x > 0 \/ y > 0
    BY <1>1
<1>4. PICK b \in Nat \ {0} : b = 10 - a
    OBVIOUS
<1>5. a * x \in Nat /\ b * y \in Nat
    BY <1>4
<1>6. (x > 0 => a * x > 0) /\ (y > 0 => b * y > 0)
    BY <1>4
<1> QED  BY <1>2, <1>3, <1>4, <1>5, <1>6

LEMMA EligibleIs ==
    ASSUME ListingsAssumption, NEW listed \in Listings
    PROVE  OfferedOk(Eligible(listed))
<1> DEFINE keep == {k \in DOMAIN listed : Acceptable(listed[k])}
           floor == Min({Cost(listed[k]) : k \in keep})
           left == {k \in keep : Cost(listed[k]) <= floor * PriceMultiple}
<1>1. PICK rows : rows = Eligible(listed)
    OBVIOUS
<1>2. rows = [k \in left |-> listed[k]]
    BY <1>1, Zenon DEF Eligible, Restrict
<1>3. left \subseteq DOMAIN listed /\ \A k \in left : Acceptable(listed[k])
    OBVIOUS
<1>4. Len(listed) \in Nat /\ DOMAIN listed = 1 .. Len(listed)
    BY DEF ListingsAssumption
<1> HIDE DEF left
<1>5. DOMAIN rows = left /\ \A k \in left : rows[k] = listed[k]
    BY <1>2
<1>6. IsFiniteSet(left) /\ left \subseteq Nat /\ Cardinality(left) <= Len(listed) /\ Cardinality(left) \in Nat
    <2>1. IsFiniteSet(1 .. Len(listed)) /\ Cardinality(1 .. Len(listed)) = Len(listed)
        BY SMTT(30), <1>4, FS_Interval
    <2>2. left \in SUBSET (1 .. Len(listed))
        BY <1>3, <1>4
    <2>3. IsFiniteSet(left) /\ Cardinality(left) <= Cardinality(1 .. Len(listed))
        BY <2>1, <2>2, FS_Subset
    <2> QED  BY <2>1, <2>2, <2>3, FS_CardinalityType
<1>7. ASSUME NEW n \in 1 .. Cardinality(left) - 1
      PROVE  \E q \in 1 .. 50 * Unit : n * q = 50 * Unit
    <2>1. n \in 1 .. Len(listed) - 1
        BY <1>4, <1>6
    <2> QED  BY <2>1 DEF ListingsAssumption
<1>8. ASSUME NEW k \in left
      PROVE  /\ Cost(listed[k]) \in Nat \ {0}
             /\ DOMAIN listed[k].marks \subseteq Indices
             /\ \A i \in DOMAIN listed[k].marks : listed[k].marks[i] \in Nat
    <2>1. k \in DOMAIN listed /\ (listed[k].input > 0 \/ listed[k].output > 0)
        BY <1>3 DEF Acceptable
    <2>2. listed[k].input \in Nat /\ listed[k].output \in Nat
        BY <2>1 DEF ListingsAssumption
    <2>3. Cost(listed[k]) \in Nat \ {0}
        BY <2>1, <2>2, CostIs
    <2> QED  BY <2>1, <2>3 DEF ListingsAssumption
<1> QED  BY <1>1, <1>5, <1>6, <1>7, <1>8 DEF OfferedOk

LEMMA DividesOut ==
    ASSUME NEW d \in Nat \ {0}, NEW q \in Nat, NEW x \in Nat
    PROVE  ((d * q) * x) \div d = q * x
<1>1. PICK z \in Nat : z = q * x
    OBVIOUS
<1>2. (d * q) * x = d * z
    BY <1>1
<1>3. (d * z) \div d = z
    OBVIOUS
<1> QED  BY <1>1, <1>2, <1>3

MarksFor(rows, i) == [k \in Measured(rows, i) |-> rows[k].marks[i]]
PlacesFor(rows, i) == [k \in Measured(rows, i) |-> PlaceAmong(rows, i, rows[k].marks[i])]

\* A percentile is so many times what wins there are but one.
FieldBy(rows, i, q) ==
    /\ q \in Nat \ {0} /\ q * (Cardinality(Measured(rows, i)) - 1) = 50 * Unit
    /\ \A k \in Measured(rows, i) :
          PlacesFor(rows, i)[k] = q * (Wins(MarksFor(rows, i), Measured(rows, i), k) - 1)

LEMMA FieldIs ==
    ASSUME ListingsAssumption, NEW rows, OfferedOk(rows), NEW i
    PROVE  /\ IsFiniteSet(Measured(rows, i)) /\ Cardinality(Measured(rows, i)) \in Nat
           /\ \A k \in Measured(rows, i) : MarksFor(rows, i)[k] \in Nat
           /\ Cardinality(Measured(rows, i)) = 1 =>
                \A k \in Measured(rows, i) : PlacesFor(rows, i)[k] = 50 * Unit
           /\ Cardinality(Measured(rows, i)) > 1 => \E q : FieldBy(rows, i, q)
<1> DEFINE M == Measured(rows, i)
           v == MarksFor(rows, i)
           m == Cardinality(M)
<1>1. IsFiniteSet(M) /\ m \in Nat /\ m <= Cardinality(DOMAIN rows) /\ Cardinality(DOMAIN rows) \in Nat
    <2>1. M \in SUBSET DOMAIN rows
        BY DEF Measured
    <2>2. IsFiniteSet(DOMAIN rows)
        BY DEF OfferedOk
    <2> HIDE DEF M
    <2> QED  BY <2>1, <2>2, FS_Subset, FS_CardinalityType
<1>2. \A k \in M : v[k] = rows[k].marks[i] /\ v[k] \in Nat
    BY DEF MarksFor, Measured, OfferedOk
<1>3. m = 1 => \A k \in M : PlacesFor(rows, i)[k] = 50 * Unit
    BY DEF PlacesFor, PlaceAmong
<1>4. ASSUME m > 1
      PROVE  \E q : FieldBy(rows, i, q)
    <2>1. m - 1 \in 1 .. Cardinality(DOMAIN rows) - 1 /\ m - 1 \in Nat \ {0}
        BY <1>1, <1>4
    <2>2. PICK q \in 1 .. 50 * Unit : (m - 1) * q = 50 * Unit
        BY <2>1 DEF OfferedOk
    <2>3. q \in Nat \ {0} /\ q * (m - 1) = 50 * Unit
        <3>1. PICK d \in Nat : d = m - 1
            BY <2>1
        <3>2. Unit \in Nat /\ q \in Nat \ {0}
            BY <2>2 DEF ListingsAssumption
        <3>3. d * q = q * d
            BY <3>2
        <3> QED  BY <2>2, <3>1, <3>2, <3>3
    <2>4. ASSUME NEW k \in M
          PROVE  PlacesFor(rows, i)[k] = q * (Wins(v, M, k) - 1)
        <3>1. /\ Cardinality({j \in M : rows[j].marks[i] < rows[k].marks[i]}) = Cardinality(Below(v, M, k))
              /\ Cardinality({j \in M : rows[j].marks[i] = rows[k].marks[i]}) = Cardinality(Alike(v, M, k))
            <4> HIDE DEF M, v
            <4>1. {j \in M : rows[j].marks[i] < rows[k].marks[i]} = Below(v, M, k)
                BY <1>2 DEF Below
            <4>2. {j \in M : rows[j].marks[i] = rows[k].marks[i]} = Alike(v, M, k)
                BY <1>2 DEF Alike
            <4> QED  BY <4>1, <4>2
        <3>2. PICK x : x = Wins(v, M, k) - 1
            OBVIOUS
        <3>3. PlacesFor(rows, i)[k] = (50 * Unit * x) \div (m - 1)
            <4>0. Cardinality(Below(v, M, k)) \in Nat /\ Cardinality(Alike(v, M, k)) \in Nat
                <5> HIDE DEF M, v
                <5> QED  BY <1>1, Counted
            <4>1. PICK b \in Nat, a \in Nat : b = Cardinality(Below(v, M, k)) /\ a = Cardinality(Alike(v, M, k))
                BY <4>0
            <4>2. m # 1
                BY <1>4
            <4>3. PlacesFor(rows, i)[k] = PlaceAmong(rows, i, rows[k].marks[i])
                BY DEF PlacesFor
            <4>4. PlaceAmong(rows, i, rows[k].marks[i]) = (50 * Unit * (2 * b + a - 1)) \div (m - 1)
                BY <3>1, <4>1, <4>2, Zenon DEF PlaceAmong
            <4>5. x = 2 * b + a - 1
                <5> HIDE DEF M, v
                <5> QED  BY <3>2, <4>1 DEF Wins
            <4> QED  BY <4>3, <4>4, <4>5
        <3>4. x \in Nat
            <4> HIDE DEF M, v
            <4>1. /\ IsFiniteSet(Alike(v, M, k)) /\ Cardinality(Alike(v, M, k)) \in Nat
                  /\ Cardinality(Below(v, M, k)) \in Nat
                BY <1>1, Counted
            <4>2. k \in Alike(v, M, k)
                BY DEF Alike
            <4>3. Cardinality(Alike(v, M, k)) # 0
                BY <4>1, <4>2, FS_EmptySet
            <4> QED  BY <3>2, <4>1, <4>3 DEF Wins
        <3>5. PICK d \in Nat \ {0} : d = m - 1
            BY <2>1
        <3>6. 50 * Unit = d * q
            BY <2>2, <3>5
        <3>7. ((d * q) * x) \div d = q * x
            BY <2>3, <3>4, DividesOut
        <3> QED  BY <3>2, <3>3, <3>5, <3>6, <3>7
    <2> QED  BY <2>3, <2>4 DEF FieldBy
<1> QED  BY <1>1, <1>2, <1>3, <1>4

\* The percentiles of a field average fifty.
FieldAverages(rows, i) ==
    SumOf(PlacesFor(rows, i), Measured(rows, i)) = 50 * Unit * Cardinality(Measured(rows, i))

LEMMA FieldIsEven ==
    ASSUME ListingsAssumption, NEW rows, OfferedOk(rows), NEW i
    PROVE  FieldAverages(rows, i)
<1> DEFINE M == Measured(rows, i)
           v == MarksFor(rows, i)
           P == PlacesFor(rows, i)
           m == Cardinality(M)
<1>1. /\ IsFiniteSet(M) /\ m \in Nat /\ \A k \in M : v[k] \in Nat
      /\ m = 1 => \A k \in M : P[k] = 50 * Unit
      /\ m > 1 => \E q : FieldBy(rows, i, q)
    BY FieldIs
<1>2. PICK u \in Nat : u = 50 * Unit
    BY DEF ListingsAssumption
<1> HIDE DEF M, v, P
<1>3. CASE m = 0
    <2>1. M = {}
        BY <1>1, <1>3, FS_EmptySet
    <2>2. SumOf(P, M) = 0
        BY <1>1, <2>1, SumOver
    <2> QED  BY <1>2, <1>3, <2>2 DEF FieldAverages, M, P
<1>4. CASE m = 1
    <2>1. \A k \in M : P[k] \in Nat /\ P[k] = u
        BY <1>1, <1>2, <1>4
    <2>2. \A k \in M : P[k] \in Int /\ P[k] = 0 * P[k] + u
        BY <2>1
    <2>3. Linear(P, P, 0, u, M)
        <3>1. 0 \in Int /\ u \in Int
            OBVIOUS
        <3> QED  BY <1>1, <2>2, <3>1, SumLinear
    <2>4. SumOf(P, M) \in Nat
        BY <1>1, <2>1, SumOver
    <2>5. SumOf(P, M) = u * 1
        BY <1>4, <2>3, <2>4 DEF Linear
    <2> QED  BY <1>2, <1>4, <2>5 DEF FieldAverages, M, P
<1>5. CASE m > 1
    <2>1. PICK q : FieldBy(rows, i, q)
        BY <1>1, <1>5
    <2>2. q \in Nat \ {0} /\ q * (m - 1) = u /\ \A k \in M : P[k] = q * (Wins(v, M, k) - 1)
        BY <1>2, <2>1 DEF FieldBy, M, P, v
    <2>3. PICK W : W = WinsOf(v, M)
        OBVIOUS
    <2>4. \A k \in M : W[k] = Wins(v, M, k) /\ W[k] \in Nat
        BY <1>1, <2>3, Counted DEF WinsOf
    <2>5. PICK b \in Int : b = -q
        BY <2>2
    <2>6. ASSUME NEW k \in M
          PROVE  W[k] \in Int /\ P[k] = q * W[k] + b
        <3>1. PICK w \in Nat : w = W[k]
            BY <2>4
        <3>2. P[k] = q * (w - 1)
            BY <2>2, <2>4, <3>1
        <3>3. q * (w - 1) = q * w + b
            BY <2>2, <2>5
        <3> QED  BY <3>1, <3>2, <3>3
    <2>7. Linear(P, W, q, b, M)
        <3>1. q \in Int
            BY <2>2
        <3> QED  BY <1>1, <2>6, <3>1, SumLinear
    <2>8. SumOf(W, M) = m * m
        <3>1. \A k \in M : v[k] \in Int
            BY <1>1
        <3>2. WinsAre(v, M)
            BY <1>1, <3>1, WinsAddUp
        <3> QED  BY <2>3, <3>2 DEF WinsAre
    <2>9. SumOf(P, M) = q * (m * m) + b * m
        BY <2>7, <2>8 DEF Linear
    <2>10. q * (m * m) + b * m = (q * (m - 1)) * m
        <3>1. PICK c \in Nat : c = m
            BY <1>1
        <3>2. q * (c * c) + b * c = (q * (c - 1)) * c
            BY <2>2, <2>5
        <3> QED  BY <3>1, <3>2
    <2>11. SumOf(P, M) = u * m
        BY <2>2, <2>9, <2>10
    <2> QED  BY <1>2, <2>11 DEF FieldAverages, M, P
<1> QED  BY <1>1, <1>3, <1>4, <1>5

\* Whoever is marked higher wins more.
LEMMA WinsGrow ==
    ASSUME NEW v, NEW T, IsFiniteSet(T), \A k \in T : v[k] \in Int,
           NEW j \in T, NEW k \in T
    PROVE  /\ Wins(v, T, j) \in Nat \ {0}
           /\ v[j] = v[k] => Wins(v, T, j) = Wins(v, T, k)
           /\ v[j] < v[k] => Wins(v, T, j) < Wins(v, T, k)
<1>1. \A o \in T : /\ IsFiniteSet(Below(v, T, o)) /\ Cardinality(Below(v, T, o)) \in Nat
                   /\ IsFiniteSet(Alike(v, T, o)) /\ Cardinality(Alike(v, T, o)) \in Nat
    BY Counted
<1>2. Cardinality(Alike(v, T, j)) # 0
    <2>1. j \in Alike(v, T, j)
        BY DEF Alike
    <2> QED  BY <1>1, <2>1, FS_EmptySet
<1>3. Wins(v, T, j) \in Nat \ {0}
    BY <1>1, <1>2 DEF Wins
<1>4. ASSUME v[j] = v[k]
      PROVE  Wins(v, T, j) = Wins(v, T, k)
    <2>1. Below(v, T, j) = Below(v, T, k) /\ Alike(v, T, j) = Alike(v, T, k)
        BY <1>4 DEF Below, Alike
    <2> QED  BY <2>1 DEF Wins
<1>5. ASSUME v[j] < v[k]
      PROVE  Wins(v, T, j) < Wins(v, T, k)
    <2>1. /\ Below(v, T, j) \cup Alike(v, T, j) \subseteq Below(v, T, k)
          /\ Below(v, T, j) \cap Alike(v, T, j) = {}
        BY <1>5 DEF Below, Alike
    <2>2. PICK B, A, C : B = Below(v, T, j) /\ A = Alike(v, T, j) /\ C = Below(v, T, k)
        OBVIOUS
    <2>3. /\ IsFiniteSet(B) /\ IsFiniteSet(A) /\ IsFiniteSet(C) /\ B \cap A = {} /\ B \cup A \subseteq C
          /\ Cardinality(A) \in Nat /\ Cardinality(B) \in Nat /\ Cardinality(C) \in Nat /\ Cardinality(A) # 0
        BY <1>1, <1>2, <2>1, <2>2
    <2>4. Cardinality(B \cup A) = Cardinality(B) + Cardinality(A)
        <3>1. Cardinality(B \cup A) = Cardinality(B) + Cardinality(A) - Cardinality(B \cap A)
            BY <2>3, FS_Union
        <3>2. Cardinality(B \cap A) = 0
            BY <2>3, FS_EmptySet
        <3> QED  BY <2>3, <3>1, <3>2
    <2>5. Cardinality(B \cup A) <= Cardinality(C)
        BY <2>3, FS_Subset
    <2>6. PICK a \in Nat : a = Cardinality(Alike(v, T, k))
        BY <1>1
    <2>7. Wins(v, T, j) = 2 * Cardinality(B) + Cardinality(A) /\ Wins(v, T, k) = 2 * Cardinality(C) + a
        BY <2>2, <2>6 DEF Wins
    <2> QED  BY <2>3, <2>4, <2>5, <2>7
<1> QED  BY <1>3, <1>4, <1>5

\* ... and is placed higher.
PlacesFollow(rows, i, j, k) ==
    /\ PlacesFor(rows, i)[j] \in Nat
    /\ rows[j].marks[i] <= rows[k].marks[i] => PlacesFor(rows, i)[j] <= PlacesFor(rows, i)[k]
    /\ rows[j].marks[i] < rows[k].marks[i] => PlacesFor(rows, i)[j] < PlacesFor(rows, i)[k]

LEMMA HigherIsHigher ==
    ASSUME ListingsAssumption, NEW rows, OfferedOk(rows), NEW i,
           NEW j \in Measured(rows, i), NEW k \in Measured(rows, i)
    PROVE  PlacesFollow(rows, i, j, k)
<1> DEFINE M == Measured(rows, i)
           v == MarksFor(rows, i)
           P == PlacesFor(rows, i)
           m == Cardinality(M)
<1>1. /\ IsFiniteSet(M) /\ m \in Nat /\ \A o \in M : v[o] \in Nat
      /\ m = 1 => \A o \in M : P[o] = 50 * Unit
      /\ m > 1 => \E q : FieldBy(rows, i, q)
    BY FieldIs
<1>2. v[j] = rows[j].marks[i] /\ v[k] = rows[k].marks[i]
    BY DEF MarksFor
<1>3. PICK u \in Nat : u = 50 * Unit
    BY DEF ListingsAssumption
<1>4. j \in M /\ k \in M
    OBVIOUS
<1> HIDE DEF M, v, P
<1>5. v[j] \in Nat /\ v[k] \in Nat
    BY <1>1, <1>4
<1>6. CASE m = 1
    <2>1. j = k
        <3>1. PICK o : M = {o}
            BY <1>1, <1>6, FS_Singleton
        <3> QED  BY <1>4, <3>1
    <2>2. P[j] = u
        BY <1>1, <1>3, <1>4, <1>6
    <2>3. P[j] \in Nat /\ P[k] = P[j] /\ ~(v[j] < v[k])
        BY <1>5, <2>1, <2>2
    <2> QED  BY <1>2, <2>3 DEF PlacesFollow, P
<1>7. CASE m > 1
    <2>1. PICK q : FieldBy(rows, i, q)
        BY <1>1, <1>7
    <2>2. q \in Nat \ {0} /\ \A o \in M : P[o] = q * (Wins(v, M, o) - 1)
        BY <2>1 DEF FieldBy, M, P, v
    <2>3. \A o \in M : v[o] \in Int
        BY <1>1
    <2>4. /\ Wins(v, M, j) \in Nat \ {0}
          /\ v[j] = v[k] => Wins(v, M, j) = Wins(v, M, k)
          /\ v[j] < v[k] => Wins(v, M, j) < Wins(v, M, k)
        BY <1>1, <1>4, <2>3, WinsGrow
    <2>5. Wins(v, M, k) \in Nat \ {0}
        BY <1>1, <1>4, <2>3, WinsGrow
    <2>6. PICK x \in Nat, y \in Nat : x = Wins(v, M, j) - 1 /\ y = Wins(v, M, k) - 1
        BY <2>4, <2>5
    <2>7. P[j] = q * x /\ P[k] = q * y
        BY <1>4, <2>2, <2>6
    <2>8. (v[j] = v[k] => x = y) /\ (v[j] < v[k] => x < y)
        BY <2>4, <2>5, <2>6
    <2>9. q * x \in Nat /\ q * y \in Nat /\ (x < y => q * x < q * y)
        BY ONLY <2>2, q \in Nat \ {0}, x \in Nat, y \in Nat
    <2>10. /\ P[j] \in Nat /\ P[k] \in Nat
           /\ v[j] <= v[k] => P[j] <= P[k]
           /\ v[j] < v[k] => P[j] < P[k]
        BY <1>5, <2>7, <2>8, <2>9
    <2> QED  BY <1>2, <2>10 DEF PlacesFollow, P
<1>8. m # 0
    BY <1>1, <1>4, FS_EmptySet
<1> QED  BY <1>1, <1>6, <1>7, <1>8

-----------------------------------------------------------------------------
(* What a model is worth.                                                  *)

\* A rated row: what it weighs is something, and what it is placed by is what it is marked by.
RatedOk(e) ==
    /\ e.blend \in Nat /\ e.share \in Nat \ {0} /\ e.cost \in Nat \ {0}
    /\ DOMAIN e.percentiles = DOMAIN e.marks

PlacesBy(rows, k) == [i \in DOMAIN rows[k].marks |-> PlaceAmong(rows, i, rows[k].marks[i])]
Worths(rows, k) == [i \in DOMAIN rows[k].marks |-> Weights[i] * PlacesBy(rows, k)[i]]
MarkWeights(rows, k) == [i \in DOMAIN rows[k].marks |-> Weights[i]]

LEMMA RatedAs ==
    ASSUME NEW rows, NEW k
    PROVE  LET e == Rated(rows, rows[k])
               D == DOMAIN rows[k].marks
           IN  /\ e.slug = rows[k].slug /\ e.cost = Cost(rows[k]) /\ e.marks = rows[k].marks
               /\ e.percentiles = PlacesBy(rows, k)
               /\ e.blend = SumOf(Worths(rows, k), D)
               /\ e.share = IF D = {} THEN 1 ELSE SumOf(MarkWeights(rows, k), D)
<1>1. DOMAIN Worths(rows, k) = DOMAIN rows[k].marks /\ DOMAIN MarkWeights(rows, k) = DOMAIN rows[k].marks
    BY DEF Worths, MarkWeights
<1>2. \A f : AddedUp(f) = SumOf(f, DOMAIN f)
    BY Zenon DEF AddedUp, SumOf
<1>3. Rated(rows, rows[k])
      = [slug |-> rows[k].slug, cost |-> Cost(rows[k]), marks |-> rows[k].marks,
         percentiles |-> PlacesBy(rows, k),
         blend |-> AddedUp(Worths(rows, k)),
         share |-> IF DOMAIN rows[k].marks = {} THEN 1 ELSE AddedUp(MarkWeights(rows, k))]
    BY Zenon DEF Rated, PlacesBy, Worths, MarkWeights
<1> QED  BY <1>1, <1>2, <1>3

\* What an index brings to one that was measured by it.
PlacedOk(rows, k, i) ==
    /\ k \in Measured(rows, i) /\ PlacesBy(rows, k)[i] = PlacesFor(rows, i)[k]
    /\ PlacesBy(rows, k)[i] \in Nat /\ Weights[i] \in Nat \ {0}
    /\ Worths(rows, k)[i] = Weights[i] * PlacesBy(rows, k)[i]
    /\ Worths(rows, k)[i] \in Nat

LEMMA RatedIs ==
    ASSUME CatalogueAssumption, ListingsAssumption, NEW rows, OfferedOk(rows), NEW k \in DOMAIN rows
    PROVE  /\ RatedOk(Rated(rows, rows[k]))
           /\ IsFiniteSet(DOMAIN rows[k].marks)
           /\ \A i \in DOMAIN rows[k].marks : PlacedOk(rows, k, i)
<1> DEFINE D == DOMAIN rows[k].marks
           e == Rated(rows, rows[k])
<1>1. IsFiniteSet(D) /\ D \subseteq Indices
    BY FS_Subset DEF OfferedOk, ListingsAssumption
<1>2. ASSUME NEW i \in D
      PROVE  PlacedOk(rows, k, i)
    <2>1. k \in Measured(rows, i)
        BY DEF Measured
    <2>2. PlacesBy(rows, k)[i] = PlacesFor(rows, i)[k]
        BY <2>1 DEF PlacesBy, PlacesFor
    <2>3. PlacesFor(rows, i)[k] \in Nat
        BY <2>1, HigherIsHigher DEF PlacesFollow
    <2>4. Weights[i] \in Nat \ {0}
        BY <1>1 DEF CatalogueAssumption
    <2>5. Worths(rows, k)[i] = Weights[i] * PlacesBy(rows, k)[i]
        BY DEF Worths
    <2>6. PICK w \in Nat, p \in Nat : w = Weights[i] /\ p = PlacesBy(rows, k)[i]
        BY <2>2, <2>3, <2>4
    <2>7. w * p \in Nat
        OBVIOUS
    <2> QED  BY <2>1, <2>2, <2>3, <2>4, <2>5, <2>6, <2>7 DEF PlacedOk
<1>3. /\ e.cost = Cost(rows[k]) /\ e.marks = rows[k].marks /\ e.percentiles = PlacesBy(rows, k)
      /\ e.blend = SumOf(Worths(rows, k), D)
      /\ e.share = IF D = {} THEN 1 ELSE SumOf(MarkWeights(rows, k), D)
    BY RatedAs
<1> HIDE DEF e
<1>4. e.blend \in Nat
    <2> HIDE DEF D
    <2>1. \A i \in D : Worths(rows, k)[i] \in Nat
        BY <1>2 DEF PlacedOk
    <2> QED  BY <1>1, <1>3, <2>1, SumOver
<1>5. e.share \in Nat \ {0}
    <2>1. \A i \in D : MarkWeights(rows, k)[i] = Weights[i] /\ MarkWeights(rows, k)[i] \in Nat \ {0}
        BY <1>2 DEF MarkWeights, PlacedOk
    <2> HIDE DEF D
    <2>2. CASE D # {}
        <3>1. PICK i \in D : TRUE
            BY <2>2
        <3>2. PICK f : f = MarkWeights(rows, k)
            OBVIOUS
        <3>3. PICK r : r = D \ {i}
            OBVIOUS
        <3>4. IsFiniteSet(r) /\ \A x \in r : f[x] \in Nat
            BY <1>1, <2>1, <3>2, <3>3, FS_RemoveElement
        <3>5. SumOf(f, r) \in Nat
            BY <3>4, SumOver
        <3>6. SumOf(f, D) = f[i] + SumOf(f, r)
            <4>1. \A x \in D : f[x] \in Nat
                BY <2>1, <3>2
            <4>2. \A y \in D : SumOf(f, D) = f[y] + SumOf(f, D \ {y})
                BY <1>1, <4>1, SumOver
            <4> QED  BY <3>1, <3>3, <4>2
        <3>7. f[i] \in Nat \ {0}
            BY <2>1, <3>2
        <3>8. SumOf(f, D) \in Nat \ {0}
            BY <3>5, <3>6, <3>7
        <3> QED  BY <1>3, <2>2, <3>2, <3>8
    <2>3. CASE D = {}
        BY <1>3, <2>3
    <2> QED  BY <2>2, <2>3
<1>6. e.cost \in Nat \ {0}
    BY <1>3 DEF OfferedOk
<1>7. DOMAIN e.percentiles = DOMAIN e.marks
    BY <1>3 DEF PlacesBy
<1>8. RatedOk(e)
    BY <1>4, <1>5, <1>6, <1>7 DEF RatedOk
<1> QED  BY <1>1, <1>2, <1>8 DEF e

LEMMA FourParts ==
    ASSUME NEW a \in Nat, NEW b \in Nat, NEW c \in Nat, NEW d \in Nat
    PROVE  /\ (a + b) * (c + d) = a * c + a * d + b * c + b * d
           /\ a * c \in Nat /\ a * d \in Nat /\ b * c \in Nat /\ b * d \in Nat
<1>1. (a + b) * (c + d) = a * c + a * d + b * c + b * d
    OBVIOUS
<1>2. a * c \in Nat /\ a * d \in Nat
    OBVIOUS
<1>3. b * c \in Nat /\ b * d \in Nat
    OBVIOUS
<1> QED  BY <1>1, <1>2, <1>3

LEMMA Positive ==
    ASSUME NEW a \in Nat, NEW b \in Nat, a > 0, b > 0
    PROVE  a * b > 0
OBVIOUS

LEMMA MoreForLess ==
    ASSUME NEW x \in Nat \ {0}, NEW y \in Nat, NEW s \in Nat \ {0}, NEW c \in Nat \ {0},
           NEW d \in Nat \ {0}, y >= x, c <= d, y > x \/ c < d
    PROVE  (y * s) * d > (x * s) * c
<1>1. PICK a \in Nat, b \in Nat : y = x + a /\ d = c + b /\ (a > 0 \/ b > 0)
    <2>1. y - x \in Nat /\ d - c \in Nat
        OBVIOUS
    <2> QED  BY <2>1
<1>2. PICK xs \in Nat \ {0}, ys \in Nat : xs = x * s /\ ys = a * s /\ (a > 0 => ys > 0)
    <2>1. x * s \in Nat \ {0} /\ a * s \in Nat /\ (a > 0 => a * s > 0)
        OBVIOUS
    <2> QED  BY <2>1
<1>3. y * s = xs + ys
    BY <1>1, <1>2
<1>4. (xs + ys) * (c + b) = xs * c + xs * b + ys * c + ys * b
    <2>1. PICK p \in Nat, e \in Nat : p = xs /\ e = c
        OBVIOUS
    <2>2. (p + ys) * (e + b) = p * e + p * b + ys * e + ys * b
        BY FourParts
    <2> QED  BY <2>1, <2>2
<1>5. xs * c \in Nat /\ xs * b \in Nat /\ ys * c \in Nat /\ ys * b \in Nat
    BY FourParts
<1>6. (b > 0 => xs * b > 0) /\ (ys > 0 => ys * c > 0)
    <2>1. ASSUME b > 0 PROVE xs * b > 0
        <3>1. xs \in Nat /\ xs > 0
            OBVIOUS
        <3> QED  BY <2>1, <3>1, Positive
    <2>2. ASSUME ys > 0 PROVE ys * c > 0
        <3>1. c \in Nat /\ c > 0
            OBVIOUS
        <3> QED  BY <2>2, <3>1, Positive
    <2> QED  BY <2>1, <2>2
<1>7. (xs + ys) * (c + b) > xs * c
    BY <1>1, <1>2, <1>4, <1>5, <1>6
<1> QED  BY <1>1, <1>2, <1>3, <1>7

\* Who dominates is worth more.
LEMMA DominatesWins ==
    ASSUME CatalogueAssumption, ListingsAssumption, NEW rows, OfferedOk(rows),
           NEW j \in DOMAIN rows, NEW k \in DOMAIN rows,
           Dominates(Rated(rows, rows[j]), Rated(rows, rows[k])),
           Rated(rows, rows[k]).blend > 0
    PROVE  /\ BetterValue(Rated(rows, rows[j]), Rated(rows, rows[k]))
           /\ Rated(rows, rows[j]).share = Rated(rows, rows[k]).share
           /\ Rated(rows, rows[j]).blend >= Rated(rows, rows[k]).blend
           /\ DOMAIN Rated(rows, rows[j]).percentiles = DOMAIN Rated(rows, rows[k]).percentiles
<1>1. PICK a, b, D : a = Rated(rows, rows[j]) /\ b = Rated(rows, rows[k]) /\ D = DOMAIN rows[k].marks
    OBVIOUS
<1>2. /\ a.cost = Cost(rows[j]) /\ a.marks = rows[j].marks /\ a.percentiles = PlacesBy(rows, j)
      /\ a.blend = SumOf(Worths(rows, j), DOMAIN rows[j].marks)
      /\ a.share = IF DOMAIN rows[j].marks = {} THEN 1 ELSE SumOf(MarkWeights(rows, j), DOMAIN rows[j].marks)
    BY <1>1, RatedAs
<1>3. /\ b.cost = Cost(rows[k]) /\ b.marks = rows[k].marks /\ b.percentiles = PlacesBy(rows, k)
      /\ b.blend = SumOf(Worths(rows, k), D)
      /\ b.share = IF D = {} THEN 1 ELSE SumOf(MarkWeights(rows, k), D)
    BY <1>1, RatedAs
<1>4. /\ D = DOMAIN rows[j].marks
      /\ \A i \in D : rows[j].marks[i] >= rows[k].marks[i]
      /\ a.cost <= b.cost
      /\ a.cost < b.cost \/ \E i \in D : rows[j].marks[i] > rows[k].marks[i]
    BY <1>1, <1>2, <1>3 DEF Dominates
<1>5. RatedOk(a) /\ RatedOk(b) /\ IsFiniteSet(D)
    BY <1>1, RatedIs
<1>6. \A i \in D : rows[j].marks[i] \in Nat /\ rows[k].marks[i] \in Nat
    BY <1>1, <1>4 DEF OfferedOk
<1>7. MarkWeights(rows, j) = MarkWeights(rows, k)
    BY <1>1, <1>4 DEF MarkWeights
<1>8. a.share = b.share
    BY <1>2, <1>3, <1>4, <1>7
<1>9. ASSUME NEW i \in D
      PROVE  /\ Worths(rows, j)[i] \in Nat /\ Worths(rows, k)[i] \in Nat
             /\ Worths(rows, k)[i] <= Worths(rows, j)[i]
             /\ rows[j].marks[i] > rows[k].marks[i] => Worths(rows, k)[i] < Worths(rows, j)[i]
    <2>1. /\ j \in Measured(rows, i) /\ PlacesBy(rows, j)[i] = PlacesFor(rows, i)[j]
          /\ Weights[i] \in Nat \ {0}
          /\ Worths(rows, j)[i] = Weights[i] * PlacesBy(rows, j)[i]
          /\ Worths(rows, j)[i] \in Nat
        <3>1. \A o \in DOMAIN rows[j].marks : PlacedOk(rows, j, o)
            BY RatedIs
        <3>2. PlacedOk(rows, j, i)
            BY <1>4, <3>1
        <3> QED  BY <3>2 DEF PlacedOk
    <2>2. /\ k \in Measured(rows, i) /\ PlacesBy(rows, k)[i] = PlacesFor(rows, i)[k]
          /\ Worths(rows, k)[i] = Weights[i] * PlacesBy(rows, k)[i]
          /\ Worths(rows, k)[i] \in Nat
        <3>1. \A o \in DOMAIN rows[k].marks : PlacedOk(rows, k, o)
            BY RatedIs
        <3>2. PlacedOk(rows, k, i)
            BY <1>1, <3>1
        <3> QED  BY <3>2 DEF PlacedOk
    <2>3. PlacesFollow(rows, i, k, j)
        BY <2>1, <2>2, HigherIsHigher
    <2>4. PlacesFor(rows, i)[j] \in Nat
        BY <2>1, HigherIsHigher DEF PlacesFollow
    <2>5. PICK w \in Nat \ {0}, p \in Nat, q \in Nat :
              w = Weights[i] /\ p = PlacesFor(rows, i)[k] /\ q = PlacesFor(rows, i)[j]
        BY <2>1, <2>3, <2>4 DEF PlacesFollow
    <2>6. p <= q /\ (rows[j].marks[i] > rows[k].marks[i] => p < q)
        BY <1>4, <1>6, <2>3, <2>5 DEF PlacesFollow
    <2>7. (p <= q => w * p <= w * q) /\ (p < q => w * p < w * q)
        OBVIOUS
    <2> QED  BY <2>1, <2>2, <2>5, <2>6, <2>7
<1>10. PICK f, g : f = Worths(rows, k) /\ g = Worths(rows, j)
    OBVIOUS
<1>11. \A i \in D : f[i] \in Nat /\ g[i] \in Nat /\ f[i] <= g[i]
    BY <1>9, <1>10
<1>12. b.blend <= a.blend
    <2>1. NoLess(f, g, D)
        BY <1>5, <1>11, SumNoLess
    <2> QED  BY <1>2, <1>3, <1>4, <1>10, <2>1 DEF NoLess
<1>13. a.cost < b.cost \/ b.blend < a.blend
    <2>1. ASSUME NEW i \in D, rows[j].marks[i] > rows[k].marks[i]
          PROVE  b.blend < a.blend
        <3>1. f[i] < g[i]
            BY <1>9, <1>10, <2>1
        <3>2. SumOf(f, D) < SumOf(g, D)
            BY <1>5, <1>11, <3>1, SumMore
        <3> QED  BY <1>2, <1>3, <1>4, <1>10, <3>2
    <2> QED  BY <1>4, <2>1
<1>14. PICK x \in Nat \ {0}, y \in Nat, s \in Nat \ {0}, c \in Nat \ {0}, d \in Nat \ {0} :
           x = b.blend /\ y = a.blend /\ s = a.share /\ c = a.cost /\ d = b.cost
    <2>1. /\ a.blend \in Nat /\ a.share \in Nat \ {0} /\ a.cost \in Nat \ {0}
          /\ b.blend \in Nat /\ b.cost \in Nat \ {0}
        BY <1>5 DEF RatedOk
    <2>2. b.blend > 0
        BY <1>1
    <2>3. b.blend \in Nat \ {0}
        BY <2>1, <2>2
    <2> QED  BY <2>1, <2>3
<1>15. (y * s) * d > (x * s) * c
    <2>1. y >= x /\ c <= d /\ (y > x \/ c < d)
        BY <1>4, <1>12, <1>13, <1>14
    <2> QED  BY <2>1, MoreForLess
<1>16. BetterValue(a, b)
    BY <1>8, <1>14, <1>15 DEF BetterValue
<1>17. DOMAIN a.percentiles = DOMAIN b.percentiles
    <2>1. DOMAIN a.percentiles = DOMAIN a.marks /\ DOMAIN b.percentiles = DOMAIN b.marks
        BY <1>5 DEF RatedOk
    <2>2. DOMAIN a.marks = D
        BY <1>2, <1>4
    <2>3. DOMAIN b.marks = D
        BY <1>1, <1>3
    <2> QED  BY <2>1, <2>2, <2>3
<1>18. a.blend >= b.blend
    BY <1>12, <1>14
<1> QED  BY <1>1, <1>8, <1>16, <1>17, <1>18

-----------------------------------------------------------------------------
(* The order of a board.                                                   *)

LEMMA RatiosFollow ==
    ASSUME NEW x1 \in Nat, NEW x2 \in Nat, NEW x3 \in Nat,
           NEW y1 \in Nat \ {0}, NEW y2 \in Nat \ {0}, NEW y3 \in Nat \ {0},
           x1 * y2 >= x2 * y1, x2 * y3 >= x3 * y2
    PROVE  /\ x1 * y3 >= x3 * y1
           /\ x1 * y2 > x2 * y1 \/ x2 * y3 > x3 * y2 => x1 * y3 > x3 * y1
<1>1. PICK p \in Nat, q \in Nat, r \in Nat, t \in Nat, u \in Nat, w \in Nat :
          /\ p = x1 * y2 /\ q = x2 * y1 /\ r = x2 * y3 /\ t = x3 * y2
          /\ u = x1 * y3 /\ w = x3 * y1
    <2>1. x1 * y2 \in Nat /\ x2 * y1 \in Nat /\ x2 * y3 \in Nat
        OBVIOUS
    <2>2. x3 * y2 \in Nat /\ x1 * y3 \in Nat /\ x3 * y1 \in Nat
        OBVIOUS
    <2> QED  BY <2>1, <2>2
<1>2. p * y3 = y2 * u
    <2>1. (x1 * y2) * y3 = y2 * (x1 * y3)
        OBVIOUS
    <2> QED  BY <1>1, <2>1
<1>3. q * y3 = r * y1
    <2>1. (x2 * y1) * y3 = (x2 * y3) * y1
        OBVIOUS
    <2> QED  BY <1>1, <2>1
<1>4. t * y1 = y2 * w
    <2>1. (x3 * y2) * y1 = y2 * (x3 * y1)
        OBVIOUS
    <2> QED  BY <1>1, <2>1
<1>5. p >= q /\ r >= t
    BY <1>1
<1>6. p * y3 >= q * y3 /\ (p > q => p * y3 > q * y3)
    BY <1>5
<1>7. r * y1 >= t * y1 /\ (r > t => r * y1 > t * y1)
    BY <1>5
<1>8. PICK g \in Nat, h \in Nat, k \in Nat : g = p * y3 /\ h = q * y3 /\ k = t * y1
    <2>1. p * y3 \in Nat /\ q * y3 \in Nat /\ t * y1 \in Nat
        OBVIOUS
    <2> QED  BY <2>1
<1>9. g >= k /\ (p > q \/ r > t => g > k)
    BY <1>3, <1>6, <1>7, <1>8
<1>10. g = y2 * u /\ k = y2 * w
    BY <1>2, <1>4, <1>8
<1>11. u < w => y2 * u < y2 * w
    OBVIOUS
<1>12. u = w => g = k
    BY <1>10
<1>13. u >= w /\ (p > q \/ r > t => u > w)
    BY <1>9, <1>10, <1>11, <1>12
<1> QED  BY <1>1, <1>13

\* Of three models.
Valued(a, b, c) ==
    /\ ~BetterValue(b, a) /\ ~BetterValue(c, b) => ~BetterValue(c, a)
    /\ BetterValue(a, b) /\ ~BetterValue(c, b) => BetterValue(a, c)
    /\ ~BetterValue(b, a) /\ BetterValue(b, c) => BetterValue(a, c)
    /\ BetterValue(a, b) => ~BetterValue(b, a)

LEMMA ValueOrders ==
    ASSUME NEW a, NEW b, NEW c, RatedOk(a), RatedOk(b), RatedOk(c)
    PROVE  Valued(a, b, c)
<1> DEFINE Price(e) == e.share * e.cost
           More(e, f) == e.blend * Price(f) > f.blend * Price(e)
<1>1. ASSUME NEW e, RatedOk(e)
      PROVE  e.blend \in Nat /\ Price(e) \in Nat \ {0}
    <2>1. PICK s \in Nat \ {0}, p \in Nat \ {0} : s = e.share /\ p = e.cost
        BY <1>1 DEF RatedOk
    <2>2. s * p \in Nat \ {0}
        OBVIOUS
    <2> QED  BY <1>1, <2>1, <2>2 DEF RatedOk
<1>2. ASSUME NEW e, NEW f, RatedOk(e), RatedOk(f)
      PROVE  BetterValue(e, f) <=> More(e, f)
    <2>1. PICK x \in Nat, s \in Nat, p \in Nat, y \in Nat, t \in Nat, q \in Nat :
              x = e.blend /\ s = e.share /\ p = e.cost /\ y = f.blend /\ t = f.share /\ q = f.cost
        BY <1>2 DEF RatedOk
    <2>2. (x * t) * q = x * (t * q)
        OBVIOUS
    <2>3. (y * s) * p = y * (s * p)
        OBVIOUS
    <2> QED  BY <2>1, <2>2, <2>3 DEF BetterValue
<1>3. PICK x1 \in Nat, x2 \in Nat, x3 \in Nat, y1 \in Nat \ {0}, y2 \in Nat \ {0}, y3 \in Nat \ {0} :
          /\ x1 = a.blend /\ x2 = b.blend /\ x3 = c.blend
          /\ y1 = Price(a) /\ y2 = Price(b) /\ y3 = Price(c)
    <2>1. a.blend \in Nat /\ Price(a) \in Nat \ {0}
        BY <1>1
    <2>2. b.blend \in Nat /\ Price(b) \in Nat \ {0}
        BY <1>1
    <2>3. c.blend \in Nat /\ Price(c) \in Nat \ {0}
        BY <1>1
    <2> HIDE DEF Price
    <2> QED  BY <2>1, <2>2, <2>3
<1> HIDE DEF Price
<1>4. /\ BetterValue(a, b) <=> x1 * y2 > x2 * y1
      /\ BetterValue(b, a) <=> x2 * y1 > x1 * y2
    BY <1>2, <1>3
<1>5. /\ BetterValue(b, c) <=> x2 * y3 > x3 * y2
      /\ BetterValue(c, b) <=> x3 * y2 > x2 * y3
    BY <1>2, <1>3
<1>6. /\ BetterValue(a, c) <=> x1 * y3 > x3 * y1
      /\ BetterValue(c, a) <=> x3 * y1 > x1 * y3
    BY <1>2, <1>3
<1>7. ASSUME x1 * y2 >= x2 * y1, x2 * y3 >= x3 * y2
      PROVE  /\ x1 * y3 >= x3 * y1
             /\ x1 * y2 > x2 * y1 \/ x2 * y3 > x3 * y2 => x1 * y3 > x3 * y1
    BY <1>7, RatiosFollow
<1>8. PICK p \in Nat, q \in Nat, r \in Nat, t \in Nat, u \in Nat, w \in Nat :
          /\ p = x1 * y2 /\ q = x2 * y1 /\ r = x2 * y3 /\ t = x3 * y2
          /\ u = x1 * y3 /\ w = x3 * y1
    <2>1. x1 * y2 \in Nat /\ x2 * y1 \in Nat /\ x2 * y3 \in Nat
        OBVIOUS
    <2>2. x3 * y2 \in Nat /\ x1 * y3 \in Nat /\ x3 * y1 \in Nat
        OBVIOUS
    <2> QED  BY <2>1, <2>2
<1>9. p >= q /\ r >= t => u >= w /\ (p > q \/ r > t => u > w)
    BY <1>7, <1>8
<1>10. /\ BetterValue(a, b) <=> p > q
       /\ BetterValue(b, a) <=> q > p
       /\ BetterValue(b, c) <=> r > t
       /\ BetterValue(c, b) <=> t > r
       /\ BetterValue(a, c) <=> u > w
       /\ BetterValue(c, a) <=> w > u
    BY <1>4, <1>5, <1>6, <1>8
<1> QED  BY <1>9, <1>10 DEF Valued

\* Who comes first, first of all by what it is worth.
First(rows, j, k) ==
    \/ BetterValue(Rated(rows, rows[j]), Rated(rows, rows[k]))
    \/ j < k /\ ~BetterValue(Rated(rows, rows[k]), Rated(rows, rows[j]))

FirstOf(rows) == {e \in (DOMAIN rows) \X (DOMAIN rows) : First(rows, e[1], e[2])}

LEMMA FirstOrders ==
    ASSUME CatalogueAssumption, ListingsAssumption, NEW rows, OfferedOk(rows)
    PROVE  Orders(FirstOf(rows), DOMAIN rows)
<1> DEFINE D == DOMAIN rows
           R == FirstOf(rows)
<1>1. \A j, k \in D : <<j, k>> \in R <=> First(rows, j, k)
    BY DEF FirstOf
<1>2. \A k \in D : k \in Nat /\ RatedOk(Rated(rows, rows[k]))
    BY RatedIs DEF OfferedOk
<1>3. \A j, k, o \in D : Valued(Rated(rows, rows[j]), Rated(rows, rows[k]), Rated(rows, rows[o]))
    BY <1>2, ValueOrders
<1>4. ASSUME NEW k \in D
      PROVE  ~First(rows, k, k)
    <2>1. Valued(Rated(rows, rows[k]), Rated(rows, rows[k]), Rated(rows, rows[k]))
        BY <1>3
    <2>2. k \in Nat
        BY <1>2
    <2> QED  BY <2>1, <2>2 DEF First, Valued
<1>5. ASSUME NEW j \in D, NEW k \in D, j # k
      PROVE  First(rows, j, k) \/ First(rows, k, j)
    <2>1. j < k \/ k < j
        BY <1>2, <1>5
    <2> QED  BY <2>1 DEF First
<1>6. ASSUME NEW j \in D, NEW k \in D, NEW o \in D, First(rows, j, k), First(rows, k, o)
      PROVE  First(rows, j, o)
    <2>1. PICK a, b, c : a = Rated(rows, rows[j]) /\ b = Rated(rows, rows[k]) /\ c = Rated(rows, rows[o])
        OBVIOUS
    <2>2. Valued(a, b, c) /\ Valued(b, c, a)
        BY <1>3, <2>1
    <2>3. j < k /\ k < o => j < o
        BY <1>2
    <2>4. /\ BetterValue(a, b) \/ (j < k /\ ~BetterValue(b, a))
          /\ BetterValue(b, c) \/ (k < o /\ ~BetterValue(c, b))
        BY <1>6, <2>1 DEF First
    <2>5. BetterValue(a, c) \/ (j < o /\ ~BetterValue(c, a))
        BY <2>2, <2>3, <2>4 DEF Valued
    <2> QED  BY <2>1, <2>5 DEF First
<1> HIDE DEF R
<1> QED  BY <1>1, <1>4, <1>5, <1>6 DEF Orders, R

\* What is before another has fewer before it.
LEMMA FewerBefore ==
    ASSUME NEW S, NEW R, IsFiniteSet(S), Orders(R, S), NEW s \in S, NEW t \in S, <<s, t>> \in R
    PROVE  /\ Cardinality(Preds(R, S, s)) \in Nat /\ Cardinality(Preds(R, S, t)) \in Nat
           /\ Cardinality(Preds(R, S, s)) < Cardinality(Preds(R, S, t))
<1>1. PICK P, Q : P = Preds(R, S, s) /\ Q = Preds(R, S, t)
    OBVIOUS
<1>2. P \subseteq S /\ Q \subseteq S /\ s \in Q /\ P \subseteq Q \ {s}
    BY <1>1 DEF Preds, Orders
<1>3. IsFiniteSet(P) /\ IsFiniteSet(Q)
    BY <1>2, FS_Subset
<1>4. IsFiniteSet(Q \ {s}) /\ Cardinality(Q \ {s}) = Cardinality(Q) - 1
    BY <1>2, <1>3, Smaller
<1>5. Cardinality(P) <= Cardinality(Q \ {s})
    BY <1>2, <1>4, FS_Subset
<1>6. Cardinality(P) \in Nat /\ Cardinality(Q) \in Nat
    BY <1>3, FS_CardinalityType
<1> QED  BY <1>1, <1>4, <1>5, <1>6

\* A board is a row of all that were rated, and who is worth more is earlier.
RankedBy(rows, row) ==
    /\ InRow(row, DOMAIN rows)
    /\ DOMAIN RankOf(rows) = 1 .. Cardinality(DOMAIN rows)
    /\ \A n \in 1 .. Cardinality(DOMAIN rows) : RankOf(rows)[n] = Rated(rows, rows[row[n]])
    /\ \A n, m \in 1 .. Cardinality(DOMAIN rows) :
          BetterValue(Rated(rows, rows[row[n]]), Rated(rows, rows[row[m]])) => n < m

LEMMA RanksInTurn ==
    ASSUME CatalogueAssumption, ListingsAssumption, NEW rows, OfferedOk(rows)
    PROVE  \E row : RankedBy(rows, row)
<1> DEFINE D == DOMAIN rows
           R == FirstOf(rows)
           N == Cardinality(D)
<1>1. IsFiniteSet(D) /\ N \in Nat
    BY FS_CardinalityType DEF OfferedOk
<1>2. \A j, k \in D : <<j, k>> \in R <=> First(rows, j, k)
    BY DEF FirstOf
<1>3. Orders(R, D)
    BY FirstOrders
<1>4. \A k \in D : Preds(R, D, k) = {j \in D : First(rows, j, k)}
    <2> HIDE DEF R, D
    <2> QED  BY <1>2 DEF Preds
<1>5. PICK row : row = RowBy(R, D)
    OBVIOUS
<1>6. InRow(row, D)
    BY <1>1, <1>3, <1>5, RowPicked
<1>7. \A n \in 1 .. N : row[n] = CHOOSE k \in D : Cardinality({j \in D : First(rows, j, k)}) = n - 1
    <2>1. \A n \in 1 .. N : row[n] = CHOOSE k \in D : Cardinality(Preds(R, D, k)) = n - 1
        BY <1>5 DEF RowBy
    <2> HIDE DEF R, D, N
    <2>2. \A n : (CHOOSE k \in D : Cardinality(Preds(R, D, k)) = n - 1)
               = (CHOOSE k \in D : Cardinality({j \in D : First(rows, j, k)}) = n - 1)
        BY <1>4
    <2> QED  BY <2>1, <2>2
<1> DEFINE placed == [k \in D |-> Rated(rows, rows[k])]
<1>8. \A k \in D : placed[k] = Rated(rows, rows[k])
    OBVIOUS
<1>9. RankOf(rows)
      = [n \in 1 .. N |->
            placed[CHOOSE k \in D :
                      Cardinality({j \in D : \/ BetterValue(placed[j], placed[k])
                                             \/ j < k /\ ~BetterValue(placed[k], placed[j])}) = n - 1]]
    BY Zenon DEF RankOf
<1>10. \A k \in D : {j \in D : \/ BetterValue(placed[j], placed[k])
                               \/ j < k /\ ~BetterValue(placed[k], placed[j])}
                    = {j \in D : First(rows, j, k)}
    <2> HIDE DEF D, placed
    <2> QED  BY <1>8 DEF First
<1>11. \A n : (CHOOSE k \in D :
                      Cardinality({j \in D : \/ BetterValue(placed[j], placed[k])
                                             \/ j < k /\ ~BetterValue(placed[k], placed[j])}) = n - 1)
             = (CHOOSE k \in D : Cardinality({j \in D : First(rows, j, k)}) = n - 1)
    <2> HIDE DEF D, placed
    <2> QED  BY <1>10
<1>12. DOMAIN RankOf(rows) = 1 .. N /\ \A n \in 1 .. N : RankOf(rows)[n] = Rated(rows, rows[row[n]])
    <2>1. \A n \in 1 .. N : row[n] \in D
        BY <1>6 DEF InRow
    <2> HIDE DEF R, D, N, placed
    <2>2. RankOf(rows) = [n \in 1 .. N |-> placed[CHOOSE k \in D : Cardinality({j \in D : First(rows, j, k)}) = n - 1]]
        BY <1>9, <1>11
    <2>3. DOMAIN RankOf(rows) = 1 .. N
        BY <2>2
    <2>4. ASSUME NEW n \in 1 .. N
          PROVE  RankOf(rows)[n] = Rated(rows, rows[row[n]])
        <3>1. RankOf(rows)[n] = placed[CHOOSE k \in D : Cardinality({j \in D : First(rows, j, k)}) = n - 1]
            BY <2>2
        <3>2. row[n] = CHOOSE k \in D : Cardinality({j \in D : First(rows, j, k)}) = n - 1
            BY <1>7
        <3>3. RankOf(rows)[n] = placed[row[n]]
            BY <3>1, <3>2
        <3> QED  BY <1>8, <2>1, <3>3
    <2> QED  BY <2>3, <2>4
<1>13. \A n \in 1 .. N : row[n] \in D /\ Cardinality(Preds(R, D, row[n])) = n - 1
    <2>1. \A n \in 1 .. N : \E s \in D : Cardinality(Preds(R, D, s)) = n - 1
        BY <1>1, <1>3, PlacesAreOwn
    <2> HIDE DEF R, D, N
    <2> QED  BY <1>5, <2>1 DEF RowBy, N
<1>14. ASSUME NEW n \in 1 .. N, NEW m \in 1 .. N,
              BetterValue(Rated(rows, rows[row[n]]), Rated(rows, rows[row[m]]))
       PROVE  n < m
    <2>1. row[n] \in D /\ row[m] \in D
        BY <1>13
    <2>2. First(rows, row[n], row[m])
        BY <1>14 DEF First
    <2>3. <<row[n], row[m]>> \in R
        BY <1>2, <2>1, <2>2
    <2> HIDE DEF R, D, N
    <2>4. Cardinality(Preds(R, D, row[n])) < Cardinality(Preds(R, D, row[m]))
        BY <1>1, <1>3, <2>1, <2>3, FewerBefore
    <2>5. n - 1 < m - 1
        BY <1>13, <2>4
    <2>6. n \in Int /\ m \in Int
        BY <1>1
    <2> QED  BY <2>5, <2>6
<1> QED  BY <1>6, <1>12, <1>14 DEF RankedBy

\* Nobody on a board dominates whom it recommends.
LEMMA BestIs ==
    ASSUME CatalogueAssumption, ListingsAssumption, NEW rows, OfferedOk(rows)
    PROVE  BestIsRecommended(RankOf(rows))
<1>1. PICK row : RankedBy(rows, row)
    BY RanksInTurn
<1>2. PICK board, N, S : board = RankOf(rows) /\ N = Cardinality(DOMAIN rows) /\ S = Recommendations(board)
    OBVIOUS
<1>3. /\ N \in Nat /\ DOMAIN board = 1 .. N
      /\ \A n \in 1 .. N : row[n] \in DOMAIN rows /\ board[n] = Rated(rows, rows[row[n]])
      /\ \A n, m \in 1 .. N : BetterValue(board[n], board[m]) => n < m
    BY SMTT(30), <1>1, <1>2 DEF RankedBy, InRow
<1> SUFFICES ASSUME S # {}, NEW n \in DOMAIN board, Dominates(board[n], board[Min(S)])
             PROVE  FALSE
    BY <1>2 DEF BestIsRecommended, Recommended
<1>4. S \subseteq 1 .. N /\ \A k \in 1 .. N : k \in S <=> Recommendable(board[k])
    BY <1>2, <1>3 DEF Recommendations
<1>5. PICK b \in S : \A o \in S : b <= o
    <2>1. S \subseteq Nat
        BY <1>4
    <2> QED  BY <2>1, LeastOf
<1>6. Min(S) = b
    <2>1. Min(S) = CHOOSE x \in S : \A y \in S : x <= y
        BY DEF Min
    <2>2. Min(S) \in S /\ \A y \in S : Min(S) <= y
        BY <1>5, <2>1
    <2>3. Min(S) \in Int /\ b \in Int
        BY <1>3, <1>4, <2>2
    <2> QED  BY <1>5, <2>2, <2>3
<1>7. PICK j, k : j = row[n] /\ k = row[b]
    OBVIOUS
<1>8. /\ n \in 1 .. N /\ b \in 1 .. N /\ j \in DOMAIN rows /\ k \in DOMAIN rows
      /\ board[n] = Rated(rows, rows[j]) /\ board[b] = Rated(rows, rows[k])
    BY <1>3, <1>4, <1>7
<1>9. PICK e, f : e = Rated(rows, rows[j]) /\ f = Rated(rows, rows[k])
    OBVIOUS
<1>10. RatedOk(e) /\ RatedOk(f)
    BY <1>8, <1>9, RatedIs
<1>11. Recommendable(f) /\ Dominates(e, f)
    BY <1>4, <1>6, <1>8, <1>9
<1>12. PICK x \in Nat, s \in Nat \ {0}, l \in Nat \ {0} :
           x = f.blend /\ s = f.share /\ l = MinCapability * Unit
    <2>1. PICK c \in Nat \ {0}, u \in Nat \ {0} : c = MinCapability /\ u = Unit
        BY DEF ListingsAssumption
    <2>2. c * u \in Nat \ {0}
        OBVIOUS
    <2>3. f.blend \in Nat /\ f.share \in Nat \ {0}
        BY <1>10 DEF RatedOk
    <2> QED  BY <2>1, <2>2, <2>3
<1>13. Cardinality(DOMAIN f.percentiles) >= MinIndices /\ x >= l * s
    BY <1>11, <1>12 DEF Recommendable
<1>14. f.blend > 0
    <2>1. l * s \in Nat \ {0}
        OBVIOUS
    <2> QED  BY <1>12, <1>13, <2>1
<1>15. /\ BetterValue(e, f) /\ e.share = f.share /\ e.blend >= f.blend
       /\ DOMAIN e.percentiles = DOMAIN f.percentiles
    <2>1. Dominates(Rated(rows, rows[j]), Rated(rows, rows[k]))
        BY <1>9, <1>11
    <2>2. Rated(rows, rows[k]).blend > 0
        BY <1>9, <1>14
    <2>3. j \in DOMAIN rows /\ k \in DOMAIN rows
        BY <1>8
    <2>4. /\ BetterValue(Rated(rows, rows[j]), Rated(rows, rows[k]))
          /\ Rated(rows, rows[j]).share = Rated(rows, rows[k]).share
          /\ Rated(rows, rows[j]).blend >= Rated(rows, rows[k]).blend
          /\ DOMAIN Rated(rows, rows[j]).percentiles = DOMAIN Rated(rows, rows[k]).percentiles
        BY ZenonT(30), <2>1, <2>2, <2>3, DominatesWins
    <2> QED  BY <1>9, <2>4
<1>16. n < b
    BY <1>3, <1>8, <1>9, <1>15
<1>17. Recommendable(e)
    <2>1. e.blend \in Nat
        BY <1>10 DEF RatedOk
    <2>2. e.blend >= l * s
        <3>1. PICK p \in Nat : p = l * s
            <4>1. l * s \in Nat
                OBVIOUS
            <4> QED  BY <4>1
        <3>2. PICK y \in Nat : y = e.blend
            BY <2>1
        <3>3. y >= x
            BY <1>12, <1>15, <3>2
        <3>4. x >= p
            BY <1>13, <3>1
        <3>5. y >= p
            BY <3>3, <3>4
        <3> QED  BY <3>1, <3>2, <3>5
    <2> QED  BY <1>12, <1>13, <1>15, <2>2 DEF Recommendable
<1>18. n \in S
    BY <1>4, <1>8, <1>9, <1>17
<1> QED  BY <1>5, <1>8, <1>16, <1>18

\* The places of a board are those of its fields.
LEMMA BoardIsEven ==
    ASSUME CatalogueAssumption, ListingsAssumption, NEW rows, OfferedOk(rows)
    PROVE  FieldAveragesFifty(RankOf(rows))
<1>1. PICK row : RankedBy(rows, row)
    BY RanksInTurn
<1>2. PICK board, N : board = RankOf(rows) /\ N = Cardinality(DOMAIN rows)
    OBVIOUS
<1>3. /\ N \in Nat /\ DOMAIN board = 1 .. N
      /\ \A n \in 1 .. N : row[n] \in DOMAIN rows /\ board[n] = Rated(rows, rows[row[n]])
      /\ \A n, m \in 1 .. N : row[n] = row[m] => n = m
      /\ \A k \in DOMAIN rows : \E n \in 1 .. N : row[n] = k
    BY <1>1, <1>2 DEF RankedBy, InRow
<1> SUFFICES ASSUME NEW i \in Indices
             PROVE  LET placed == {n \in DOMAIN board : i \in DOMAIN board[n].percentiles}
                    IN  AddedUp([n \in placed |-> board[n].percentiles[i]])
                        = 50 * Unit * Cardinality(placed)
    BY <1>2 DEF FieldAveragesFifty
<1> DEFINE placed == {n \in DOMAIN board : i \in DOMAIN board[n].percentiles}
           f == [n \in placed |-> board[n].percentiles[i]]
           M == Measured(rows, i)
           P == PlacesFor(rows, i)
<1>4. ASSUME NEW n \in 1 .. N
      PROVE  board[n].percentiles = PlacesBy(rows, row[n])
    <2>1. PICK k : k = row[n]
        OBVIOUS
    <2>2. Rated(rows, rows[k]).percentiles = PlacesBy(rows, k)
        BY RatedAs
    <2> QED  BY <1>3, <2>1, <2>2
<1>5. \A n \in 1 .. N : n \in placed <=> row[n] \in M
    BY <1>3, <1>4 DEF PlacesBy, Measured
<1>6. placed \subseteq 1 .. N /\ IsFiniteSet(placed)
    <2>1. placed \subseteq 1 .. N
        BY <1>3
    <2>2. IsFiniteSet(1 .. N)
        BY <1>3, FS_Interval
    <2> HIDE DEF placed
    <2> QED  BY <2>1, <2>2, FS_Subset
<1>7. ASSUME NEW n \in placed
      PROVE  f[n] = P[row[n]] /\ f[n] \in Int
    <2>1. n \in 1 .. N /\ row[n] \in M /\ row[n] \in DOMAIN rows
        BY <1>3, <1>5, <1>6
    <2>2. f[n] = PlacesBy(rows, row[n])[i]
        BY <1>4, <2>1
    <2>3. i \in DOMAIN rows[row[n]].marks
        BY <2>1 DEF Measured
    <2>4. /\ PlacesBy(rows, row[n])[i] = P[row[n]]
          /\ PlacesBy(rows, row[n])[i] \in Nat
        <3>1. PICK k \in DOMAIN rows : k = row[n]
            BY <2>1
        <3>2. i \in DOMAIN rows[k].marks
            BY <2>3, <3>1
        <3>3. PlacesBy(rows, k)[i] = PlacesFor(rows, i)[k] /\ PlacesBy(rows, k)[i] \in Nat
            <4>1. \A o \in DOMAIN rows[k].marks : PlacedOk(rows, k, o)
                BY RatedIs
            <4> QED  BY <3>2, <4>1 DEF PlacedOk
        <3> QED  BY <3>1, <3>3
    <2> QED  BY <2>2, <2>4
<1>8. {row[n] : n \in placed} = M
    <2>1. M \subseteq DOMAIN rows
        BY DEF Measured
    <2> HIDE DEF M, placed
    <2> QED  BY SMTT(30), <1>3, <1>5, <1>6, <2>1
<1>9. SumOf(f, placed) = SumOf(P, M)
    <2>1. \A n, m \in placed : row[n] = row[m] => n = m
        BY <1>3, <1>6
    <2> HIDE DEF f, P, M, placed
    <2>2. SumOf(f, placed) = SumOf(P, {row[n] : n \in placed})
        <3>1. PICK g, e, S : g = f /\ e = P /\ S = placed
            OBVIOUS
        <3>2. IsFiniteSet(S)
            BY <1>6, <3>1
        <3>4. \A x \in S : g[x] \in Int /\ g[x] = e[row[x]]
            BY <1>7, <3>1
        <3>5. \A x, y \in S : row[x] = row[y] => x = y
            BY <2>1, <3>1
        <3>3. SumOf(g, S) = SumOf(e, {row[x] : x \in S})
            BY ONLY <3>2, <3>4, <3>5, SumRenamed
        <3> QED  BY <3>1, <3>3
    <2> QED  BY <1>8, <2>2
<1>10. Cardinality(placed) = Cardinality(M)
    <2> DEFINE h == [n \in placed |-> row[n]]
    <2>1. \A n, m \in placed : row[n] = row[m] => n = m
        BY <1>3, <1>6
    <2> HIDE DEF placed, M
    <2>2. h \in [placed -> M]
        BY <1>8
    <2>3. \A k \in M : \E n \in placed : h[n] = k
        BY <1>8
    <2>4. \A n, m \in placed : h[n] = h[m] => n = m
        BY <2>1
    <2> HIDE DEF h
    <2>5. h \in Surjection(placed, M) /\ h \in Injection(placed, M)
        BY <2>2, <2>3, <2>4 DEF Surjection, Injection, IsInjective
    <2> QED  BY <1>6, <2>5, FS_Surjection
<1>11. SumOf(P, M) = 50 * Unit * Cardinality(M)
    BY FieldIsEven DEF FieldAverages
<1>12. AddedUp(f) = SumOf(f, placed)
    <2>1. \A g : AddedUp(g) = SumOf(g, DOMAIN g)
        BY Zenon DEF AddedUp, SumOf
    <2>2. DOMAIN f = placed
        OBVIOUS
    <2> HIDE DEF f, placed
    <2> QED  BY <2>1, <2>2
<1> HIDE DEF f, M, P
<1> QED  BY <1>9, <1>10, <1>11, <1>12 DEF f

-----------------------------------------------------------------------------
(* What a request reads.                                                   *)

Fair(board) == BestIsRecommended(board) /\ FieldAveragesFifty(board)

\* The boards there are.
Boards == {<<>>} \cup {Catalogued[rows] : rows \in Listings}

LEMMA BoardsFair ==
    ASSUME CatalogueAssumption, ListingsAssumption, NEW board \in Boards
    PROVE  Fair(board)
<1>1. CASE board = <<>>
    <2>1. DOMAIN board = {}
        BY <1>1
    <2>2. Recommendations(board) = {}
        BY <2>1 DEF Recommendations
    <2>3. ASSUME NEW i \in Indices, NEW placed, placed = {n \in DOMAIN board : i \in DOMAIN board[n].percentiles}
          PROVE  AddedUp([n \in placed |-> board[n].percentiles[i]]) = 50 * Unit * Cardinality(placed)
        <3>1. placed = {} /\ IsFiniteSet({}) /\ Cardinality({}) = 0
            BY <2>1, <2>3, FS_EmptySet
        <3>2. PICK f : f = [n \in placed |-> board[n].percentiles[i]]
            OBVIOUS
        <3>3. AddedUp(f) = SumOf(f, DOMAIN f)
            BY Zenon DEF AddedUp, SumOf
        <3>4. DOMAIN f = {}
            BY <3>1, <3>2
        <3>5. SumOf(f, {}) = 0
            BY <3>1, SumOver
        <3>6. Unit \in Nat
            BY DEF ListingsAssumption
        <3> QED  BY <3>1, <3>2, <3>3, <3>4, <3>5, <3>6
    <2> QED  BY <2>2, <2>3 DEF Fair, BestIsRecommended, FieldAveragesFifty
<1>2. ASSUME NEW rows \in Listings, board = Catalogued[rows]
      PROVE  Fair(board)
    <2>1. board = RankOf(Eligible(rows))
        BY <1>2 DEF Catalogued
    <2>2. OfferedOk(Eligible(rows))
        BY EligibleIs
    <2> QED  BY <2>1, <2>2, BestIs, BoardIsEven DEF Fair
<1> QED  BY <1>1, <1>2 DEF Boards

\* What is cached and what a request has is nothing, or what OpenRouter once listed.
BoardsAreListed ==
    /\ cached \in Boards
    /\ \A c \in Clients : clients[c].list \in Boards

LEMMA OneBoardMoves ==
    ASSUME CatalogueInv, BoardsAreListed, NEW c \in Clients, NEW r, r.list \in Boards,
           clients' = [clients EXCEPT ![c] = r], cached' \in Boards
    PROVE  BoardsAreListed'
<1>1. DOMAIN clients = Clients
    BY DEF CatalogueInv
<1>2. \A d \in Clients : clients'[d] = IF d = c THEN r ELSE clients[d]
    BY <1>1
<1> QED  BY <1>2 DEF BoardsAreListed, Boards

LEMMA ListsAreKept ==
    ASSUME CatalogueInv, BoardsAreListed, NEW c \in Clients,
           \/ \E at : Moves(c, at) /\ cached' = cached
           \/ \E list \in Boards : \E stale : Hands(c, list, stale) /\ cached' = cached
           \/ \E purpose, choice, at : Reading(c, purpose, choice, at) /\ cached' = cached
    PROVE  BoardsAreListed'
<1>1. clients[c].list \in Boards /\ cached \in Boards /\ DOMAIN clients = Clients
      /\ DOMAIN clients[c] = DOMAIN NotAsked
    BY DEF BoardsAreListed, CatalogueInv, ClientIsTimed
<1>2. "list" \in DOMAIN NotAsked /\ NotAsked.list = <<>> /\ <<>> \in Boards
    BY DEF NotAsked, Boards
<1>3. ASSUME NEW at, Moves(c, at), cached' = cached
      PROVE  BoardsAreListed'
    <2>1. PICK r : r = [clients[c] EXCEPT !.at = at]
        OBVIOUS
    <2>2. r.list = clients[c].list
        BY <1>1, <1>2, <2>1
    <2>3. clients' = [clients EXCEPT ![c] = r]
        BY <1>1, <1>3, <2>1 DEF Moves
    <2> QED  BY <1>1, <1>3, <2>2, <2>3, OneBoardMoves
<1>4. ASSUME NEW list \in Boards, NEW stale, Hands(c, list, stale), cached' = cached
      PROVE  BoardsAreListed'
    <2>1. PICK r : r = [clients[c] EXCEPT !.at = "read", !.list = list, !.sent = 0, !.stale = stale]
        OBVIOUS
    <2>2. r.list = list
        BY <1>1, <1>2, <2>1
    <2>3. clients' = [clients EXCEPT ![c] = r]
        BY <1>1, <1>4, <2>1 DEF Hands
    <2> QED  BY <1>1, <1>4, <2>2, <2>3, OneBoardMoves
<1>5. ASSUME NEW purpose, NEW choice, NEW at, Reading(c, purpose, choice, at), cached' = cached
      PROVE  BoardsAreListed'
    <2>1. PICK r : r = [NotAsked EXCEPT !.for = purpose, !.choice = choice,
                                        !.round = clients[c].round,
                                        !.rounds = clients[c].rounds, !.at = at]
        OBVIOUS
    <2>2. r.list = <<>>
        BY <1>2, <2>1 DEF NotAsked
    <2>3. clients' = [clients EXCEPT ![c] = r]
        BY <1>5, <2>1 DEF Reading
    <2> QED  BY <1>1, <1>2, <1>5, <2>2, <2>3, OneBoardMoves
<1> QED  BY <1>3, <1>4, <1>5

LEMMA BoardsStayListed ==
    ASSUME CatalogueInv, BoardsAreListed, [CatalogueNext]_catalogueVars
    PROVE  BoardsAreListed'
<1>1. cached \in Boards /\ \A c \in Clients : clients[c].list \in Boards
    BY DEF BoardsAreListed
<1>2. <<>> \in Boards /\ Catalogued[listing] \in Boards
    BY DEF Boards, CatalogueInv, CacheIsTimed
<1>3. ASSUME NEW c \in Clients
      PROVE  DOMAIN clients[c] = DOMAIN NotAsked /\ DOMAIN clients = Clients
    BY DEF CatalogueInv, ClientIsTimed
<1>4. ASSUME NEW c \in Clients, LooksAtCache(c) PROVE BoardsAreListed'
    <2>1. cached' = cached
        BY <1>4 DEF LooksAtCache
    <2>2. CASE Moves(c, "return")
        BY <2>1, <2>2, ListsAreKept
    <2>3. CASE clients' = [clients EXCEPT ![c].at = "fetch", ![c].list = Catalogued[listing], ![c].sent = time]
        <3>1. PICK r : r = [clients[c] EXCEPT !.at = "fetch", !.list = Catalogued[listing], !.sent = time]
            OBVIOUS
        <3>2. r.list = Catalogued[listing]
            BY <1>3, <3>1 DEF NotAsked
        <3>3. clients' = [clients EXCEPT ![c] = r]
            BY <1>3, <2>3, <3>1
        <3> QED  BY <1>1, <1>2, <2>1, <3>2, <3>3, OneBoardMoves
    <2> QED  BY <1>4, <2>2, <2>3 DEF LooksAtCache
<1>5. ASSUME NEW c \in Clients, ReturnsCached(c) PROVE BoardsAreListed'
    <2>1. Hands(c, cached, FALSE) /\ cached' = cached
        BY <1>5 DEF ReturnsCached
    <2> QED  BY <1>1, <2>1, ListsAreKept
<1>6. ASSUME NEW c \in Clients, FetchFails(c) PROVE BoardsAreListed'
    <2>1. Hands(c, cached, TRUE) /\ cached' = cached
        BY <1>6 DEF FetchFails
    <2> QED  BY <1>1, <2>1, ListsAreKept
<1>7. ASSUME NEW c \in Clients, StoresTime(c) PROVE BoardsAreListed'
    <2>1. Hands(c, clients[c].list, FALSE) /\ cached' = cached
        BY <1>7 DEF StoresTime
    <2> QED  BY <1>1, <2>1, ListsAreKept
<1>8. ASSUME NEW c \in Clients, StoresList(c) PROVE BoardsAreListed'
    <2>1. Moves(c, "stamp") /\ cached' = clients[c].list
        BY <1>8 DEF StoresList
    <2>2. PICK r : r = [clients[c] EXCEPT !.at = "stamp"]
        OBVIOUS
    <2>3. r.list = clients[c].list
        BY <1>3, <2>2 DEF NotAsked
    <2>4. clients' = [clients EXCEPT ![c] = r]
        BY <1>3, <2>1, <2>2 DEF Moves
    <2> QED  BY <1>1, <2>1, <2>3, <2>4, OneBoardMoves
<1>9. ASSUME NEW c \in Clients, NEW picked, BeginsWith(c, picked) PROVE BoardsAreListed'
    <2>1. cached' = cached /\ \E purpose, choice, at : Reading(c, purpose, choice, at)
        BY <1>9 DEF BeginsWith
    <2> QED  BY <2>1, ListsAreKept
<1>10. ASSUME NEW c \in Clients, Rechecks(c) PROVE BoardsAreListed'
    <2>1. cached' = cached /\ \E purpose, choice, at : Reading(c, purpose, choice, at)
        BY <1>10 DEF Rechecks
    <2> QED  BY <2>1, ListsAreKept
<1>11. ASSUME NEW c \in Clients, Routes(c) PROVE BoardsAreListed'
    <2>1. cached' = cached /\ \E purpose, choice, at : Reading(c, purpose, choice, at)
        BY <1>11 DEF Routes
    <2> QED  BY <2>1, ListsAreKept
<1>12. ASSUME NEW c \in Clients, NextRound(c) PROVE BoardsAreListed'
    <2>1. cached' = cached /\ \E purpose, choice, at : Reading(c, purpose, choice, at)
        BY <1>12 DEF NextRound
    <2> QED  BY <2>1, ListsAreKept
<1>13. ASSUME NEW c \in Clients, NEW slug, Chooses(c, slug) PROVE BoardsAreListed'
    <2>1. /\ cached' = cached
          /\ clients' = clients \/ \E purpose, choice, at : Reading(c, purpose, choice, at)
        BY <1>13 DEF Chooses
    <2>2. CASE clients' = clients
        BY <1>1, <2>1, <2>2 DEF BoardsAreListed, Boards
    <2> QED  BY <2>1, <2>2, ListsAreKept
<1>14. ASSUME NEW c \in Clients, SendsRound(c) \/ Draws(c) \/ Records(c) \/ Replied(c) PROVE BoardsAreListed'
    <2>1. cached' = cached
        BY <1>14 DEF SendsRound, Draws, Records, Replied
    <2>2. \E r : r.list = <<>> /\ clients' = [clients EXCEPT ![c] = r]
        <3>1. ASSUME NEW model, SendsTo(c, model)
              PROVE  \E r : r.list = <<>> /\ clients' = [clients EXCEPT ![c] = r]
            BY <3>1 DEF SendsTo, NotAsked
        <3>2. CASE SendsRound(c)
            BY <3>1, <3>2 DEF SendsRound
        <3>3. CASE Draws(c)
            BY <3>3 DEF Draws, NotAsked
        <3>4. CASE Records(c) \/ Replied(c)
            BY <3>4 DEF Records, Replied, NotAsked
        <3> QED  BY <1>14, <3>2, <3>3, <3>4
    <2>3. PICK r : r.list = <<>> /\ clients' = [clients EXCEPT ![c] = r]
        BY <2>2
    <2> QED  BY <1>1, <1>2, <2>1, <2>3, OneBoardMoves
<1>15. CASE clients' = clients /\ cached' = cached
    BY <1>1, <1>15 DEF BoardsAreListed, Boards
<1>16. ASSUME NEW rows \in Listings, ListingShifts(rows) PROVE BoardsAreListed'
    BY <1>15, <1>16 DEF ListingShifts
<1>17. CASE TimePasses
    BY <1>15, <1>17 DEF TimePasses
<1>18. CASE UNCHANGED catalogueVars
    BY <1>15, <1>18 DEF catalogueVars
<1> QED  BY <1>4, <1>5, <1>6, <1>7, <1>8, <1>9, <1>10, <1>11, <1>12, <1>13, <1>14, <1>16, <1>17, <1>18
         DEF CatalogueNext

\* Every board that a request reads is a fair one: what it recommends is dominated by
\* nobody on it, and the places of each field average fifty, for listings of any length and
\* marks, any weights and prices, and however requests overlap on the cache.
THEOREM BoardsAreFair == CatalogueSpec => []BoardIsFair
<1>1. CatalogueInit => BoardsAreListed
    BY DEF CatalogueInit, BoardsAreListed, Boards, NotAsked
<1>2. CatalogueInv /\ BoardsAreListed => BoardIsFair
    BY CatalogueAssumption, ListingsAssumption, BoardsFair DEF BoardsAreListed, BoardIsFair, Fair
<1>3. CatalogueInv /\ BoardsAreListed /\ [CatalogueNext]_catalogueVars => BoardsAreListed'
    BY BoardsStayListed
<1> QED  BY <1>1, <1>2, <1>3, CatalogueInvInit, CatalogueInvNext, PTL DEF CatalogueSpec
=============================================================================
