------------------------------- MODULE Startup ------------------------------
(***************************************************************************)
(* What a container does to the database before it serves                  *)
(* (boot/startup.py, migrate.py, partitions.py): the migrations of its     *)
(* image that are not recorded, in the order of their names, and a         *)
(* partition of each year that has none, under a lock that goes with the   *)
(* connection.                                                             *)
(*                                                                         *)
(* One table stands for the partitioned ones.  A year is two halves, so    *)
(* that it can be covered in part.  The password of the playground's role  *)
(* is left out: nothing waits for it.                                      *)
(***************************************************************************)
EXTENDS Integers, Sequences, FiniteSets

CONSTANTS
    Containers,
    Releases,       \* what an image may ship: sets of the numbers of migrations
    FirstYear,      \* PARTITION_START_YEAR
    HeadroomYears,  \* PARTITION_HEADROOM_YEARS
    LastYear,       \* bound: the calendar
    MaxBoots        \* bound: containers that start

ASSUME StartupAssumption ==
    /\ Releases \subseteq SUBSET Nat
    /\ {FirstYear, HeadroomYears, LastYear, MaxBoots} \subseteq Nat

VARIABLES
    year,       \* date.today().year
    applied,    \* schema_migration, in the order it was written
    attached,   \* the partitions: sets of halves
    byHand,     \* ghost: the years an operator partitions himself
    holder,     \* MIGRATION_LOCK_ID: the container whose connection has it, or none
    boot,       \* each container
    boots       \* how many have started

startupVars == <<year, applied, attached, byHand, holder, boot, boots>>

Down == [at |-> "down"]
Applied == {applied[k] : k \in DOMAIN applied}

Halves(y) == {2 * y, 2 * y + 1}

StartupInit ==
    /\ year \in FirstYear .. LastYear
    /\ applied = <<>>
    /\ attached = {}
    /\ byHand = {}
    /\ holder = {}
    /\ boot = [c \in Containers |-> Down]
    /\ boots = 0

-----------------------------------------------------------------------------
(* prepare_database.                                                       *)

Starts(c, ships) ==
    /\ boot[c] = Down
    /\ boots < MaxBoots
    /\ boot' = [boot EXCEPT ![c] = [at |-> "wait", ships |-> ships, todo |-> {},
                                    next |-> FirstYear, through |-> FirstYear,
                                    missing |-> FALSE]]
    /\ boots' = boots + 1
    /\ UNCHANGED <<year, applied, attached, byHand, holder>>

\* Mutant: the lock is not waited for.
LocksAnyway(c) ==
    /\ boot[c].at = "wait"
    /\ holder' = {c}
    /\ boot' = [boot EXCEPT ![c].at = "read"]
    /\ UNCHANGED <<year, applied, attached, byHand, boots>>

\* pg_advisory_lock: waits for its holder.
Locks(c) ==
    /\ boot[c].at = "wait"
    /\ holder = {}
    /\ holder' = {c}
    /\ boot' = [boot EXCEPT ![c].at = "read"]
    /\ UNCHANGED <<year, applied, attached, byHand, boots>>

\* applied_versions: read once, before the first is applied.
ReadsApplied(c) ==
    /\ boot[c].at = "read"
    /\ boot' = [boot EXCEPT ![c].at = "migrate", ![c].todo = boot[c].ships \ Applied]
    /\ UNCHANGED <<year, applied, attached, byHand, holder, boots>>

\* The connection is closed, by what is raised, by main or by a signal, and the lock
\* goes with it: what was under way is rolled back.
BootEnds(c) ==
    /\ boot' = [boot EXCEPT ![c] = Down]
    /\ holder' = holder \ {c}
    /\ UNCHANGED <<year, applied, attached, byHand, boots>>

Dies(c) == boot[c] # Down /\ BootEnds(c)

\* The next migration and its record, in one transaction; one that is there already
\* cannot be made again.
Migrates(c) ==
    /\ boot[c].at = "migrate"
    /\ \E version \in boot[c].todo :
          /\ \A other \in boot[c].todo : version <= other
          /\ IF version \in Applied THEN BootEnds(c)
             ELSE /\ applied' = Append(applied, version)
                  /\ boot' = [boot EXCEPT ![c].todo = @ \ {version}]
                  /\ UNCHANGED <<year, attached, byHand, holder, boots>>

\* through_year: the year it is when the migrations are done, and the headroom.
Migrated(c) ==
    /\ boot[c].at = "migrate"
    /\ boot[c].todo = {}
    /\ boot' = [boot EXCEPT ![c].at = "look", ![c].through = year + HeadroomYears]
    /\ UNCHANGED <<year, applied, attached, byHand, holder, boots>>

Overlaps(halves) == \E p \in attached : p \cap halves # {}

\* _year_covered: by any partition, of any part of it.
LooksAtYear(c) ==
    /\ boot[c].at = "look"
    /\ boot[c].next <= boot[c].through
    /\ boot' = [boot EXCEPT ![c].at = "create",
                            ![c].missing = ~Overlaps(Halves(boot[c].next))]
    /\ UNCHANGED <<year, applied, attached, byHand, holder, boots>>

\* ... and the partition it has not, unless somebody has made one since.
CreatesYear(c) ==
    /\ boot[c].at = "create"
    /\ LET halves == Halves(boot[c].next)
       IN  IF boot[c].missing /\ Overlaps(halves) THEN BootEnds(c)
           ELSE /\ attached' = IF boot[c].missing THEN attached \cup {halves} ELSE attached
                /\ boot' = [boot EXCEPT ![c].at = "look", ![c].next = @ + 1]
                /\ UNCHANGED <<year, applied, byHand, holder, boots>>

\* Every year was looked at: the lock is given back, and the container serves.
Serves(c) ==
    /\ boot[c].at = "look"
    /\ boot[c].next > boot[c].through
    /\ boot' = [boot EXCEPT ![c].at = "serve"]
    /\ holder' = holder \ {c}
    /\ UNCHANGED <<year, applied, attached, byHand, boots>>

-----------------------------------------------------------------------------
(* External: the calendar, and an operator who partitions by month.        *)

YearPasses ==
    /\ year < LastYear
    /\ year' = year + 1
    /\ UNCHANGED <<applied, attached, byHand, holder, boot, boots>>

PartitionsByHand(half) ==
    /\ ~Overlaps({half})
    /\ attached' = attached \cup {{half}}
    /\ byHand' = byHand \cup {half \div 2}
    /\ UNCHANGED <<year, applied, holder, boot, boots>>

StartupNext ==
    \/ \E c \in Containers :
          \/ \E ships \in Releases : Starts(c, ships)
          \/ Locks(c) \/ ReadsApplied(c) \/ Migrates(c) \/ Migrated(c)
          \/ LooksAtYear(c) \/ CreatesYear(c) \/ Serves(c) \/ Dies(c)
    \/ YearPasses
    \/ \E half \in 2 * FirstYear .. 2 * LastYear + 1 : PartitionsByHand(half)

StartupSpec == StartupInit /\ [][StartupNext]_startupVars

-----------------------------------------------------------------------------
(* What must hold.                                                         *)

\* No migration runs twice, and none is found to have run by somebody else: "both
\* would see version N as unapplied and both run its CREATE TABLE".
\* (prepare_database, apply_migrations)
MigrationsRunOnce ==
    /\ \A j, k \in DOMAIN applied : applied[j] = applied[k] => j = k
    /\ \A c \in Containers : boot[c].at = "migrate" => boot[c].todo \cap Applied = {}

\* A container that serves has the schema it was written for, and until the headroom
\* is used up "a missing partition never becomes a failed insert at midnight on
\* 1 January", but in a year an operator has taken on himself.
\* (prepare_database, ensure_partitions)
ServedIsPrepared ==
    \A c \in Containers :
        boot[c].at = "serve" =>
            /\ boot[c].ships \subseteq Applied
            /\ \A y \in (FirstYear .. boot[c].through) \ byHand : Halves(y) \in attached

\* Partitions of one table do not overlap, whoever makes them.
PartitionsAreApart == \A p, q \in attached : p # q => p \cap q = {}

StartsWhole == MigrationsRunOnce /\ ServedIsPrepared /\ PartitionsAreApart
=============================================================================
