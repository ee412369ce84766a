------------------------------ MODULE ReadQuota ------------------------------
(***************************************************************************)
(* The bucket of Panasonic reads in Redis (the script of                   *)
(* DistributedReadQuota in core/resilience.py).  It is kept as a level and *)
(* the time of its last update; a script that runs later adds what has     *)
(* refilled since, and the key disappears when nobody uses it for a while. *)
(* One tick refills one unit and a read costs Cost units.                  *)
(***************************************************************************)
EXTENDS Naturals

CONSTANTS Capacity,   \* units of a full bucket
          Cost,       \* units of one read
          ManualKeep, \* units that a manual refresh must leave
          TTL,        \* ticks after which an unused key expires
          Horizon     \* bound: ticks

VARIABLES now,
          key,        \* [level, at] or the empty record of an expired key
          spent       \* history: units spent in all by the end of each tick

quotaVars == <<now, key, spent>>

Fresh == [level |-> Capacity, at |-> 0, live |-> FALSE]

Init == /\ now = 1
        /\ key = Fresh
        /\ spent = [t \in 0..Horizon |-> 0]

Least(a, b) == IF a < b THEN a ELSE b

\* The level the script computes: a missing key is a full bucket.
Level == IF key.live THEN Least(Capacity, key.level + (now - key.at)) ELSE Capacity

Stores(level) == key' = [level |-> level, at |-> now, live |-> TRUE]

\* reserve: one read, or two at once that leave a rest.  A refusal stores
\* the level as well, and so does a snapshot.
Reserve(cost, keep) ==
    /\ IF Level >= cost + keep
       THEN Stores(Level - cost) /\ spent' = [spent EXCEPT ![now] = @ + cost]
       ELSE Stores(Level) /\ UNCHANGED spent
    /\ UNCHANGED now

Background == Reserve(Cost, 0)
Manual == Reserve(2 * Cost, ManualKeep)
Snapshot == Stores(Level) /\ UNCHANGED <<now, spent>>

\* Time passes; the key expires TTL ticks after its last use.
Expired == key.live /\ now + 1 - key.at > TTL

Tick == /\ now < Horizon
        /\ now' = now + 1
        /\ key' = IF Expired THEN Fresh ELSE key
        /\ spent' = [spent EXCEPT ![now + 1] = spent[now]]

Next == Background \/ Manual \/ Snapshot \/ Tick

Spec == Init /\ [][Next]_quotaVars

(***************************************************************************)
(* The types of the bucket and its history.                                *)
(***************************************************************************)
TypeOK == /\ now \in 1..Horizon
          /\ key \in [level : 0..Capacity, at : 0..Horizon, live : BOOLEAN]
          /\ key.at <= now
          /\ spent \in [0..Horizon -> Nat]

(***************************************************************************)
(* In every stretch of time at most a full bucket and what refills in it   *)
(* is spent: idle time does not accumulate beyond the capacity, and the    *)
(* expiry of the key, which restores a full bucket, gives nothing that     *)
(* waiting would not have given, because it comes after a full refill      *)
(* (_TTL_SECONDS is twice the hour in which the bucket fills).             *)
(***************************************************************************)
SpendingIsBounded ==
    \A i \in 1..now : \A j \in i..now : spent[j] - spent[i - 1] <= Capacity + (j - i)

=============================================================================
