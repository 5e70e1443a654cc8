------------------------------ MODULE BanList ------------------------------
(***************************************************************************)
(* The hub's ban list: /ban turns minutes into a duration and BanFor       *)
(* stores an expiry under a lock; IsBanned reads the entry under one lock, *)
(* decides with the clock outside any lock, and deletes an expired entry   *)
(* under another.                                                          *)
(***************************************************************************)
EXTENDS Integers

CONSTANTS
  Name,        \* user names
  Caller,      \* goroutines that call IsBanned
  Minutes,     \* the minutes /ban is given; 0, or none given: for ever
  Minute,      \* a minute, in clock units
  Half,        \* durations are integers from -Half to Half - 1
  MaxTime      \* bound: when the clock stops

ASSUME BanAssumption ==
  /\ Minutes \subseteq Nat /\ Minute \in Nat \ {0}
  /\ Half \in Nat \ {0} /\ MaxTime \in Nat

\* An entry is absent, permanent (the zero time) or the time it expires.
None == -1
Forever == -2
Until == Nat \cup {None, Forever}

VARIABLES
  now,      \* the clock
  banned,   \* Hub.banned
  call,     \* what each caller is doing
  seen,     \* history: the name was banned at some time since the call began
  quiet,    \* history: nobody has called BanFor for the name since the call began
  asked,    \* history: until when the last /ban of the name was meant to hold
  plain     \* history: nothing stood in the way of that /ban

history == <<seen, quiet, asked, plain>>
vars == <<now, banned, call, history>>

\* A call returns at "true" or "false"; until is what it read.
CallState == [pc : {"idle", "check", "delete", "true", "false"},
              name : Name, until : Until]

TypeOK ==
  /\ now \in 0..MaxTime
  /\ banned \in [Name -> Until]
  /\ call \in [Caller -> CallState]
  /\ seen \in [Caller -> BOOLEAN]
  /\ quiet \in [Caller -> BOOLEAN]
  /\ asked \in [Name -> Until]
  /\ plain \in [Name -> BOOLEAN]

Active(u, t) == u = Forever \/ u > t

Init ==
  /\ now = 0
  /\ banned = [n \in Name |-> None]
  /\ call \in [Caller -> {[pc |-> "idle", name |-> n, until |-> None] : n \in Name}]
  /\ seen = [c \in Caller |-> FALSE]
  /\ quiet = [c \in Caller |-> FALSE]
  /\ asked = [n \in Name |-> None]
  /\ plain = [n \in Name |-> TRUE]

\* A caller may have seen a ban that holds at the end of a step.
Observe ==
  seen' = [c \in Caller |-> seen[c] \/ Active(banned'[call'[c].name], now')]

Tick ==
  /\ now < MaxTime
  /\ now' = now + 1
  /\ UNCHANGED <<banned, call, quiet, asked, plain>>
  /\ Observe

\* Faulty variant of Expiry: only what is below zero is for ever.
ExpiryZero(d) == IF d < 0 THEN Forever ELSE now + d

Expiry(d) == IF d <= 0 THEN Forever ELSE now + d

\* time.Duration(mins) * time.Minute, which wraps around.
Duration(m) == ((m * Minute + Half) % (2 * Half)) - Half

Fits(m) == m * Minute < Half

\* A call of IsBanned that has read the name's entry and may yet delete it.
Looking(c, n) == call[c].name = n /\ call[c].pc \in {"check", "delete"}

\* /ban and the BanFor it calls, all of which is under the lock.
Ban(n, m) ==
  /\ banned' = [banned EXCEPT ![n] = Expiry(Duration(m))]
  /\ quiet' = [c \in Caller |-> quiet[c] /\ call[c].name # n]
  /\ asked' = [asked EXCEPT ![n] = IF m = 0 THEN Forever ELSE now + m * Minute]
  /\ plain' = [plain EXCEPT ![n] = Fits(m) /\ \A c \in Caller : ~Looking(c, n)]
  /\ UNCHANGED <<now, call>>
  /\ Observe

\* IsBanned begins and reads the entry under the read lock.
Read(c, n) ==
  /\ call[c].pc = "idle"
  /\ call' = [call EXCEPT ![c] = [pc |-> IF banned[n] = None THEN "false" ELSE "check",
                                  name |-> n, until |-> banned[n]]]
  /\ quiet' = [quiet EXCEPT ![c] = TRUE]
  /\ seen' = [seen EXCEPT ![c] = Active(banned[n], now)]
  /\ UNCHANGED <<now, banned, asked, plain>>

\* Faulty variants of StillBanned: a ban holds at the instant it expires; the
\* zero time is a time like any other.
StillBannedLate(c) == call[c].until = Forever \/ now <= call[c].until
StillBannedZero(c) == now < call[c].until

\* until.IsZero() || time.Now().Before(until)
StillBanned(c) == call[c].until = Forever \/ now < call[c].until

Check(c) ==
  /\ call[c].pc = "check"
  /\ call' = [call EXCEPT ![c].pc = IF StillBanned(c) THEN "true" ELSE "delete"]
  /\ UNCHANGED <<now, banned, quiet, asked, plain>>
  /\ Observe

\* Whatever is in the map now is deleted.
Delete(c) ==
  /\ call[c].pc = "delete"
  /\ banned' = [banned EXCEPT ![call[c].name] = None]
  /\ call' = [call EXCEPT ![c].pc = "false"]
  /\ UNCHANGED <<now, quiet, asked, plain>>
  /\ Observe

Return(c) ==
  /\ call[c].pc \in {"true", "false"}
  /\ call' = [call EXCEPT ![c].pc = "idle"]
  /\ UNCHANGED <<now, banned, history>>

Next ==
  \/ Tick
  \/ \E n \in Name, m \in Minutes : Ban(n, m)
  \/ \E c \in Caller : Check(c) \/ Delete(c) \/ Return(c) \/ \E n \in Name : Read(c, n)

Spec == Init /\ [][Next]_vars

---------------------------------------------------------------------------
\* IsBanned answers TRUE only if the name was banned at some time during the
\* call, however the clock and other callers move between its steps.
TrueIsRight == \A c \in Caller : call[c].pc = "true" => seen[c]

\* The clean-up of an expired entry never deletes a ban in force, provided
\* nobody banned the name during the call.
CleansExpired ==
  \A c \in Caller : call[c].pc = "delete" /\ quiet[c] =>
    ~Active(banned[call[c].name], now)

\* A /ban holds for the minutes it was given, for ever if they are 0, and no
\* longer: provided they are so few that the product does not wrap around, and
\* that no call of IsBanned was between its read and its clean-up at the time.
BanHolds ==
  \A n \in Name : plain[n] => (Active(banned[n], now) <=> Active(asked[n], now))
============================================================================
