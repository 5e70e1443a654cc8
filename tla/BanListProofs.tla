--------------------------- MODULE BanListProofs ---------------------------
(***************************************************************************)
(* What IsBanned's answers mean, for any names, any number of callers, any *)
(* durations and however long the clock runs.                              *)
(***************************************************************************)
EXTENDS BanList, TLAPS

\* A leaf that names no backend is tried with the SMT solver, then with Zenon,
\* each given more time than it takes on an idle machine.
USE SMTT(30), ZenonT(20)

\* A call that has read an entry: if the entry still holds now it held when
\* it was read; an expired entry stays expired; and while nobody bans the
\* name the map holds the entry that was read, or nothing.
CallOK(c) ==
  /\ call[c].pc = "check" /\ Active(call[c].until, now) => seen[c]
  /\ call[c].pc = "delete" => ~Active(call[c].until, now)
  /\ call[c].pc \in {"check", "delete"} /\ quiet[c] =>
       banned[call[c].name] \in {call[c].until, None}
  /\ call[c].pc = "true" => seen[c]

\* A name whose last /ban nothing stood in the way of: the map holds what was
\* asked for, or nothing once that is over, and a call that may delete the
\* entry has read what was asked for.
BanOK(n) ==
  plain[n] =>
    /\ banned[n] \in {asked[n], None}
    /\ banned[n] = None => ~Active(asked[n], now)
    /\ \A c \in Caller : Looking(c, n) => call[c].until = asked[n]

\* The inductive invariant.
Inv == TypeOK /\ (\A c \in Caller : CallOK(c)) /\ (\A n \in Name : BanOK(n))

\* A product that fits is the duration itself.
LEMMA DurationFits ==
  ASSUME NEW m \in Minutes, Fits(m)
  PROVE  Duration(m) = m * Minute
<1> DEFINE x == m * Minute
<1>1. x \in Nat /\ Half \in Nat \ {0} /\ x < Half
  BY BanAssumption DEF Fits
<1>2. \A y \in Nat, k \in Nat : y < k => y % k = y
  OBVIOUS
<1>3. x + Half \in Nat /\ 2 * Half \in Nat /\ x + Half < 2 * Half
  BY <1>1
<1>4. (x + Half) % (2 * Half) = x + Half
  BY <1>2, <1>3
<1> HIDE DEF x
<1>5. ((x + Half) % (2 * Half)) - Half = x
  BY <1>1, <1>4
<1> QED
  BY <1>5 DEF Duration, x

\* Every step keeps the state well typed.
LEMMA TypeStep == ASSUME TypeOK, [Next]_vars PROVE TypeOK'
<1> USE BanAssumption
<1>1. ASSUME Observe PROVE seen' \in [Caller -> BOOLEAN]
  BY <1>1 DEF Observe, TypeOK, Active
<1>2. CASE Tick
  BY <1>1, <1>2 DEF Tick, TypeOK
<1>3. ASSUME NEW n \in Name, NEW m \in Minutes, Ban(n, m) PROVE TypeOK'
  <2>1. now \in Nat /\ m * Minute \in Nat /\ Duration(m) \in Int
    BY DEF TypeOK, Duration
  <2>2. Expiry(Duration(m)) \in Until
    BY <2>1 DEF Expiry, Until, Forever
  <2>3. banned' \in [Name -> Until]
    BY <1>3, <2>2 DEF Ban, TypeOK
  <2>4. asked' \in [Name -> Until]
    BY <1>3, <2>1 DEF Ban, TypeOK, Until, Forever
  <2>5. quiet' \in [Caller -> BOOLEAN] /\ plain' \in [Name -> BOOLEAN]
    BY <1>3 DEF Ban, TypeOK, Fits
  <2> QED
    BY <1>1, <1>3, <2>3, <2>4, <2>5 DEF Ban, TypeOK
<1>4. ASSUME NEW c \in Caller, NEW n \in Name, Read(c, n) PROVE TypeOK'
  <2>1. call' \in [Caller -> CallState]
    BY <1>4 DEF Read, TypeOK, CallState
  <2>2. seen' \in [Caller -> BOOLEAN]
    BY <1>4 DEF Read, TypeOK, Active
  <2>3. quiet' \in [Caller -> BOOLEAN]
    BY <1>4 DEF Read, TypeOK
  <2> QED
    BY <1>4, <2>1, <2>2, <2>3 DEF Read, TypeOK
<1>5. ASSUME NEW c \in Caller, Check(c) PROVE TypeOK'
  <2>1. call' \in [Caller -> CallState]
    BY <1>5 DEF Check, TypeOK, CallState
  <2> QED
    BY <1>1, <1>5, <2>1 DEF Check, TypeOK
<1>6. ASSUME NEW c \in Caller, Delete(c) PROVE TypeOK'
  <2>1. call' \in [Caller -> CallState]
    BY <1>6 DEF Delete, TypeOK, CallState
  <2>2. banned' \in [Name -> Until]
    BY <1>6, Zenon DEF Delete, TypeOK, Until, None
  <2> QED
    BY <1>1, <1>6, <2>1, <2>2 DEF Delete, TypeOK
<1>7. ASSUME NEW c \in Caller, Return(c) PROVE TypeOK'
  <2>1. call' \in [Caller -> CallState]
    BY <1>7 DEF Return, TypeOK, CallState
  <2> QED
    BY <1>7, <2>1 DEF Return, history, TypeOK
<1>8. CASE UNCHANGED vars
  BY <1>8 DEF vars, history, TypeOK
<1> QED
  BY <1>2, <1>3, <1>4, <1>5, <1>6, <1>7, <1>8 DEF Next

\* A call that a step does not touch stays right: the clock only moves
\* forward, and a ban of its name ends its quiet.
LEMMA CallKept ==
  ASSUME TypeOK, TypeOK', NEW c \in Caller, CallOK(c), call'[c] = call[c],
         now' >= now, seen[c] => seen'[c], quiet'[c] => quiet[c],
         quiet'[c] => banned'[call[c].name] \in {banned[call[c].name], None}
  PROVE  CallOK(c)'
<1>1. call[c].until \in Until /\ now \in Nat /\ now' \in Nat
  BY BanAssumption DEF TypeOK, CallState
<1>2. Active(call[c].until, now') => Active(call[c].until, now)
  BY <1>1 DEF Active, Until, None, Forever
<1> QED
  BY <1>2 DEF CallOK, Active

\* Every step keeps every call right.
LEMMA CallStep ==
  ASSUME Inv, [Next]_vars, NEW k \in Caller PROVE CallOK(k)'
<1>1. TypeOK /\ TypeOK' /\ now \in Nat
  BY TypeStep, BanAssumption DEF Inv, TypeOK
<1>3. CallOK(k)
  BY DEF Inv
<1>4. ASSUME Observe PROVE seen[k] => seen'[k]
  BY <1>4, Zenon DEF Observe
<1>5. CASE Tick
  <2>1. now' >= now /\ call' = call /\ banned' = banned /\ quiet' = quiet
    BY <1>1, <1>5 DEF Tick
  <2> QED
    BY <1>1, <1>3, <1>4, <1>5, <2>1, CallKept DEF Tick
<1>6. ASSUME NEW n \in Name, NEW m \in Minutes, Ban(n, m) PROVE CallOK(k)'
  <2>1. quiet'[k] => quiet[k] /\ banned'[call[k].name] = banned[call[k].name]
    BY <1>1, <1>6, Zenon DEF Ban, TypeOK, CallState
  <2> QED
    BY <1>1, <1>3, <1>4, <1>6, <2>1, CallKept DEF Ban
<1>7. ASSUME NEW c \in Caller, NEW n \in Name, Read(c, n) PROVE CallOK(k)'
  <2>1. CASE k = c
    BY <1>1, <1>7, <2>1 DEF Read, CallOK, TypeOK
  <2>2. CASE k # c
    BY <1>1, <1>3, <1>7, <2>2, CallKept DEF Read, TypeOK
  <2> QED
    BY <2>1, <2>2
<1>8. ASSUME NEW c \in Caller, Check(c) PROVE CallOK(k)'
  <2>1. CASE k = c
    <3>1. call[c].until \in Until
      BY <1>1 DEF TypeOK, CallState
    <3>2. StillBanned(c) <=> Active(call[c].until, now)
      BY <1>1, <3>1 DEF StillBanned, Active, Until, None, Forever
    <3> QED
      BY <1>1, <1>3, <1>4, <1>8, <2>1, <3>2 DEF Check, CallOK, TypeOK, Active
  <2>2. CASE k # c
    BY <1>1, <1>3, <1>4, <1>8, <2>2, CallKept DEF Check, TypeOK
  <2> QED
    BY <2>1, <2>2
<1>9. ASSUME NEW c \in Caller, Delete(c) PROVE CallOK(k)'
  <2>1. CASE k = c
    BY <1>1, <1>9, <2>1 DEF Delete, CallOK, TypeOK
  <2>2. CASE k # c
    <3>1. banned'[call[k].name] \in {banned[call[k].name], None}
      BY <1>1, <1>9 DEF Delete, TypeOK, CallState
    <3> QED
      BY <1>1, <1>3, <1>4, <1>9, <2>2, <3>1, CallKept DEF Delete, TypeOK
  <2> QED
    BY <2>1, <2>2
<1>10. ASSUME NEW c \in Caller, Return(c) PROVE CallOK(k)'
  <2>1. CASE k = c
    BY <1>1, <1>10, <2>1 DEF Return, history, CallOK, TypeOK
  <2>2. CASE k # c
    BY <1>1, <1>3, <1>10, <2>2, CallKept DEF Return, history, TypeOK
  <2> QED
    BY <2>1, <2>2
<1>11. CASE UNCHANGED vars
  BY <1>1, <1>3, <1>11, CallKept DEF vars, history
<1> QED
  BY <1>5, <1>6, <1>7, <1>8, <1>9, <1>10, <1>11 DEF Next

\* What was asked for a name stays in force while a step touches neither it
\* nor its entry and brings no call of its own to the brink of a clean-up.
LEMMA BanKept ==
  ASSUME TypeOK, TypeOK', NEW n \in Name, BanOK(n),
         asked'[n] = asked[n], plain'[n] = plain[n], banned'[n] = banned[n], now' >= now,
         \A c \in Caller : Looking(c, n)' =>
           \/ Looking(c, n) /\ call'[c].until = call[c].until
           \/ banned[n] # None /\ call'[c].until = banned[n]
  PROVE  BanOK(n)'
<1>1. asked[n] \in Until /\ now \in Nat /\ now' \in Nat
  BY BanAssumption DEF TypeOK
<1>2. Active(asked[n], now') => Active(asked[n], now)
  BY <1>1 DEF Active, Until, None, Forever
<1> QED
  BY <1>2 DEF BanOK, Active

\* Every step keeps every ban right.
LEMMA BanStep ==
  ASSUME Inv, [Next]_vars, NEW k \in Name PROVE BanOK(k)'
<1>1. TypeOK /\ TypeOK' /\ now \in Nat /\ BanOK(k)
  BY TypeStep, BanAssumption DEF Inv, TypeOK
<1>2. CASE Tick
  BY <1>1, <1>2, BanKept DEF Tick, Looking
<1>3. ASSUME NEW n \in Name, NEW m \in Minutes, Ban(n, m) PROVE BanOK(k)'
  <2>1. CASE k = n
    <3>1. SUFFICES ASSUME plain'[n]
                   PROVE  /\ banned'[n] = asked'[n] /\ banned'[n] # None
                          /\ \A c \in Caller : ~Looking(c, n)'
      BY <2>1 DEF BanOK
    <3>2. Fits(m) /\ \A c \in Caller : ~Looking(c, n)
      BY <1>1, <1>3, <3>1, Zenon DEF Ban, TypeOK
    <3>3. Duration(m) = m * Minute
      BY <3>2, DurationFits
    <3>4. m \in Nat /\ Minute \in Nat \ {0}
      BY BanAssumption
    <3>5. m * Minute \in Nat /\ (m * Minute = 0 <=> m = 0)
      BY <3>4
    <3>6. banned'[n] = asked'[n] /\ banned'[n] # None
      BY <1>1, <1>3, <3>3, <3>5 DEF Ban, Expiry, TypeOK, None, Forever
    <3> QED
      BY <1>3, <3>2, <3>6 DEF Ban, Looking
  <2>2. CASE k # n
    BY <1>1, <1>3, <2>2, BanKept DEF Ban, TypeOK, Looking
  <2> QED
    BY <2>1, <2>2
<1>4. ASSUME NEW c \in Caller, NEW n \in Name, Read(c, n) PROVE BanOK(k)'
  BY <1>1, <1>4, BanKept DEF Read, TypeOK, Looking
<1>5. ASSUME NEW c \in Caller, Check(c) PROVE BanOK(k)'
  BY <1>1, <1>5, BanKept DEF Check, TypeOK, Looking
<1>6. ASSUME NEW c \in Caller, Delete(c) PROVE BanOK(k)'
  <2>1. CASE k = call[c].name
    <3>1. plain[k] => ~Active(asked[k], now)
      BY <1>1, <1>6, <2>1 DEF Inv, CallOK, BanOK, Delete, Looking
    <3> QED
      BY <1>1, <1>6, <2>1, <3>1 DEF Delete, TypeOK, BanOK, Looking, Active
  <2>2. CASE k # call[c].name
    BY <1>1, <1>6, <2>2, BanKept DEF Delete, TypeOK, Looking
  <2> QED
    BY <2>1, <2>2
<1>7. ASSUME NEW c \in Caller, Return(c) PROVE BanOK(k)'
  BY <1>1, <1>7, BanKept DEF Return, history, TypeOK, Looking
<1>8. CASE UNCHANGED vars
  BY <1>1, <1>8, BanKept DEF vars, history, Looking
<1> QED
  BY <1>2, <1>3, <1>4, <1>5, <1>6, <1>7, <1>8 DEF Next

\* Every step keeps the invariant.
LEMMA InvStep == ASSUME Inv, [Next]_vars PROVE Inv'
BY TypeStep, CallStep, BanStep DEF Inv

\* The invariant holds in every reachable state.
THEOREM Invariance == Spec => []Inv
<1>1. Init => Inv
  <2>1. ASSUME Init PROVE TypeOK
    BY <2>1, BanAssumption DEF Init, TypeOK, CallState, Until, None
  <2>2. ASSUME Init, NEW c \in Caller PROVE CallOK(c)
    BY <2>2 DEF Init, CallOK
  <2>3. ASSUME Init, NEW n \in Name PROVE BanOK(n)
    BY <2>3, BanAssumption DEF Init, BanOK, Looking, Active, None, Forever
  <2> QED
    BY <2>1, <2>2, <2>3 DEF Inv
<1> QED
  BY <1>1, InvStep, PTL DEF Spec

\* Entries are always an expiry, permanent or absent, and calls are at a
\* known step of IsBanned.
THEOREM TypeCorrect == Spec => []TypeOK
<1>1. Inv => TypeOK
  BY DEF Inv
<1> QED
  BY <1>1, Invariance, PTL

\* IsBanned's TRUE: the name was banned at some time during the call.
THEOREM AnswersRight == Spec => []TrueIsRight
<1>1. Inv => TrueIsRight
  BY DEF Inv, CallOK, TrueIsRight
<1> QED
  BY <1>1, Invariance, PTL

\* IsBanned's clean-up removes a ban in force only if BanFor ran for the name
\* during the call.
THEOREM CleanUpSafe == Spec => []CleansExpired
<1>1. ASSUME Inv, NEW c \in Caller, call[c].pc = "delete", quiet[c]
      PROVE  ~Active(banned[call[c].name], now)
  <2>1. CallOK(c) /\ now \in Nat
    BY <1>1, BanAssumption DEF Inv, TypeOK
  <2>2. ~Active(None, now)
    BY <2>1 DEF Active, None, Forever
  <2> QED
    BY <1>1, <2>1, <2>2 DEF CallOK
<1>2. Inv => CleansExpired
  BY <1>1 DEF CleansExpired
<1> QED
  BY <1>2, Invariance, PTL

\* A /ban that fits, and that no clean-up was under way for, holds for exactly
\* the time it was given.
THEOREM BansHold == Spec => []BanHolds
<1>1. ASSUME Inv, NEW n \in Name, plain[n]
      PROVE  Active(banned[n], now) <=> Active(asked[n], now)
  <2>1. BanOK(n) /\ now \in Nat
    BY <1>1, BanAssumption DEF Inv, TypeOK
  <2>2. ~Active(None, now)
    BY <2>1 DEF Active, None, Forever
  <2> QED
    BY <1>1, <2>1, <2>2 DEF BanOK
<1>2. Inv => BanHolds
  BY <1>1 DEF BanHolds
<1> QED
  BY <1>2, Invariance, PTL
============================================================================
