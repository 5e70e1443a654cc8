\* Two callers of IsBanned, permanent and temporary bans of one name;
\* six minutes wrap around to less than none, nine to one.
CONSTANTS
  c1 = c1
  c2 = c2
  alice = alice
  Name = {alice}
  Caller = {c1, c2}
  Minutes = {0, 1, 2, 6, 9}
  Minute = 1
  Half = 4
  MaxTime = 4
SPECIFICATION Spec
INVARIANTS TrueIsRight CleansExpired BanHolds
