---------------------------- MODULE ReadDeadline ----------------------------
(***************************************************************************)
(* The read timeout on its way from the environment to the connections:    *)
(* config.Load parses seconds, main makes a time.Duration of them for the  *)
(* Options of each transport, and each transport sets a read deadline.     *)
(*                                                                         *)
(* A Duration is a 64-bit two's complement count of nanoseconds, here as   *)
(* four digits of 16 bits, the least significant first.                    *)
(***************************************************************************)
EXTENDS Integers

CONSTANTS
  Setting   \* numbers CHAT_TCP_READ_TIMEOUT may be set to

\* Not set; set to what is not a number.
Unset == -1
Junk == -2

Digit == 2^16

Small(n) == <<n % Digit, n \div Digit, 0, 0>>

\* The product with a number below 2^15, with what overflows cut off.
Times(x, k) ==
  LET carry[i \in 0..4] == IF i = 0 THEN 0 ELSE (x[i] * k + carry[i - 1]) \div Digit
  IN [i \in 1..4 |-> (x[i] * k + carry[i - 1]) % Digit]

Negative(x) == x[4] >= Digit \div 2
Positive(x) == ~Negative(x) /\ \E i \in 1..4 : x[i] # 0

\* x * time.Second
TimesSecond(x) == Times(Times(Times(x, 1000), 1000), 1000)
Seconds(n) == TimesSecond(Small(n))

Transport == {"tcp", "ws"}

VARIABLES
  env,           \* CHAT_TCP_READ_TIMEOUT
  readTimeout,   \* Config.ReadTimeout, in seconds
  option,        \* Options.ReadTimeout of the transports that have been started
  deadline       \* how far ahead each transport has set a read deadline

vars == <<env, readTimeout, option, deadline>>

Init ==
  /\ env \in Setting \cup {Unset, Junk}
  /\ readTimeout = Unset
  /\ option = <<>> /\ deadline = <<>>

\* config.Load: what is not a number becomes 0.
Load ==
  /\ readTimeout = Unset
  /\ readTimeout' = CASE env = Unset -> 60 [] env = Junk -> 0 [] OTHER -> env
  /\ UNCHANGED <<env, option, deadline>>

Put(f, t, x) == [u \in DOMAIN f \cup {t} |-> IF u = t THEN x ELSE f[u]]

\* main starts a transport.
Start(t) ==
  /\ readTimeout # Unset /\ t \notin DOMAIN option
  /\ option' = Put(option, t, Seconds(readTimeout))
  /\ UNCHANGED <<env, readTimeout, deadline>>

\* tcpSession.readLoop, before it reads a frame; there may be no deadline.
ReadTcp ==
  /\ "tcp" \in DOMAIN option /\ Positive(option["tcp"])
  /\ deadline' = Put(deadline, "tcp", TimesSecond(option["tcp"]))
  /\ UNCHANGED <<env, readTimeout, option>>

\* WebSocketServer.setupHeartbeat, and the pong handler.
ReadWs ==
  /\ "ws" \in DOMAIN option
  /\ deadline' = Put(deadline, "ws",
                     IF Positive(option["ws"]) THEN option["ws"] ELSE Seconds(60))
  /\ UNCHANGED <<env, readTimeout, option>>

Next == Load \/ (\E t \in Transport : Start(t)) \/ ReadTcp \/ ReadWs

Spec == Init /\ [][Next]_vars

\* "ReadTimeout  int // seconds": a transport that sets a read deadline sets it
\* the configured number of seconds ahead, neither years ahead nor in the past.
DeadlineIsConfigured ==
  \A t \in DOMAIN deadline :
    readTimeout > 0 => deadline[t] = Seconds(readTimeout)
============================================================================
