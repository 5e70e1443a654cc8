------------------------------ MODULE Commands ------------------------------
(***************************************************************************)
(* Commands and events together: the registry executes the lines that      *)
(* clients type, and the handlers of /msg, /notice, /ping and /sendfile    *)
(* emit an event, while commands are registered and event handlers         *)
(* subscribed and cancelled.  The goroutine that executes a command is the *)
(* one that walks the handlers of its event.                               *)
(***************************************************************************)
EXTENDS Registry, Subscriptions

CONSTANTS
  Authorizes,   \* the commands whose handler is that of /auth
  Emits         \* the commands whose handler emits an event

ASSUME CommandsAssumption ==
  /\ Emitter = Client
  /\ Authorizes \subseteq Command /\ Emits \subseteq Command
  /\ Authorizes \cap Emits = {}

vars == <<registryVars, subsVars>>

TypeOK == RegistryTypeOK /\ SubsTypeOK

Init == RegistryInit /\ SubsInit

Registration == \E cmd \in Command : Register(cmd) /\ UNCHANGED subsVars

Subscription ==
  /\ Subscribe \/ \E h \in HID : Cancel(h)
  /\ UNCHANGED registryVars

\* The next line of the same client comes when the last one is done with.
Line(c) ==
  /\ emit[c].pc = "idle"
  /\ \E line \in [slashes : 0..3, letters : Letters, rest : Letters, plain : BOOLEAN] :
       \E client \in {c, NoClient} : Execute(c, client, line)
  /\ UNCHANGED subsVars

Authorize(c) ==
  /\ \E cmd \in Authorizes : InHandler(c, cmd)
  /\ \E lv \in 0..2 : Auth(c, lv)
  /\ UNCHANGED subsVars

\* ctx.Hub.Emit: from here on the goroutine is in Emit.
EmitEvent(c) ==
  /\ \E cmd \in Emits : InHandler(c, cmd)
  /\ Call(c)
  /\ Answer(c)

\* The handler has nothing to emit, or refuses the arguments.
Other(c) ==
  /\ \E cmd \in Command : InHandler(c, cmd)
  /\ Answer(c)
  /\ UNCHANGED subsVars

Executing(c) ==
  \/ Check(c) /\ UNCHANGED subsVars
  \/ Authorize(c) \/ EmitEvent(c) \/ Other(c)
  \/ EmitStep(c) /\ UNCHANGED registryVars

Next ==
  \/ Registration
  \/ Subscription
  \/ \E c \in Client : Line(c) \/ Executing(c)
  \/ \E c \in Client : HandlersEnd(c) /\ UNCHANGED registryVars

\* A goroutine that executes a command is scheduled again and again.  Event
\* handlers, which may hang, are promised nothing.
Spec == Init /\ [][Next]_vars /\ \A c \in Client : WF_vars(Executing(c))
============================================================================
