------------------------------ MODULE Shutdown ------------------------------
(***************************************************************************)
(* ShutdownHandler and its ASGI middleware, of                             *)
(* src/infrastructure/lifecycle/shutdown.py.  The handler suspends while   *)
(* it drains and in each hook.  It walks its list of hooks by index, and   *)
(* the list may change meanwhile: add_hook sorts the very list, remove_hook *)
(* makes another one and leaves the loop the old.  The server that calls   *)
(* the middleware and ends the lifespan is external.                       *)
(***************************************************************************)
EXTENDS Integers, Sequences, FiniteSets, SequencesExt

CONSTANTS
    Requests,               \* HTTP requests the server may receive
    Hooks,                  \* hooks that may be registered, each once
    Priority,               \* the priority of each hook
    InitialHooks,           \* those registered before the server starts, sorted
    RejectDuringShutdown,   \* reject_during_shutdown of the middleware of each
    MaxRemoves              \* bound of the model: calls of remove_hook

ASSUME ShutdownAssumption ==
    /\ Priority \in [Hooks -> Int]
    /\ InitialHooks \in Seq(Hooks) /\ IsInjective(InitialHooks)
    /\ \A i, j \in DOMAIN InitialHooks :
          i < j => Priority[InitialHooks[i]] >= Priority[InitialHooks[j]]
    /\ RejectDuringShutdown \in [Requests -> BOOLEAN] /\ MaxRemoves \in Nat

VARIABLES
    state,        \* _state
    inFlight,     \* _in_flight_requests
    event,        \* is _shutdown_event set?
    hooks,        \* _hooks, by name
    loop,         \* the list the loop walks once remove_hook has left it behind
    detached,     \* has it?
    pos,          \* index of the hook that runs, 0 while none does
    waiting, serving, \* requests still to come, and those in the application
    counted,      \* history: those request_started counted
    cut,          \* history: why the drain may have ended early
    began,        \* history: hooks registered when the loop started
    started,      \* history: hooks in the order they were started
    late,         \* history: hooks added while the loop ran,
    removed       \* and those removed

handlerVars == <<state, hooks, loop, detached, pos, began, started, late, removed>>
requestVars == <<inFlight, event, waiting, serving, counted>>
shutdownVars == <<handlerVars, requestVars, cut>>

ShutdownTypeOK ==
    /\ state \in {"RUNNING", "SHUTTING_DOWN", "SHUTDOWN"}
    /\ inFlight \in Nat /\ event \in BOOLEAN
    /\ hooks \in Seq(Hooks) /\ loop \in Seq(Hooks) /\ detached \in BOOLEAN
    /\ pos \in Nat
    /\ waiting \subseteq Requests /\ serving \subseteq Requests /\ counted \subseteq Requests
    /\ cut \subseteq {"timeout", "uncounted"}
    /\ began \subseteq Hooks /\ started \in Seq(Hooks) /\ late \in Nat /\ removed \subseteq Hooks

ShutdownInit ==
    /\ state = "RUNNING" /\ inFlight = 0 /\ event = FALSE
    /\ hooks = InitialHooks /\ loop = <<>> /\ detached = FALSE /\ pos = 0
    /\ waiting = Requests /\ serving = {} /\ counted = {} /\ cut = {}
    /\ began = {} /\ started = <<>> /\ late = 0 /\ removed = {}

-----------------------------------------------------------------------------
(* Requests.                                                               *)

(* The middleware's check and request_started are one step.                *)
Reject(r) ==
    /\ r \in waiting
    /\ RejectDuringShutdown[r] /\ state # "RUNNING"
    /\ waiting' = waiting \ {r}
    /\ UNCHANGED <<inFlight, event, serving, counted, cut, handlerVars>>

(* Wrong variant: the handler does not count the requests it admits.       *)
EnterUncounted(r) ==
    /\ r \in waiting /\ (state = "RUNNING" \/ ~RejectDuringShutdown[r])
    /\ waiting' = waiting \ {r} /\ serving' = serving \cup {r}
    /\ counted' = IF state = "RUNNING" THEN counted \cup {r} ELSE counted
    /\ UNCHANGED <<inFlight, event, cut, handlerVars>>

Enter(r) ==
    /\ r \in waiting /\ (state = "RUNNING" \/ ~RejectDuringShutdown[r])
    /\ waiting' = waiting \ {r} /\ serving' = serving \cup {r}
    /\ IF state = "RUNNING"
       THEN inFlight' = inFlight + 1 /\ counted' = counted \cup {r}
       ELSE UNCHANGED <<inFlight, counted>>
    /\ UNCHANGED <<event, cut, handlerVars>>

(* request_finished, in the middleware's finally: it cannot tell a request *)
(* that was never counted.                                                 *)
Leave(r) ==
    /\ r \in serving
    /\ serving' = serving \ {r}
    /\ inFlight' = IF inFlight > 0 THEN inFlight - 1 ELSE 0
    /\ event' = (event \/ (state = "SHUTTING_DOWN" /\ inFlight' = 0))
    /\ cut' = IF state = "SHUTTING_DOWN" /\ r \notin counted
              THEN cut \cup {"uncounted"} ELSE cut
    /\ UNCHANGED <<waiting, counted, handlerVars>>

-----------------------------------------------------------------------------
(* Hooks.                                                                  *)

Registered(h) == h \in Range(hooks) \cup Range(loop) \cup Range(started) \cup removed

(* Wrong variant: the new hook goes last whatever its priority.            *)
AddHookLast(h) ==
    /\ ~Registered(h)
    /\ hooks' = Append(hooks, h)
    /\ late' = IF pos > 0 THEN late + 1 ELSE late
    /\ UNCHANGED <<state, loop, detached, pos, began, started, removed,
                   requestVars, cut>>

(* append, then a stable sort of a list that was sorted before, highest    *)
(* priority first: h goes behind those of its priority.                    *)
AddHook(h) ==
    /\ ~Registered(h)
    /\ \E i \in 1 .. Len(hooks) + 1 :
          /\ \A j \in 1 .. i - 1 : Priority[hooks[j]] >= Priority[h]
          /\ \A j \in i .. Len(hooks) : Priority[hooks[j]] < Priority[h]
          /\ hooks' = InsertAt(hooks, i, h)
    /\ late' = IF pos > 0 THEN late + 1 ELSE late
    /\ UNCHANGED <<state, loop, detached, pos, began, started, removed,
                   requestVars, cut>>

(* A call that finds nothing changes nothing, except that the loop's list  *)
(* is left behind all the same.                                            *)
RemoveHook(h) ==
    /\ h \notin removed /\ Cardinality(removed) < MaxRemoves
    /\ removed' = removed \cup {h}
    /\ \/ \E i \in DOMAIN hooks : hooks[i] = h /\ hooks' = RemoveAt(hooks, i)
       \/ h \notin Range(hooks) /\ pos > 0 /\ UNCHANGED hooks
    /\ IF pos > 0 /\ ~detached
       THEN detached' = TRUE /\ loop' = hooks
       ELSE UNCHANGED <<detached, loop>>
    /\ UNCHANGED <<state, pos, began, started, late, requestVars, cut>>

Walked == IF detached THEN loop ELSE hooks

(* _run_hooks goes on at index i: the next hook starts, or shutdown ends.  *)
RunFrom(i) ==
    IF i <= Len(Walked)
    THEN /\ pos' = i /\ started' = Append(started, Walked[i])
         /\ state' = "SHUTTING_DOWN"
    ELSE /\ pos' = 0 /\ state' = "SHUTDOWN"
         /\ UNCHANGED started

(* shutdown, which only the first caller performs, by a signal or at the   *)
(* end of the lifespan.  With nothing in flight it does not suspend before *)
(* the first hook.                                                         *)
BeginShutdown ==
    /\ state = "RUNNING"
    /\ IF inFlight = 0
       THEN began' = Range(hooks) /\ RunFrom(1)
       ELSE state' = "SHUTTING_DOWN" /\ UNCHANGED <<pos, started, began>>
    /\ UNCHANGED <<hooks, loop, detached, late, removed, requestVars, cut>>

Draining == state = "SHUTTING_DOWN" /\ pos = 0

(* _drain_requests returns, because the event was set or its time is up.   *)
DrainEnds(why) ==
    /\ Draining
    /\ why = "event" => event
    /\ cut' = IF why = "timeout" THEN cut \cup {"timeout"} ELSE cut
    /\ began' = Range(hooks)
    /\ RunFrom(1)
    /\ UNCHANGED <<hooks, loop, detached, late, removed, requestVars>>

(* The hook returns, raises or times out: the loop goes on either way.     *)
HookEnds ==
    /\ pos > 0
    /\ RunFrom(pos + 1)
    /\ UNCHANGED <<hooks, loop, detached, began, late, removed, requestVars, cut>>

HandlerStep ==
    \/ \E h \in Hooks : AddHook(h) \/ RemoveHook(h)
    \/ BeginShutdown
    \/ \E why \in {"event", "timeout"} : DrainEnds(why)
    \/ HookEnds

-----------------------------------------------------------------------------
(* Properties.                                                             *)

(* Hooks close what requests use: none starts while a counted request is   *)
(* in the application, unless the drain timed out or a request that was    *)
(* not counted finished and was taken for one that was.                    *)
DrainedBeforeHooks ==
    pos > 0 \/ state = "SHUTDOWN" => serving \cap counted = {} \/ cut # {}

(* However the list changes while the loop walks it, a completed shutdown  *)
(* has run every hook that was registered when the loop began, and, unless *)
(* one was added meanwhile, each of them once and by priority.             *)
HooksComplete ==
    /\ state = "SHUTDOWN" => began \subseteq Range(started)
    /\ late = 0 => \A i, j \in DOMAIN started :
          i < j => started[i] # started[j] /\ Priority[started[i]] >= Priority[started[j]]
=============================================================================
