------------------------------ MODULE UvThread -------------------------------
(***************************************************************************)
(* uv_thread_create, uv_thread_self, uv_thread_join and uv_once of         *)
(* src/getmedia/FFModule/core/thread_win.cpp.                              *)
(*                                                                         *)
(* One thread, the creator, creates the others and joins them; all of them *)
(* go through the same uv_once, whose callback creates the key under which *)
(* each thread keeps its own handle.  A created event is named after the   *)
(* thread that made it; the creator's own name is Main.                    *)
(***************************************************************************)
EXTENDS Integers, FiniteSets

CONSTANTS Main, Workers

ASSUME ThreadAssumption ==
  Main \notin Workers /\ IsFiniteSet(Workers) /\ "null" \notin Workers \cup {Main}

VARIABLES
  life,        \* a worker's thread: "none", "suspended", "runs", ..., "joined"
  ctx,         \* its thread_ctx: "none", "filled" (self unset), "complete", "freed"
  tid,         \* the handle in the creator's variable, or "null"
  once,        \* where each thread stands in uv_once
  event,       \* guard->event: whose event it is, or "null"
  signalled,   \* whether that event is set
  ran,         \* guard->ran
  runs,        \* completed runs of the callback
  key,         \* what each thread finds under the key
  opened       \* events not yet closed

utVars == <<life, ctx, tid, once, event, signalled, ran, runs, key, opened>>
onceVars == <<once, event, signalled, ran, runs, opened>>
All == Workers \cup {Main}

UtInit ==
  /\ life = [t \in Workers |-> "none"] /\ ctx = [t \in Workers |-> "none"]
  /\ tid = [t \in Workers |-> "null"]
  /\ once = [t \in All |-> "out"]
  /\ event = "null" /\ signalled = FALSE /\ ran = FALSE /\ runs = 0
  /\ key = [t \in All |-> "null"]
  /\ opened = {}

-----------------------------------------------------------------------------
\* Faulty: the thread runs from the beginning.
CreateRunning(t) ==
  /\ life[t] = "none" /\ ctx[t] = "none"
  /\ life' = [life EXCEPT ![t] = "starts"] /\ ctx' = [ctx EXCEPT ![t] = "filled"]
  /\ UNCHANGED <<tid, key, onceVars>>

\* The thread is created suspended, so that its own handle can be passed to it.
CreateSuspended(t) ==
  /\ life[t] = "none" /\ ctx[t] = "none"
  /\ \/ life' = [life EXCEPT ![t] = "suspended"] /\ ctx' = [ctx EXCEPT ![t] = "filled"]
     \/ ctx' = [ctx EXCEPT ![t] = "freed"] /\ UNCHANGED life
  /\ UNCHANGED <<tid, key, onceVars>>

ResumeThread(t) ==
  /\ life[t] = "suspended"
  /\ tid' = [tid EXCEPT ![t] = t]
  /\ ctx' = [ctx EXCEPT ![t] = "complete"]
  /\ life' = [life EXCEPT ![t] = "starts"]
  /\ UNCHANGED <<key, onceVars>>

\* uv__thread_start copies and frees its context and calls uv_once.
StartCopies(t) ==
  /\ life[t] = "starts"
  /\ ctx' = [ctx EXCEPT ![t] = "freed"]
  /\ life' = [life EXCEPT ![t] = IF ctx[t] = "complete" THEN "once" ELSE "lost"]
  /\ UNCHANGED <<tid, key, onceVars>>

StartSetsKey(t) ==
  /\ life[t] = "once" /\ once[t] = "done"
  /\ key' = [key EXCEPT ![t] = t]
  /\ life' = [life EXCEPT ![t] = "entry"]
  /\ UNCHANGED <<ctx, tid, onceVars>>

EntryReturns(t) ==
  /\ life[t] = "entry"
  /\ life' = [life EXCEPT ![t] = "ended"]
  /\ UNCHANGED <<ctx, tid, key, onceVars>>

ThreadJoin(t) ==
  /\ tid[t] = t /\ life[t] = "ended"
  /\ tid' = [tid EXCEPT ![t] = "null"]
  /\ life' = [life EXCEPT ![t] = "joined"]
  /\ UNCHANGED <<ctx, key, onceVars>>

-----------------------------------------------------------------------------
OnceGo(t, from, to) == once[t] = from /\ once' = [once EXCEPT ![t] = to]

\* The fast case, or uv__once_inner and its event.  The creator comes here
\* from uv_thread_self, the others at their start.
OnceTests(t) ==
  /\ t = Main \/ (t \in Workers /\ life[t] = "once")
  /\ \/ ran /\ OnceGo(t, "out", "done") /\ UNCHANGED opened
     \/ ~ran /\ OnceGo(t, "out", "exchange") /\ opened' = opened \cup {t}
  /\ UNCHANGED <<life, ctx, tid, event, signalled, ran, runs, key>>

\* Faulty: the event is tested and written without the interlocked exchange.
OnceWinsAlways(t) ==
  /\ OnceGo(t, "exchange", "callback") /\ event' = t
  /\ UNCHANGED <<life, ctx, tid, signalled, ran, runs, key, opened>>

OnceWins(t) ==
  /\ event = "null" /\ event' = t
  /\ OnceGo(t, "exchange", "callback")
  /\ UNCHANGED <<life, ctx, tid, signalled, ran, runs, key, opened>>

OnceLoses(t) ==
  /\ event # "null"
  /\ OnceGo(t, "exchange", "wait")
  /\ opened' = opened \ {t}
  /\ UNCHANGED <<life, ctx, tid, event, signalled, ran, runs, key>>

\* The callback makes a new key, under which nobody has a value yet.
OnceCalls(t) ==
  /\ OnceGo(t, "callback", "set")
  /\ runs' = runs + 1
  /\ key' = [u \in All |-> "null"]
  /\ UNCHANGED <<life, ctx, tid, event, signalled, ran, opened>>

OnceSetsEvent(t) ==
  /\ OnceGo(t, "set", "ran")
  /\ signalled' = TRUE
  /\ UNCHANGED <<life, ctx, tid, event, ran, runs, key, opened>>

OnceSetsRan(t) ==
  /\ OnceGo(t, "ran", "done")
  /\ ran' = TRUE
  /\ UNCHANGED <<life, ctx, tid, event, signalled, runs, key, opened>>

OnceWaits(t) ==
  /\ signalled
  /\ OnceGo(t, "wait", "done")
  /\ UNCHANGED <<life, ctx, tid, event, signalled, ran, runs, key, opened>>

UtFinished ==
  /\ \A t \in Workers : life[t] = "joined" \/ (life[t] = "none" /\ ctx[t] = "freed")
  /\ once[Main] = "done"
  /\ UNCHANGED utVars

Once(t) ==
  \/ OnceTests(t) \/ OnceWins(t) \/ OnceLoses(t) \/ OnceCalls(t)
  \/ OnceSetsEvent(t) \/ OnceSetsRan(t) \/ OnceWaits(t)

UtNext ==
  \/ \E t \in Workers :
       \/ CreateSuspended(t) \/ ResumeThread(t) \/ StartCopies(t) \/ StartSetsKey(t)
       \/ EntryReturns(t) \/ ThreadJoin(t)
  \/ \E t \in All : Once(t)
  \/ UtFinished

UtSpec == UtInit /\ [][UtNext]_utVars

-----------------------------------------------------------------------------
UtTypeOK ==
  /\ life \in [Workers -> {"none", "suspended", "starts", "lost", "once", "entry",
                           "ended", "joined"}]
  /\ ctx \in [Workers -> {"none", "filled", "complete", "freed"}]
  /\ tid \in [Workers -> Workers \cup {"null"}]
  /\ once \in [All -> {"out", "exchange", "callback", "set", "ran", "wait", "done"}]
  /\ event \in All \cup {"null"} /\ signalled \in BOOLEAN /\ ran \in BOOLEAN
  /\ runs \in Nat
  /\ key \in [All -> All \cup {"null"}]
  /\ opened \subseteq All

(***************************************************************************)
(* The callback of uv_once runs once, nobody comes out of uv_once before   *)
(* it is complete, whichever of the threads wins the race, and of the      *)
(* events made for the race only the winner's is left.                     *)
(***************************************************************************)
OnceOnly ==
  /\ runs <= 1
  /\ \A t \in All : once[t] = "done" => runs = 1 /\ opened \ {event} = 
                      {u \in All : once[u] = "exchange"}

(***************************************************************************)
(* Inside its entry a thread finds under the key the handle that its       *)
(* creator will join: the thread starts only after the handle is stored in *)
(* both places, and no later key replaces the one it was stored under.     *)
(***************************************************************************)
SelfIsTid ==
  \A t \in Workers : life[t] \in {"lost", "entry", "ended"} => key[t] = t /\ tid[t] = t

\* uv_once and uv_thread_create do together what uv_thread_self relies on.
UtSound == OnceOnly /\ SelfIsTid

=============================================================================
