---------------------------- MODULE CacheServer ----------------------------
(***************************************************************************)
(* The server process: main(), CacheServer's start and stop, its thread    *)
(* for statistics, and signals (src/src/main.cpp, src/src/cache_server.cpp).*)
(*                                                                         *)
(* Nothing is locked.  A signal handler runs on top of a thread, which     *)
(* does not go on until the handler returns, and may itself be interrupted *)
(* by another signal.  main() installs its own handler for the three       *)
(* signals; the constructor of CacheServer replaces it for two of them,    *)
(* so that only SIGQUIT still ends in exit(0).                             *)
(*                                                                         *)
(* initialize_* cannot fail in this version, so the error returns of start *)
(* are not taken; no shutdown_handler_ is ever set, restart() is never     *)
(* called, and shutdown_requested_ is never read.                          *)
(***************************************************************************)
EXTENDS Integers, SequencesExt

CONSTANTS Components,   \* number of components that start initializes (code: 5)
          MaxSignals    \* bound: signals sent to the process

ASSUME ComponentsAssumption == Components \in Nat \ {0}
ASSUME MaxSignalsAssumption == MaxSignals \in Nat

VARIABLES
  main,         \* where main() is
  is_running,   \* is_running_
  stop_stats,   \* stop_stats_collection_
  stats,        \* where the statistics thread is
  joinable,     \* stats_thread_.joinable()
  components,   \* how far start has got with its calls of initialize_*, and
                \* 0 again after stop's calls of cleanup_*.  No variable of the
                \* code: those functions only log in this version
                \* (cache_server.cpp:217-265).  It records their order.
  stack,        \* handlers on top of each thread, the last one runs
  ended,        \* how the process has ended
  sent,         \* the signals sent, in order
  hurried       \* history: a signal came during the handling of another, or
                \* SIGQUIT while start was under way

vars == <<main, is_running, stop_stats, stats, joinable, components, stack,
          ended, sent, hurried>>
serverVars == <<is_running, stop_stats, stats, joinable, components>>

Thread == {"main", "stats"}
Signal == {"SIGINT", "SIGTERM", "SIGQUIT"}

\* A handler and where it is: at its start, in stop() or, in main.cpp, at exit.
Frame == [sig : Signal, of : {"main.cpp", "server"},
          pc : {"begin", "test", "clear", "flag", "join", "cleanup", "exit"}]

-----------------------------------------------------------------------------
Running(th) == ended = "no" /\ stack[th] = <<>>

\* g_server is assigned once the constructor has returned.
HaveServer == main \notin {"construct", "assign"}

Init ==
  /\ main = "construct"
  /\ is_running = FALSE /\ stop_stats = FALSE
  /\ stats = "none" /\ joinable = FALSE
  /\ components = 0
  /\ stack = [th \in Thread |-> <<>>]
  /\ ended = "no" /\ sent = <<>> /\ hurried = FALSE

\* The process ends: g_server is destroyed, and the std::thread in it with
\* std::terminate if it has not been joined.  (~CacheServer calls stop() only
\* if is_running_, which it never is here: see CleanExit.)
Exit == ended' = IF joinable THEN "abort" ELSE "exit"

\* main() up to the handlers, the constructor, and the assignment to g_server.
Construct ==
  /\ Running("main") /\ main = "construct"
  /\ main' = "assign"
  /\ UNCHANGED <<stack, ended, sent, hurried>> /\ UNCHANGED serverVars

Assign ==
  /\ Running("main") /\ main = "assign"
  /\ main' = "start"
  /\ UNCHANGED <<stack, ended, sent, hurried>> /\ UNCHANGED serverVars

\* One component is initialized twice.
Initialize_OneMoreBug ==
  /\ Running("main") /\ main = "start" /\ components <= Components
  /\ components' = components + 1
  /\ UNCHANGED <<main, is_running, stop_stats, stats, joinable>>
  /\ UNCHANGED <<stack, ended, sent, hurried>>

\* start(): the components one after the other, the statistics thread, and
\* is_running_ last of all.
Initialize ==
  /\ Running("main") /\ main = "start" /\ components < Components
  /\ components' = components + 1
  /\ UNCHANGED <<main, is_running, stop_stats, stats, joinable>>
  /\ UNCHANGED <<stack, ended, sent, hurried>>

StartStatsCollection ==
  /\ Running("main") /\ main = "start" /\ components = Components
  /\ stop_stats' = FALSE
  /\ stats' = "loop" /\ joinable' = TRUE
  /\ main' = "set_running"
  /\ UNCHANGED <<is_running, components, stack, ended, sent, hurried>>

SetRunning ==
  /\ Running("main") /\ main = "set_running"
  /\ is_running' = TRUE
  /\ main' = "loop"
  /\ UNCHANGED <<stop_stats, stats, joinable, components, stack, ended, sent, hurried>>

\* The loop of main() is left when is_running_ is FALSE, and main() returns.
Leave ==
  /\ Running("main") /\ main = "loop" /\ ~ is_running
  /\ main' = "return"
  /\ Exit
  /\ UNCHANGED <<stack, sent, hurried>> /\ UNCHANGED serverVars

\* The statistics thread looks at its flag, at least once a second.
StatsEnd ==
  /\ Running("stats") /\ stats = "loop" /\ stop_stats
  /\ stats' = "done"
  /\ UNCHANGED <<main, is_running, stop_stats, joinable, components>>
  /\ UNCHANGED <<stack, ended, sent, hurried>>

-----------------------------------------------------------------------------
\* signal(): the main thread takes a signal unless it is handling the same one;
\* then the statistics thread may get it.
Blocked(th, sig) == \E i \in DOMAIN stack[th] : stack[th][i].sig = sig

Receives(th, sig) ==
  IF th = "main" THEN ~ Blocked("main", sig)
  ELSE /\ Blocked("main", sig)
       /\ stats = "loop" /\ ~ Blocked("stats", sig)

\* setup_signal_handlers of main.cpp, then of the constructor.
handler(sig) == IF main = "construct" \/ sig = "SIGQUIT" THEN "main.cpp" ELSE "server"

Deliver(th, sig) ==
  /\ ended = "no" /\ Len(sent) < MaxSignals
  /\ Receives(th, sig)
  /\ stack' = [stack EXCEPT ![th] =
                 Append(@, [sig |-> sig, of |-> handler(sig), pc |-> "begin"])]
  /\ sent' = Append(sent, sig)
  /\ hurried' = \/ hurried
                \/ \E x \in Thread : stack[x] # <<>>
                \/ sig = "SIGQUIT" /\ main \in {"start", "set_running"}
  /\ UNCHANGED <<main, ended>> /\ UNCHANGED serverVars

Top(th) == Last(stack[th])
At(th, pc) == ended = "no" /\ stack[th] # <<>> /\ Top(th).pc = pc
Goto(th, pc) == stack' = [stack EXCEPT ![th] = Append(Front(@), [Last(@) EXCEPT !.pc = pc])]

\* stop() returns: main.cpp's handler exits, the server's returns.
Return(th) ==
  IF Top(th).of = "main.cpp" THEN Goto(th, "exit")
                             ELSE stack' = [stack EXCEPT ![th] = Front(@)]

\* The handlers up to their call of stop(), which main.cpp's makes if there is
\* a g_server.
HandlerBegin(th) ==
  /\ At(th, "begin")
  /\ IF Top(th).of = "server" \/ HaveServer THEN Goto(th, "test") ELSE Goto(th, "exit")
  /\ UNCHANGED <<main, ended, sent, hurried>> /\ UNCHANGED serverVars

HandlerExit(th) ==
  /\ At(th, "exit")
  /\ Exit
  /\ UNCHANGED <<main, stack, sent, hurried>> /\ UNCHANGED serverVars

\* stop(): the test of is_running_ and the store are two steps.
StopTest(th) ==
  /\ At(th, "test")
  /\ IF is_running THEN Goto(th, "clear") ELSE Return(th)
  /\ UNCHANGED <<main, ended, sent, hurried>> /\ UNCHANGED serverVars

\* is_running_ stays TRUE.
StopClear_NoStoreBug(th) ==
  /\ At(th, "clear")
  /\ Goto(th, "flag")
  /\ UNCHANGED <<main, ended, sent, hurried>> /\ UNCHANGED serverVars

StopClear(th) ==
  /\ At(th, "clear")
  /\ is_running' = FALSE
  /\ Goto(th, "flag")
  /\ UNCHANGED <<main, ended, sent, hurried>>
  /\ UNCHANGED <<stop_stats, stats, joinable, components>>

StopFlag(th) ==
  /\ At(th, "flag")
  /\ stop_stats' = TRUE
  /\ Goto(th, "join")
  /\ UNCHANGED <<main, ended, sent, hurried>>
  /\ UNCHANGED <<is_running, stats, joinable, components>>

\* The thread is flagged and left to itself.
StopJoin_DetachBug(th) ==
  /\ At(th, "join")
  /\ joinable' = FALSE
  /\ Goto(th, "cleanup")
  /\ UNCHANGED <<ended, main, sent, hurried, is_running, stop_stats, stats, components>>

\* The thread is flagged and not joined.
StopJoin_NoJoinBug(th) ==
  /\ At(th, "join")
  /\ Goto(th, "cleanup")
  /\ UNCHANGED <<main, ended, sent, hurried>> /\ UNCHANGED serverVars

\* The join waits for the thread to end; a thread that joins itself throws.
StopJoin(th) ==
  /\ At(th, "join")
  /\ joinable => th = "stats" \/ stats = "done"
  /\ IF joinable /\ th = "stats"
       THEN ended' = "abort" /\ UNCHANGED <<joinable, stack>>
       ELSE joinable' = FALSE /\ Goto(th, "cleanup") /\ UNCHANGED ended
  /\ UNCHANGED <<main, sent, hurried, is_running, stop_stats, stats, components>>

\* stop() forgets the components.
StopCleanup_NoneBug(th) ==
  /\ At(th, "cleanup")
  /\ Return(th)
  /\ UNCHANGED <<main, ended, sent, hurried>> /\ UNCHANGED serverVars

StopCleanup(th) ==
  /\ At(th, "cleanup")
  /\ components' = 0
  /\ Return(th)
  /\ UNCHANGED <<main, ended, sent, hurried>>
  /\ UNCHANGED <<is_running, stop_stats, stats, joinable>>

-----------------------------------------------------------------------------
Main == Construct \/ Assign \/ Initialize \/ StartStatsCollection \/ SetRunning \/ Leave

Handler(th) ==
  \/ HandlerBegin(th) \/ HandlerExit(th)
  \/ StopTest(th) \/ StopClear(th) \/ StopFlag(th) \/ StopJoin(th) \/ StopCleanup(th)

Next ==
  \/ Main
  \/ StatsEnd
  \/ \E th \in Thread : Handler(th) \/ \E sig \in Signal : Deliver(th, sig)

Spec == Init /\ [][Next]_vars

\* Both threads run, with the handlers on top of them; signals may never come.
Fairness == WF_vars(Main) /\ WF_vars(StatsEnd) /\ \A th \in Thread : WF_vars(Handler(th))

FairSpec == Spec /\ Fairness

-----------------------------------------------------------------------------
TypeOK ==
  /\ main \in {"construct", "assign", "start", "set_running", "loop", "return"}
  /\ is_running \in BOOLEAN /\ stop_stats \in BOOLEAN /\ joinable \in BOOLEAN
  /\ stats \in {"none", "loop", "done"}
  /\ components \in 0..Components
  /\ stack \in [Thread -> Seq(Frame)]
  /\ ended \in {"no", "exit", "abort"}
  /\ sent \in Seq(Signal) /\ Len(sent) <= MaxSignals
  /\ hurried \in BOOLEAN
  /\ joinable => stats # "none"

\* One signal at a time always ends the process in good order: std::terminate
\* is called only when a signal interrupts the handling of another or SIGQUIT
\* comes in the middle of start, however the signal falls between the steps of
\* start and main()'s loop.
AbortOnlyIfHurried == ended = "abort" => hurried

\* A process that ends with exit status 0 has stopped: the flag is down, no
\* thread is left, and every component has been cleaned up.  The last is said
\* of all runs but those that saw both a SIGQUIT, whose handler may exit(0) in
\* the middle of start or on top of another handler, and a hurried signal.
CleanExit ==
  ended = "exit" =>
    /\ ~ is_running /\ ~ joinable /\ stats # "loop"
    /\ components = 0 \/ (hurried /\ \E i \in DOMAIN sent : sent[i] = "SIGQUIT")

\* The components outlive the statistics thread, also when stop() runs twice,
\* one call on top of the other.
StatsThreadHasComponents == stats = "loop" => components = Components

\* A signal that arrives when the server is running ends the process: the
\* join in the handler waits for the statistics thread alone, and main() sees
\* the flag.  (One that arrives before is_running_ is set is lost.)
SignalEndsServer == is_running /\ (\E th \in Thread : stack[th] # <<>>) ~> ended # "no"
=============================================================================
