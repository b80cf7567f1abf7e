------------------------- MODULE CacheServerProofs -------------------------
(***************************************************************************)
(* Proofs about CacheServer for any number of components and of signals.   *)
(* No property is inductive alone: ServerInv says of every handler on the  *)
(* stacks what its position implies.                                       *)
(***************************************************************************)
EXTENDS CacheServer, SequenceTheorems, TLAPS

\* start has got as far as the statistics thread.
Started == main \in {"set_running", "loop", "return"}

\* What is true of a handler f, whichever thread it is on and however many are
\* on top of it: past the test of is_running_ it belongs to a server that was
\* running, whose flag is down after the store and whose thread is joined
\* before the cleanup; and main.cpp's handler is there for SIGQUIT alone once
\* the constructor has run.
FrameOK(f) ==
  /\ f.pc \in {"clear", "flag", "join", "cleanup"} => main \in {"loop", "return"}
  /\ f.pc \in {"flag", "join", "cleanup"} => ~ is_running
  /\ f.pc = "cleanup" => ~ joinable
  /\ f.pc = "exit" => f.of = "main.cpp"
  /\ f.of = "main.cpp" => f.sig = "SIGQUIT" \/ main = "construct"
  /\ \E j \in DOMAIN sent : sent[j] = f.sig

FramesOK == \A th \in Thread : \A i \in DOMAIN stack[th] : FrameOK(stack[th][i])

\* How far start, the statistics thread and stop have come.
Stages ==
  /\ ~ Started => stats = "none" /\ ~ joinable
  /\ Started => stats # "none" /\ (~ joinable => stats = "done")
  /\ main \in {"construct", "assign"} => components = 0
  /\ main = "set_running" => joinable
  /\ is_running => joinable /\ main = "loop"
  /\ main = "return" => ended # "no"
  /\ stack["stats"] # <<>> => stats = "loop"
  /\ StatsThreadHasComponents

\* Once the thread is joined the components are cleaned up, or a handler on the
\* main thread is about to.
CleanupDue ==
  Started /\ ~ joinable /\ components # 0 =>
    \E i \in DOMAIN stack["main"] : stack["main"][i].pc = "cleanup"

\* With one signal at a time: a single handler, on the main thread; it is not
\* left, nor the flag down, with the thread not joined.
Unhurried ==
  ~ hurried =>
    /\ stack["stats"] = <<>> /\ Len(stack["main"]) <= 1
    /\ stack["main"] # <<>> /\ stack["main"][1].sig = "SIGQUIT"
         => main \notin {"start", "set_running"}
    /\ main = "loop" /\ ~ is_running /\ joinable
         => stack["main"] # <<>> /\ stack["main"][1].pc \in {"flag", "join"}
    /\ stack["main"] # <<>> /\ stack["main"][1].pc = "exit" => ~ joinable

ServerInv ==
  /\ TypeOK
  /\ FramesOK
  /\ Stages
  /\ CleanupDue
  /\ Unhurried
  /\ AbortOnlyIfHurried
  /\ CleanExit

-----------------------------------------------------------------------------
\* A sequence without its last element.
LEMMA AllButLast ==
  ASSUME NEW S, NEW s \in Seq(S), Len(s) # 0
  PROVE  /\ SubSeq(s, 1, Len(s) - 1) \in Seq(S)
         /\ Len(SubSeq(s, 1, Len(s) - 1)) = Len(s) - 1
         /\ \A i \in 1..(Len(s) - 1) : SubSeq(s, 1, Len(s) - 1)[i] = s[i]
<1> DEFINE n == Len(s) - 1
<1>1. n \in 0..Len(s)
  BY LenProperties
<1> HIDE DEF n
<1>2. SubSeq(s, 1, n) \in Seq(S) /\ Len(SubSeq(s, 1, n)) = n
  BY <1>1
<1>3. \A i \in 1..n : SubSeq(s, 1, n)[i] = s[i]
  BY <1>1
<1> QED
  BY <1>2, <1>3 DEF n

\* What the proofs need of a stack of handlers.
LEMMA StackTypes ==
  ASSUME TypeOK, NEW th \in Thread
  PROVE  /\ stack[th] \in Seq(Frame)
         /\ Len(stack[th]) \in Nat
         /\ DOMAIN stack[th] = 1..Len(stack[th])
         /\ stack[th] = <<>> <=> Len(stack[th]) = 0
         /\ \A i \in 1..Len(stack[th]) : stack[th][i] \in Frame
<1>1. stack[th] \in Seq(Frame)
  BY DEF TypeOK
<1> QED
  BY <1>1, EmptySeq, LenProperties, ElementOfSeq

\* The handler that runs.
LEMMA TopFrame ==
  ASSUME TypeOK, NEW th \in Thread, stack[th] # <<>>
  PROVE  /\ Len(stack[th]) \in 1..Len(stack[th])
         /\ Top(th) = stack[th][Len(stack[th])]
         /\ Top(th) \in Frame
BY StackTypes DEF Top, Last

\* A step of a handler changes where it is and nothing else on the stacks.
LEMMA GotoMoves ==
  ASSUME TypeOK, NEW th \in Thread, stack[th] # <<>>,
         NEW pc \in {"begin", "test", "clear", "flag", "join", "cleanup", "exit"},
         Goto(th, pc)
  PROVE  /\ stack' \in [Thread -> Seq(Frame)]
         /\ \A x \in Thread : Len(stack'[x]) = Len(stack[x])
         /\ \A x \in Thread : \A i \in 1..Len(stack[x]) :
              /\ stack'[x][i].sig = stack[x][i].sig
              /\ stack'[x][i].of = stack[x][i].of
              /\ stack'[x][i].pc = IF x = th /\ i = Len(stack[x]) THEN pc
                                                              ELSE stack[x][i].pc
<1> DEFINE s == stack[th]
           g == [s[Len(s)] EXCEPT !.pc = pc]
           t == Append(SubSeq(s, 1, Len(s) - 1), g)
<1>1. /\ s \in Seq(Frame) /\ Len(s) \in Nat \ {0} /\ s[Len(s)] \in Frame
      /\ stack \in [Thread -> Seq(Frame)]
  <2>1. stack \in [Thread -> Seq(Frame)]
    BY DEF TypeOK
  <2> QED
    BY <2>1, StackTypes
<1>2. /\ g \in Frame /\ g.pc = pc /\ g.sig = s[Len(s)].sig /\ g.of = s[Len(s)].of
  BY <1>1 DEF Frame
<1>3. stack' = [stack EXCEPT ![th] = t]
  BY DEF Goto, Front, Last
<1> HIDE DEF s, g
<1>4. /\ SubSeq(s, 1, Len(s) - 1) \in Seq(Frame)
      /\ Len(SubSeq(s, 1, Len(s) - 1)) = Len(s) - 1
      /\ \A i \in 1..(Len(s) - 1) : SubSeq(s, 1, Len(s) - 1)[i] = s[i]
  BY <1>1, AllButLast
<1>5. /\ t \in Seq(Frame) /\ Len(t) = Len(s) /\ t[Len(s)] = g
      /\ \A i \in 1..(Len(s) - 1) : t[i] = s[i]
  BY <1>1, <1>2, <1>4, AppendProperties
<1> HIDE DEF t
<1>6. stack' \in [Thread -> Seq(Frame)] /\ stack'[th] = t
      /\ \A x \in Thread : x # th => stack'[x] = stack[x]
  BY <1>1, <1>3, <1>5
<1>7. \A x \in Thread : Len(stack'[x]) = Len(stack[x])
  BY <1>5, <1>6 DEF s
<1>8. ASSUME NEW x \in Thread, NEW i \in 1..Len(stack[x])
      PROVE  /\ stack'[x][i].sig = stack[x][i].sig
             /\ stack'[x][i].of = stack[x][i].of
             /\ stack'[x][i].pc = IF x = th /\ i = Len(stack[x]) THEN pc
                                                             ELSE stack[x][i].pc
  <2>1. CASE x # th
    BY <2>1, <1>6
  <2>2. CASE x = th /\ i = Len(s)
    BY <2>2, <1>2, <1>5, <1>6 DEF s
  <2>3. CASE x = th /\ i # Len(s)
    BY <2>3, <1>1, <1>5, <1>6 DEF s
  <2> QED
    BY <2>1, <2>2, <2>3
<1> QED
  BY <1>6, <1>7, <1>8

\* A handler that returns leaves the ones below it as they are.
LEMMA PopMoves ==
  ASSUME TypeOK, NEW th \in Thread, stack[th] # <<>>,
         stack' = [stack EXCEPT ![th] = Front(@)]
  PROVE  /\ stack' \in [Thread -> Seq(Frame)]
         /\ \A x \in Thread : Len(stack'[x]) = IF x = th THEN Len(stack[x]) - 1
                                                      ELSE Len(stack[x])
         /\ \A x \in Thread : \A i \in 1..Len(stack'[x]) : stack'[x][i] = stack[x][i]
<1> DEFINE s == stack[th]
           t == SubSeq(s, 1, Len(s) - 1)
<1>1. /\ s \in Seq(Frame) /\ Len(s) \in Nat \ {0}
      /\ stack \in [Thread -> Seq(Frame)]
  <2>1. stack \in [Thread -> Seq(Frame)]
    BY DEF TypeOK
  <2> QED
    BY <2>1, StackTypes
<1>2. stack' = [stack EXCEPT ![th] = t]
  BY DEF Front
<1> HIDE DEF s
<1>3. /\ t \in Seq(Frame) /\ Len(t) = Len(s) - 1
      /\ \A i \in 1..(Len(s) - 1) : t[i] = s[i]
  BY <1>1, AllButLast
<1> HIDE DEF t
<1>4. stack' \in [Thread -> Seq(Frame)] /\ stack'[th] = t
      /\ \A x \in Thread : x # th => stack'[x] = stack[x]
  BY <1>1, <1>2, <1>3
<1> QED
  BY <1>3, <1>4 DEF s

\* What a handler that goes on must make sure of for the handlers to stay as
\* FrameOK says.
LEMMA GotoFrames ==
  ASSUME ServerInv, NEW th \in Thread, stack[th] # <<>>,
         NEW pc \in {"begin", "test", "clear", "flag", "join", "cleanup", "exit"},
         Goto(th, pc), UNCHANGED <<main, sent>>,
         is_running' => is_running, joinable' => joinable,
         pc \in {"clear", "flag", "join", "cleanup"} => main \in {"loop", "return"},
         pc \in {"flag", "join", "cleanup"} => ~ is_running',
         pc = "cleanup" => ~ joinable',
         pc = "exit" => Top(th).of = "main.cpp"
  PROVE  FramesOK'
<1> SUFFICES ASSUME NEW x \in Thread, NEW i \in DOMAIN stack'[x]
             PROVE  FrameOK(stack[x][i])'
  BY DEF FramesOK
<1>1. TypeOK /\ FramesOK
  BY DEF ServerInv
<1>2. /\ DOMAIN stack'[x] = 1..Len(stack'[x]) /\ Len(stack'[x]) = Len(stack[x])
      /\ stack'[x][i].sig = stack[x][i].sig
      /\ stack'[x][i].of = stack[x][i].of
      /\ stack'[x][i].pc = IF x = th /\ i = Len(stack[x]) THEN pc
                                                       ELSE stack[x][i].pc
  <2>1. /\ stack' \in [Thread -> Seq(Frame)]
        /\ Len(stack'[x]) = Len(stack[x])
        /\ \A k \in 1..Len(stack[x]) :
              /\ stack'[x][k].sig = stack[x][k].sig
              /\ stack'[x][k].of = stack[x][k].of
              /\ stack'[x][k].pc = IF x = th /\ k = Len(stack[x]) THEN pc
                                                              ELSE stack[x][k].pc
    BY <1>1, GotoMoves
  <2>2. DOMAIN stack'[x] = 1..Len(stack'[x])
    BY <2>1, LenProperties
  <2> QED
    BY <2>1, <2>2
<1>3. FrameOK(stack[x][i])
  BY <1>1, <1>2, StackTypes DEF FramesOK
<1>4. x = th /\ i = Len(stack[x]) => Top(th) = stack[x][i]
  BY <1>1, TopFrame
<1> QED
  BY <1>2, <1>3, <1>4 DEF FrameOK

\* Nor does the return of a handler disturb them.
LEMMA PopFrames ==
  ASSUME ServerInv, NEW th \in Thread, stack[th] # <<>>,
         stack' = [stack EXCEPT ![th] = Front(@)],
         UNCHANGED <<main, is_running, joinable, sent>>
  PROVE  FramesOK'
<1> SUFFICES ASSUME NEW x \in Thread, NEW i \in DOMAIN stack'[x]
             PROVE  FrameOK(stack[x][i])'
  BY DEF FramesOK
<1>1. TypeOK /\ FramesOK
  BY DEF ServerInv
<1>2. i \in 1..Len(stack[x]) /\ stack'[x][i] = stack[x][i]
  <2>1. /\ stack' \in [Thread -> Seq(Frame)]
        /\ Len(stack'[x]) = IF x = th THEN Len(stack[x]) - 1 ELSE Len(stack[x])
        /\ \A k \in 1..Len(stack'[x]) : stack'[x][k] = stack[x][k]
    BY <1>1, PopMoves
  <2>2. DOMAIN stack'[x] = 1..Len(stack'[x])
    BY <2>1, LenProperties
  <2>3. Len(stack[x]) \in Nat
    BY <1>1, StackTypes
  <2> QED
    BY <2>1, <2>2, <2>3
<1>3. FrameOK(stack[x][i])
  BY <1>1, <1>2, StackTypes DEF FramesOK
<1> QED
  BY <1>2, <1>3 DEF FrameOK

-----------------------------------------------------------------------------
LEMMA InitInv == Init => ServerInv
<1> SUFFICES ASSUME Init PROVE ServerInv
  OBVIOUS
<1>1. TypeOK
  <2>1. stack \in [Thread -> Seq(Frame)] /\ sent \in Seq(Signal) /\ Len(sent) = 0
    BY EmptySeq DEF Init
  <2>2. is_running \in BOOLEAN /\ stop_stats \in BOOLEAN /\ joinable \in BOOLEAN
        /\ hurried \in BOOLEAN
    BY Zenon DEF Init
  <2> QED
    BY <2>1, <2>2, ComponentsAssumption, MaxSignalsAssumption DEF Init, TypeOK
<1>2. \A th \in Thread : stack[th] = <<>>
  BY DEF Init
<1>3. Len(stack["main"]) = 0 /\ stack["main"] = <<>> /\ stack["stats"] = <<>>
  BY <1>2, EmptySeq DEF Thread
<1>4. FramesOK
  BY <1>2, EmptySeq DEF FramesOK
<1> QED
  BY <1>1, <1>3, <1>4 DEF ServerInv, Init, Stages, Started, StatsThreadHasComponents,
     CleanupDue, Unhurried, AbortOnlyIfHurried, CleanExit

\* Steps of the main thread outside a handler: no handler is on it, so with one
\* signal at a time none is anywhere.
LEMMA MainStep ==
  ASSUME ServerInv, Main
  PROVE  ServerInv'
<1> DEFINE Same == UNCHANGED <<stack, sent, hurried>>
<1>1. Same /\ ended = "no" /\ stack["main"] = <<>>
  BY DEF Main, Construct, Assign, Initialize, StartStatsCollection, SetRunning, Leave,
         Running
<1>2. TypeOK /\ FramesOK /\ Stages /\ CleanupDue /\ Unhurried
  BY DEF ServerInv
<1>3. DOMAIN stack["main"] = {} /\ Len(stack["main"]) = 0
  BY <1>1, <1>2, StackTypes DEF Thread
<1>4. TypeOK'
  <2>1. (stack \in [Thread -> Seq(Frame)] /\ sent \in Seq(Signal) /\ Len(sent) <= MaxSignals
         /\ hurried \in BOOLEAN)'
    BY <1>1, <1>2 DEF TypeOK
  <2>2. components' \in 0..Components
    BY <1>2, ComponentsAssumption
    DEF TypeOK, Main, Construct, Assign, Initialize, StartStatsCollection, SetRunning,
        Leave, serverVars
  <2>3. is_running' \in BOOLEAN /\ stop_stats' \in BOOLEAN /\ joinable' \in BOOLEAN
    BY <1>2, Zenon
    DEF TypeOK, Main, Construct, Assign, Initialize, StartStatsCollection, SetRunning,
        Leave, serverVars
  <2> QED
    BY <1>1, <1>2, <2>1, <2>2, <2>3
    DEF TypeOK, Main, Construct, Assign, Initialize, StartStatsCollection, SetRunning,
        Leave, Exit, serverVars
<1>5. FramesOK'
  <2> SUFFICES ASSUME NEW x \in Thread, NEW i \in DOMAIN stack[x]
               PROVE  FrameOK(stack[x][i])'
    BY <1>1 DEF FramesOK
  <2>1. FrameOK(stack[x][i])
    BY <1>2 DEF FramesOK
  <2>2. x = "stats" /\ stats = "loop"
    BY <1>1, <1>2, <1>3, StackTypes DEF Thread, Stages
  <2>3. UNCHANGED <<stack, sent>> /\ main \notin {"construct", "assign", "start"}
    BY <1>1, <1>2, <2>2 DEF Stages, Started, TypeOK
  <2> QED
    BY <2>1, <2>3 DEF FrameOK, Main, Construct, Assign, Initialize, StartStatsCollection,
      SetRunning, Leave, serverVars
<1>6. Stages'
  BY <1>1, <1>2, ComponentsAssumption
  DEF TypeOK, Stages, Started, StatsThreadHasComponents, Main, Construct, Assign,
      Initialize, StartStatsCollection, SetRunning, Leave, Exit, serverVars
<1>7. CleanupDue' /\ Unhurried'
  BY <1>1, <1>2, <1>3, EmptySeq
  DEF TypeOK, Stages, Started, CleanupDue, Unhurried, Main, Construct, Assign,
      Initialize, StartStatsCollection, SetRunning, Leave, serverVars
<1>8. AbortOnlyIfHurried' /\ CleanExit'
  BY <1>1, <1>2, <1>3
  DEF TypeOK, Stages, Started, CleanupDue, Unhurried, AbortOnlyIfHurried, CleanExit, Main,
      Construct, Assign, Initialize, StartStatsCollection, SetRunning, Leave, Exit,
      serverVars
<1> QED
  BY <1>4, <1>5, <1>6, <1>7, <1>8 DEF ServerInv

\* The statistics thread ends when no handler is on top of it.
LEMMA StatsEndStep ==
  ASSUME ServerInv, StatsEnd
  PROVE  ServerInv'
<1>1. UNCHANGED <<main, is_running, joinable, components, stack, ended, sent, hurried>>
  BY DEF StatsEnd
<1>2. TypeOK' /\ FramesOK'
  BY <1>1 DEF ServerInv, StatsEnd, TypeOK, FramesOK, FrameOK
<1>3. Stages'
  BY <1>1 DEF ServerInv, StatsEnd, Running, Stages, Started, StatsThreadHasComponents
<1>4. CleanupDue' /\ Unhurried' /\ AbortOnlyIfHurried' /\ CleanExit'
  BY <1>1 DEF ServerInv, StatsEnd, Running, CleanupDue, Started, Unhurried,
              AbortOnlyIfHurried, CleanExit
<1> QED
  BY <1>2, <1>3, <1>4 DEF ServerInv

\* A signal: its handler begins on top of what the thread was doing, which is
\* remembered in hurried if it was the handling of another.
LEMMA DeliverStep ==
  ASSUME ServerInv, NEW th \in Thread, NEW sig \in Signal, Deliver(th, sig)
  PROVE  ServerInv'
<1> DEFINE f == [sig |-> sig, of |-> handler(sig), pc |-> "begin"]
<1>1. TypeOK /\ FramesOK /\ Stages /\ CleanupDue /\ Unhurried /\ ended = "no"
      /\ AbortOnlyIfHurried /\ CleanExit
  BY DEF ServerInv, Deliver
<1>2. f \in Frame
  BY DEF Frame, handler
<1>3. UNCHANGED <<main, ended, is_running, stop_stats, stats, joinable, components>>
  BY DEF Deliver, serverVars
<1>4. /\ stack' \in [Thread -> Seq(Frame)]
      /\ \A x \in Thread :
           /\ DOMAIN stack'[x] = 1..Len(stack'[x])
           /\ Len(stack'[x]) = IF x = th THEN Len(stack[x]) + 1 ELSE Len(stack[x])
           /\ \A i \in 1..Len(stack[x]) : stack'[x][i] = stack[x][i]
      /\ stack'[th][Len(stack[th]) + 1] = f
  <2>1. stack \in [Thread -> Seq(Frame)] /\ stack' = [stack EXCEPT ![th] = Append(@, f)]
    BY <1>1 DEF TypeOK, Deliver
  <2> HIDE DEF f
  <2>2. /\ Append(stack[th], f) \in Seq(Frame)
        /\ Len(Append(stack[th], f)) = Len(stack[th]) + 1
        /\ \A i \in 1..Len(stack[th]) : Append(stack[th], f)[i] = stack[th][i]
        /\ Append(stack[th], f)[Len(stack[th]) + 1] = f
    BY <1>2, <2>1, AppendProperties
  <2>3. /\ stack'[th] = Append(stack[th], f)
        /\ \A x \in Thread : x # th => stack'[x] = stack[x]
        /\ stack' \in [Thread -> Seq(Frame)]
    BY <2>1, <2>2
  <2>4. \A x \in Thread : DOMAIN stack'[x] = 1..Len(stack'[x])
    BY <2>3, LenProperties
  <2> QED
    BY <2>2, <2>3, <2>4
<1>5. /\ sent' \in Seq(Signal) /\ Len(sent') = Len(sent) + 1 /\ Len(sent) \in Nat
      /\ DOMAIN sent = 1..Len(sent) /\ DOMAIN sent' = 1..Len(sent')
      /\ \A i \in 1..Len(sent) : sent'[i] = sent[i]
      /\ sent'[Len(sent) + 1] = sig
  <2>1. sent \in Seq(Signal) /\ sent' = Append(sent, sig)
    BY <1>1 DEF TypeOK, Deliver
  <2> QED
    BY <2>1, AppendProperties, LenProperties
<1>6. \A i \in DOMAIN sent : i \in DOMAIN sent' /\ sent'[i] = sent[i]
  BY <1>5
<1>7. TypeOK'
  <2>1. hurried' \in BOOLEAN
    BY Zenon DEF Deliver
  <2>2. Len(sent') <= MaxSignals
    BY <1>5, MaxSignalsAssumption DEF Deliver
  <2> QED
    BY <1>1, <1>3, <1>4, <1>5, <2>1, <2>2 DEF TypeOK
<1>8. FramesOK'
  <2> SUFFICES ASSUME NEW x \in Thread, NEW i \in DOMAIN stack'[x]
               PROVE  FrameOK(stack[x][i])'
    BY DEF FramesOK
  <2>1. Len(stack[x]) \in Nat /\ DOMAIN stack[x] = 1..Len(stack[x])
    BY <1>1, StackTypes
  <2>2. CASE i \in 1..Len(stack[x])
    <3>1. FrameOK(stack[x][i]) /\ stack'[x][i] = stack[x][i]
      BY <1>1, <1>4, <2>1, <2>2 DEF FramesOK
    <3> QED
      BY <1>3, <1>6, <3>1 DEF FrameOK
  <2>3. CASE i \notin 1..Len(stack[x])
    <3>1. x = th /\ i = Len(stack[x]) + 1
      BY <1>4, <2>1, <2>3
    <3>2. stack'[x][i] = f
      BY <3>1, <1>4
    <3>3. f.of = "main.cpp" => f.sig = "SIGQUIT" \/ main = "construct"
      BY DEF handler
    <3>4. \E j \in DOMAIN sent' : sent'[j] = f.sig
      BY <1>5
    <3> QED
      BY <1>3, <3>2, <3>3, <3>4 DEF FrameOK
  <2> QED
    BY <2>2, <2>3
<1>9. Stages'
  <2>1. stack["stats"]' # <<>> => stats = "loop"
    <3>1. CASE th = "stats"
      BY <3>1 DEF Deliver, Receives
    <3>2. CASE th # "stats"
      <4>1. stack'["stats"] = stack["stats"]
        BY <1>1, <3>2 DEF Deliver, Thread, TypeOK
      <4> QED
        BY <1>1, <4>1 DEF Stages
    <3> QED
      BY <3>1, <3>2
  <2> QED
    BY <1>1, <1>3, <2>1 DEF Stages, Started, StatsThreadHasComponents
<1>10. CleanupDue'
  <2>1. \A i \in DOMAIN stack["main"] :
           i \in DOMAIN stack'["main"] /\ stack'["main"][i] = stack["main"][i]
    <3>1. "main" \in Thread
      BY DEF Thread
    <3>2. Len(stack["main"]) \in Nat /\ DOMAIN stack["main"] = 1..Len(stack["main"])
      BY <1>1, <3>1, StackTypes
    <3>3. /\ DOMAIN stack'["main"] = 1..Len(stack'["main"])
          /\ Len(stack'["main"]) = Len(stack["main"]) + 1 \/ Len(stack'["main"]) = Len(stack["main"])
          /\ \A i \in 1..Len(stack["main"]) : stack'["main"][i] = stack["main"][i]
      BY <1>4, <3>1
    <3> QED
      BY <3>2, <3>3
  <2> QED
    BY <1>1, <1>3, <2>1 DEF CleanupDue, Started
<1>11. Unhurried'
  <2> SUFFICES ASSUME ~ hurried' PROVE Unhurried'
    BY DEF Unhurried
  <2>1. /\ ~ hurried /\ \A x \in Thread : stack[x] = <<>>
        /\ ~ (sig = "SIGQUIT" /\ main \in {"start", "set_running"})
    BY DEF Deliver
  <2>2. \A x \in Thread : Len(stack[x]) = 0 /\ DOMAIN stack[x] = {}
    BY <1>1, <2>1, StackTypes
  <2>3. th = "main"
    <3>1. ~ Blocked("main", sig)
      BY <2>2 DEF Blocked, Thread
    <3> QED
      BY <3>1 DEF Deliver, Receives, Thread
  <2>4. /\ stack'["stats"] = <<>> /\ Len(stack'["main"]) = 1
        /\ stack'["main"][1] = f
    <3>1. stack'["stats"] = stack["stats"]
      BY <1>1, <2>3 DEF Deliver, Thread, TypeOK
    <3> HIDE DEF f
    <3>2. "main" \in Thread /\ "stats" \in Thread
      BY DEF Thread
    <3>3. Len(stack["main"]) = 0 /\ Len(stack'["main"]) = Len(stack["main"]) + 1
          /\ stack'["main"][Len(stack["main"]) + 1] = f
      BY <1>4, <2>2, <2>3, <3>2
    <3> QED
      BY <2>1, <3>1, <3>2, <3>3
  <2>5. ~ (main = "loop" /\ ~ is_running /\ joinable)
    BY <1>1, <2>1 DEF Unhurried, Thread
  <2> QED
    BY <1>3, <2>1, <2>4, <2>5 DEF Unhurried
<1>12. AbortOnlyIfHurried' /\ CleanExit'
  BY <1>1, <1>3 DEF AbortOnlyIfHurried, CleanExit
<1> QED
  BY <1>7, <1>8, <1>9, <1>10, <1>11, <1>12 DEF ServerInv

-----------------------------------------------------------------------------
\* With one signal at a time the handler that runs is the only one.
LEMMA OneHandler ==
  ASSUME ServerInv, ~ hurried, NEW th \in Thread, stack[th] # <<>>
  PROVE  /\ th = "main" /\ stack["stats"] = <<>>
         /\ Len(stack["main"]) = 1 /\ Top(th) = stack["main"][1]
<1>1. TypeOK /\ stack["stats"] = <<>> /\ Len(stack["main"]) <= 1
  BY DEF ServerInv, Unhurried
<1>2. th = "main" /\ "main" \in Thread
  BY <1>1 DEF Thread
<1>3. Len(stack["main"]) = 1
  <2> DEFINE n == Len(stack["main"])
  <2>1. n \in Nat /\ n # 0 /\ n <= 1
    BY <1>1, <1>2, StackTypes
  <2> HIDE DEF n
  <2>2. n = 1
    BY <2>1
  <2> QED
    BY <2>2 DEF n
<1> QED
  BY <1>1, <1>2, <1>3, TopFrame

LEMMA TopOK ==
  ASSUME ServerInv, NEW th \in Thread, stack[th] # <<>>
  PROVE  Top(th) \in Frame /\ FrameOK(Top(th))
<1>1. TypeOK /\ FramesOK
  BY DEF ServerInv
<1> QED
  BY <1>1, TopFrame, StackTypes DEF FramesOK

\* A handler that goes on keeps the invariant if it respects what the other
\* handlers, the statistics thread and main() rely on.
LEMMA GotoStep ==
  ASSUME ServerInv, NEW th \in Thread, stack[th] # <<>>, ended = "no",
         NEW pc \in {"begin", "test", "clear", "flag", "join", "cleanup", "exit"},
         Goto(th, pc), UNCHANGED <<main, stats, ended, sent, hurried>>,
         is_running' \in BOOLEAN, stop_stats' \in BOOLEAN, joinable' \in BOOLEAN,
         components' \in {0, components},
         is_running' => is_running /\ joinable', joinable' => joinable,
         pc \in {"clear", "flag", "join", "cleanup"} => main \in {"loop", "return"},
         pc \in {"flag", "join", "cleanup"} => ~ is_running',
         pc = "cleanup" => ~ joinable',
         pc = "exit" => Top(th).of = "main.cpp",
         Started /\ ~ joinable' => stats = "done",
         main = "set_running" => joinable',
         components' # components => stats # "loop",
         ~ joinable' => ~ joinable \/ (th = "main" /\ pc = "cleanup"),
         Top(th).pc = "cleanup" => components' = 0,
         ~ hurried => (main = "loop" /\ ~ is_running' /\ joinable' => pc \in {"flag", "join"}),
         ~ hurried /\ pc = "exit" => ~ joinable'
  PROVE  ServerInv'
<1>1. TypeOK /\ FramesOK /\ Stages /\ CleanupDue /\ Unhurried
      /\ AbortOnlyIfHurried /\ CleanExit
  BY DEF ServerInv
<1>2. /\ stack' \in [Thread -> Seq(Frame)]
      /\ \A x \in Thread : Len(stack'[x]) = Len(stack[x])
      /\ \A x \in Thread : \A i \in 1..Len(stack[x]) :
           /\ stack'[x][i].sig = stack[x][i].sig
           /\ stack'[x][i].of = stack[x][i].of
           /\ stack'[x][i].pc = IF x = th /\ i = Len(stack[x]) THEN pc
                                                           ELSE stack[x][i].pc
  BY <1>1, GotoMoves
<1>3. "main" \in Thread /\ "stats" \in Thread
  BY DEF Thread
<1>4. TypeOK'
  BY <1>1, <1>2, ComponentsAssumption DEF TypeOK
<1>5. \A x \in Thread :
        /\ DOMAIN stack[x] = 1..Len(stack[x]) /\ DOMAIN stack'[x] = 1..Len(stack[x])
        /\ stack'[x] = <<>> <=> stack[x] = <<>>
        /\ Len(stack[x]) \in Nat
  <2> SUFFICES ASSUME NEW x \in Thread
               PROVE  /\ DOMAIN stack[x] = 1..Len(stack[x])
                      /\ DOMAIN stack'[x] = 1..Len(stack[x])
                      /\ stack'[x] = <<>> <=> stack[x] = <<>>
                      /\ Len(stack[x]) \in Nat
    OBVIOUS
  <2>1. stack'[x] \in Seq(Frame) /\ Len(stack'[x]) = Len(stack[x])
    BY <1>2
  <2>2. /\ DOMAIN stack[x] = 1..Len(stack[x]) /\ Len(stack[x]) \in Nat
        /\ stack[x] = <<>> <=> Len(stack[x]) = 0
    BY <1>1, StackTypes
  <2>3. DOMAIN stack'[x] = 1..Len(stack'[x]) /\ (stack'[x] = <<>> <=> Len(stack'[x]) = 0)
    BY <2>1, LenProperties, EmptySeq
  <2> QED
    BY <2>1, <2>2, <2>3
<1>6. FramesOK'
  BY GotoFrames
<1>7. Stages'
  BY <1>1, <1>3, <1>5 DEF Stages, Started, StatsThreadHasComponents, TypeOK
<1>8. CleanupDue'
  <2> SUFFICES ASSUME Started, ~ joinable', components' # 0
               PROVE  \E i \in DOMAIN stack'["main"] : stack'["main"][i].pc = "cleanup"
    BY DEF CleanupDue, Started
  <2>1. CASE th = "main" /\ pc = "cleanup"
    <3>1. Len(stack["main"]) \in 1..Len(stack["main"])
      BY <1>1, <2>1, TopFrame
    <3> QED
      BY <1>2, <1>3, <1>5, <2>1, <3>1
  <2>2. CASE ~ (th = "main" /\ pc = "cleanup")
    <3>1. ~ joinable /\ components # 0 /\ Top(th).pc # "cleanup"
      BY <2>2
    <3>2. PICK i \in DOMAIN stack["main"] : stack["main"][i].pc = "cleanup"
      BY <1>1, <3>1 DEF CleanupDue
    <3>3. ~ (th = "main" /\ i = Len(stack["main"]))
      BY <1>1, <3>1, <3>2, TopFrame
    <3>4. i \in 1..Len(stack["main"]) /\ i \in DOMAIN stack'["main"]
      BY <1>3, <1>5
    <3>5. stack'["main"][i].pc = stack["main"][i].pc
      BY <1>2, <1>3, <3>3, <3>4
    <3> QED
      BY <3>2, <3>4, <3>5
  <2> QED
    BY <2>1, <2>2
<1>9. Unhurried'
  <2> SUFFICES ASSUME ~ hurried PROVE Unhurried'
    BY DEF Unhurried
  <2>1. /\ th = "main" /\ stack["stats"] = <<>> /\ Len(stack["main"]) = 1
        /\ Top(th) = stack["main"][1]
    BY OneHandler
  <2>2. /\ stack'["stats"] = <<>> /\ stack'["main"] # <<>> /\ Len(stack'["main"]) = 1
        /\ stack'["main"][1].sig = stack["main"][1].sig
        /\ stack'["main"][1].pc = pc
    BY <1>2, <1>3, <1>5, <2>1
  <2> QED
    BY <1>1, <2>1, <2>2 DEF Unhurried
<1>10. AbortOnlyIfHurried' /\ CleanExit'
  BY <1>1 DEF AbortOnlyIfHurried, CleanExit
<1> QED
  BY <1>4, <1>6, <1>7, <1>8, <1>9, <1>10 DEF ServerInv

\* So does one that returns.
LEMMA PopStep ==
  ASSUME ServerInv, NEW th \in Thread, stack[th] # <<>>, ended = "no",
         stack' = [stack EXCEPT ![th] = Front(@)],
         UNCHANGED <<main, is_running, stop_stats, stats, joinable, ended, sent, hurried>>,
         components' \in {0, components},
         components' # components => stats # "loop",
         Top(th).pc = "cleanup" => components' = 0,
         ~ hurried => ~ (main = "loop" /\ ~ is_running /\ joinable)
  PROVE  ServerInv'
<1>1. TypeOK /\ FramesOK /\ Stages /\ CleanupDue /\ Unhurried
      /\ AbortOnlyIfHurried /\ CleanExit
  BY DEF ServerInv
<1>2. /\ stack' \in [Thread -> Seq(Frame)]
      /\ \A x \in Thread : Len(stack'[x]) = IF x = th THEN Len(stack[x]) - 1
                                                   ELSE Len(stack[x])
      /\ \A x \in Thread : \A i \in 1..Len(stack'[x]) : stack'[x][i] = stack[x][i]
  BY <1>1, PopMoves
<1>3. "main" \in Thread /\ "stats" \in Thread
  BY DEF Thread
<1>4. TypeOK'
  BY <1>1, <1>2, ComponentsAssumption DEF TypeOK
<1>5. \A x \in Thread :
        /\ DOMAIN stack[x] = 1..Len(stack[x]) /\ DOMAIN stack'[x] = 1..Len(stack'[x])
        /\ stack'[x] = <<>> <=> Len(stack'[x]) = 0
        /\ stack[x] = <<>> <=> Len(stack[x]) = 0
        /\ Len(stack[x]) \in Nat
  <2> SUFFICES ASSUME NEW x \in Thread
               PROVE  /\ DOMAIN stack[x] = 1..Len(stack[x])
                      /\ DOMAIN stack'[x] = 1..Len(stack'[x])
                      /\ stack'[x] = <<>> <=> Len(stack'[x]) = 0
                      /\ stack[x] = <<>> <=> Len(stack[x]) = 0
                      /\ Len(stack[x]) \in Nat
    OBVIOUS
  <2>1. stack'[x] \in Seq(Frame)
    BY <1>2
  <2>2. /\ DOMAIN stack[x] = 1..Len(stack[x]) /\ Len(stack[x]) \in Nat
        /\ stack[x] = <<>> <=> Len(stack[x]) = 0
    BY <1>1, StackTypes
  <2>3. DOMAIN stack'[x] = 1..Len(stack'[x]) /\ (stack'[x] = <<>> <=> Len(stack'[x]) = 0)
    BY <2>1, LenProperties, EmptySeq
  <2> QED
    BY <2>2, <2>3
<1>6. FramesOK'
  BY PopFrames
<1>7. Stages'
  <2>1. stack'["stats"] # <<>> => stack["stats"] # <<>>
    BY <1>2, <1>3, <1>5
  <2> QED
    BY <1>1, <2>1 DEF Stages, Started, StatsThreadHasComponents, TypeOK
<1>8. CleanupDue'
  <2> SUFFICES ASSUME Started, ~ joinable, components' # 0
               PROVE  \E i \in DOMAIN stack'["main"] : stack'["main"][i].pc = "cleanup"
    BY DEF CleanupDue, Started
  <2>1. components # 0 /\ Top(th).pc # "cleanup"
    OBVIOUS
  <2>2. PICK i \in DOMAIN stack["main"] : stack["main"][i].pc = "cleanup"
    BY <1>1, <2>1 DEF CleanupDue
  <2>3. ~ (th = "main" /\ i = Len(stack["main"]))
    BY <1>1, <2>1, <2>2, TopFrame
  <2>4. i \in 1..Len(stack'["main"])
    BY <1>2, <1>3, <1>5, <2>3
  <2>5. i \in DOMAIN stack'["main"] /\ stack'["main"][i] = stack["main"][i]
    BY <1>2, <1>3, <1>5, <2>4
  <2> QED
    BY <2>2, <2>5
<1>9. Unhurried'
  <2> SUFFICES ASSUME ~ hurried PROVE Unhurried'
    BY DEF Unhurried
  <2>1. th = "main" /\ stack["stats"] = <<>> /\ Len(stack["main"]) = 1
    BY OneHandler
  <2>2. stack'["stats"] = <<>> /\ stack'["main"] = <<>> /\ Len(stack'["main"]) = 0
    <3>1. Len(stack'["main"]) = Len(stack["main"]) - 1
          /\ Len(stack'["stats"]) = Len(stack["stats"])
      BY <1>2, <1>3, <2>1
    <3>2. Len(stack["stats"]) = 0
      BY <1>3, <1>5, <2>1
    <3>3. Len(stack'["main"]) = 0 /\ Len(stack'["stats"]) = 0
      BY <2>1, <3>1, <3>2
    <3> QED
      BY <1>3, <1>5, <3>3
  <2> QED
    BY <2>2 DEF Unhurried
<1>10. AbortOnlyIfHurried' /\ CleanExit'
  BY <1>1 DEF AbortOnlyIfHurried, CleanExit
<1> QED
  BY <1>4, <1>6, <1>7, <1>8, <1>9, <1>10 DEF ServerInv

\* What the handler that runs can rely on.
LEMMA TopStages ==
  ASSUME ServerInv, NEW th \in Thread, stack[th] # <<>>, ended = "no"
  PROVE  /\ Started /\ ~ joinable => stats = "done"
         /\ ~ Started => ~ joinable
         /\ main = "set_running" => joinable
         /\ is_running => joinable /\ main = "loop"
         /\ main # "return"
         /\ th = "stats" => stats = "loop" /\ joinable /\ hurried
         /\ ~ hurried /\ main = "loop" /\ ~ is_running /\ joinable
              => Top(th).pc \in {"flag", "join"}
         /\ ~ hurried /\ Top(th).sig = "SIGQUIT" => main \notin {"start", "set_running"}
         /\ ~ hurried /\ Top(th).pc = "exit" => ~ joinable
         /\ is_running \in BOOLEAN /\ stop_stats \in BOOLEAN /\ joinable \in BOOLEAN
<1>1. TypeOK /\ Stages /\ Unhurried
  BY DEF ServerInv
<1>2. ~ hurried => /\ th = "main" /\ stack["main"] # <<>> /\ Top(th) = stack["main"][1]
  BY OneHandler
<1>3. th = "stats" => stats = "loop" /\ joinable
  BY <1>1 DEF Stages, Started, TypeOK
<1> QED
  BY <1>1, <1>2, <1>3 DEF Stages, Started, Unhurried, TypeOK

LEMMA BeginStep ==
  ASSUME ServerInv, NEW th \in Thread, HandlerBegin(th)
  PROVE  ServerInv'
<1>1. /\ stack[th] # <<>> /\ ended = "no" /\ Top(th).pc = "begin"
      /\ UNCHANGED <<main, ended, sent, hurried, is_running, stop_stats, stats, joinable,
                     components>>
  BY DEF HandlerBegin, At, serverVars
<1>2. Top(th) \in Frame
  BY <1>1, TopOK
<1>3. CASE Goto(th, "test")
  BY <1>1, <1>3, TopStages, GotoStep
<1>4. CASE Goto(th, "exit") /\ Top(th).of # "server" /\ ~ HaveServer
  <2>1. Top(th).of = "main.cpp"
    BY <1>2, <1>4 DEF Frame
  <2>2. ~ Started
    BY <1>4 DEF HaveServer, Started
  <2> QED
    BY <1>1, <1>4, <2>1, <2>2, TopStages, GotoStep DEF Started
<1> QED
  BY <1>3, <1>4 DEF HandlerBegin

\* main.cpp's handler calls exit: what was left of stop() is done, or SIGQUIT
\* has cut it short.
LEMMA ExitStep ==
  ASSUME ServerInv, NEW th \in Thread, HandlerExit(th)
  PROVE  ServerInv'
<1>1. /\ stack[th] # <<>> /\ ended = "no" /\ Top(th).pc = "exit"
      /\ UNCHANGED <<main, stack, sent, hurried, is_running, stop_stats, stats, joinable,
                     components>>
      /\ ended' = IF joinable THEN "abort" ELSE "exit"
  BY DEF HandlerExit, At, Exit, serverVars
<1>2. TypeOK /\ FramesOK /\ Stages /\ CleanupDue /\ Unhurried
  BY DEF ServerInv
<1>3. TypeOK'
  BY <1>1, <1>2 DEF TypeOK
<1>4. FramesOK' /\ CleanupDue' /\ Unhurried'
  BY <1>1, <1>2 DEF FramesOK, FrameOK, CleanupDue, Started, Unhurried
<1>5. Stages'
  BY <1>1, <1>2 DEF Stages, Started, StatsThreadHasComponents
<1>6. AbortOnlyIfHurried'
  BY <1>1, TopStages DEF AbortOnlyIfHurried
<1>7. CleanExit'
  <2> SUFFICES ASSUME ended' = "exit"
               PROVE  /\ ~ is_running /\ ~ joinable /\ stats # "loop"
                      /\ components = 0 \/ (hurried /\ \E i \in DOMAIN sent : sent[i] = "SIGQUIT")
    BY <1>1 DEF CleanExit
  <2>1. ~ joinable
    BY <1>1
  <2>2. ~ is_running /\ stats # "loop"
    BY <1>2, <2>1 DEF Stages, TypeOK
  <2>3. /\ Top(th).sig = "SIGQUIT" \/ main = "construct"
        /\ \E i \in DOMAIN sent : sent[i] = Top(th).sig
    BY <1>1, TopOK DEF FrameOK
  <2>4. main \in {"construct", "assign"} => components = 0
    BY <1>2 DEF Stages
  <2>5. ASSUME ~ hurried, components # 0 PROVE FALSE
    <3>1. /\ th = "main" /\ Top(th) = stack["main"][1]
          /\ stack["main"][1].pc = "exit"
          /\ DOMAIN stack["main"] = {1}
      <4>1. th = "main" /\ stack["main"] # <<>> /\ Top(th) = stack["main"][1]
        BY <1>1, <2>5, OneHandler
      <4>2. stack["main"] \in Seq(Frame) /\ Len(stack["main"]) <= 1
        BY <1>2, <2>5 DEF TypeOK, Unhurried, Thread
      <4> QED
        BY <1>1, <4>1, <4>2
    <3>2. main \notin {"construct", "assign", "start", "set_running", "return"}
      BY <1>1, <1>2, <2>3, <2>4, <2>5, <3>1 DEF Stages, Unhurried
    <3>3. Started
      BY <1>2, <3>2 DEF TypeOK, Started
    <3> QED
      BY <1>2, <2>1, <2>5, <3>1, <3>3 DEF CleanupDue
  <2> QED
    BY <2>1, <2>2, <2>3, <2>4, <2>5
<1> QED
  BY <1>3, <1>4, <1>5, <1>6, <1>7 DEF ServerInv

LEMMA TestStep ==
  ASSUME ServerInv, NEW th \in Thread, StopTest(th)
  PROVE  ServerInv'
<1>1. /\ stack[th] # <<>> /\ ended = "no" /\ Top(th).pc = "test"
      /\ UNCHANGED <<main, ended, sent, hurried, is_running, stop_stats, stats, joinable,
                     components>>
  BY DEF StopTest, At, serverVars
<1>2. CASE is_running /\ Goto(th, "clear")
  BY <1>1, <1>2, TopStages, GotoStep
<1>3. CASE ~ is_running /\ Return(th)
  <2>1. Top(th).of = "main.cpp" => Top(th).sig = "SIGQUIT" \/ main = "construct"
    BY <1>1, TopOK DEF FrameOK
  <2>2. TypeOK
    BY DEF ServerInv
  <2>3. CASE Top(th).of = "main.cpp" /\ Goto(th, "exit")
    <3>1. ~ hurried => ~ joinable
      BY <1>1, <1>3, <2>1, <2>2, <2>3, TopStages DEF TypeOK, Started
    <3> QED
      BY <1>1, <1>3, <2>3, <3>1, TopStages, GotoStep
  <2>4. CASE stack' = [stack EXCEPT ![th] = Front(@)]
    BY <1>1, <1>3, <2>4, TopStages, PopStep
  <2> QED
    BY <1>3, <2>3, <2>4 DEF Return
<1> QED
  BY <1>2, <1>3 DEF StopTest

LEMMA ClearStep ==
  ASSUME ServerInv, NEW th \in Thread, StopClear(th)
  PROVE  ServerInv'
<1>1. /\ stack[th] # <<>> /\ ended = "no" /\ Top(th).pc = "clear"
      /\ UNCHANGED <<main, ended, sent, hurried, stop_stats, stats, joinable, components>>
      /\ is_running' = FALSE /\ Goto(th, "flag")
  BY DEF StopClear, At
<1>2. main \in {"loop", "return"}
  BY <1>1, TopOK DEF FrameOK
<1>3. is_running' \in BOOLEAN /\ ~ is_running'
  BY <1>1, Zenon
<1> QED
  BY <1>1, <1>2, <1>3, TopStages, GotoStep

LEMMA FlagStep ==
  ASSUME ServerInv, NEW th \in Thread, StopFlag(th)
  PROVE  ServerInv'
<1>1. /\ stack[th] # <<>> /\ ended = "no" /\ Top(th).pc = "flag"
      /\ UNCHANGED <<main, ended, sent, hurried, is_running, stats, joinable, components>>
      /\ stop_stats' = TRUE /\ Goto(th, "join")
  BY DEF StopFlag, At
<1>2. main \in {"loop", "return"} /\ ~ is_running
  BY <1>1, TopOK DEF FrameOK
<1>3. stop_stats' \in BOOLEAN
  BY <1>1, Zenon
<1> QED
  BY <1>1, <1>2, <1>3, TopStages, GotoStep

\* The join: a thread that would join itself ends the process, which takes two
\* signals, since only the second can be on the statistics thread.
LEMMA JoinStep ==
  ASSUME ServerInv, NEW th \in Thread, StopJoin(th)
  PROVE  ServerInv'
<1>1. /\ stack[th] # <<>> /\ ended = "no" /\ Top(th).pc = "join"
      /\ UNCHANGED <<main, sent, hurried, is_running, stop_stats, stats, components>>
  BY DEF StopJoin, At
<1>2. main \in {"loop", "return"} /\ ~ is_running
  BY <1>1, TopOK DEF FrameOK
<1>3. CASE ended' = "abort" /\ UNCHANGED <<joinable, stack>> /\ th = "stats"
  <2>1. hurried
    BY <1>1, <1>3, TopStages
  <2>2. TypeOK /\ FramesOK /\ Stages /\ CleanupDue
    BY DEF ServerInv
  <2>3. TypeOK' /\ FramesOK' /\ CleanupDue'
    BY <1>1, <1>3, <2>2 DEF TypeOK, FramesOK, FrameOK, CleanupDue, Started
  <2>4. Stages'
    BY <1>1, <1>3, <2>2 DEF Stages, Started, StatsThreadHasComponents
  <2>5. Unhurried' /\ AbortOnlyIfHurried' /\ CleanExit'
    BY <1>1, <1>3, <2>1 DEF Unhurried, AbortOnlyIfHurried, CleanExit
  <2> QED
    BY <2>3, <2>4, <2>5 DEF ServerInv
<1>4. CASE joinable' = FALSE /\ Goto(th, "cleanup") /\ UNCHANGED ended
           /\ ~ (joinable /\ th = "stats")
  <2>1. joinable' \in BOOLEAN /\ ~ joinable'
    BY <1>4, Zenon
  <2>2. stats = "done"
    BY <1>1, <1>2, <1>4, TopStages DEF StopJoin, Started
  <2>3. ~ joinable \/ th = "main"
    BY <1>4 DEF Thread
  <2> QED
    BY <1>1, <1>2, <1>4, <2>1, <2>2, <2>3, TopStages, GotoStep
<1> QED
  BY <1>3, <1>4 DEF StopJoin

LEMMA CleanupStep ==
  ASSUME ServerInv, NEW th \in Thread, StopCleanup(th)
  PROVE  ServerInv'
<1>1. /\ stack[th] # <<>> /\ ended = "no" /\ Top(th).pc = "cleanup"
      /\ UNCHANGED <<main, ended, sent, hurried, is_running, stop_stats, stats, joinable>>
      /\ components' = 0 /\ Return(th)
  BY DEF StopCleanup, At
<1>2. main \in {"loop", "return"} /\ ~ is_running /\ ~ joinable
  BY <1>1, TopOK DEF FrameOK
<1>3. stats = "done"
  BY <1>1, <1>2, TopStages DEF Started
<1>4. CASE Top(th).of = "main.cpp" /\ Goto(th, "exit")
  BY <1>1, <1>2, <1>3, <1>4, TopStages, GotoStep
<1>5. CASE stack' = [stack EXCEPT ![th] = Front(@)]
  BY <1>1, <1>2, <1>3, <1>5, TopStages, PopStep
<1> QED
  BY <1>1, <1>4, <1>5 DEF Return

-----------------------------------------------------------------------------
LEMMA NextInv == ServerInv /\ [Next]_vars => ServerInv'
<1> SUFFICES ASSUME ServerInv, [Next]_vars PROVE ServerInv'
  OBVIOUS
<1>1. CASE Main \/ StatsEnd
  BY <1>1, MainStep, StatsEndStep
<1>2. ASSUME NEW th \in Thread, Handler(th) PROVE ServerInv'
  BY <1>2, BeginStep, ExitStep, TestStep, ClearStep, FlagStep, JoinStep, CleanupStep
  DEF Handler
<1>3. ASSUME NEW th \in Thread, NEW sig \in Signal, Deliver(th, sig) PROVE ServerInv'
  BY <1>3, DeliverStep
<1>4. CASE UNCHANGED vars
  <2>1. UNCHANGED <<main, is_running, stop_stats, stats, joinable, components, stack,
                    ended, sent, hurried>>
    BY <1>4 DEF vars
  <2>2. TypeOK'
    BY <2>1 DEF ServerInv, TypeOK
  <2>3. FramesOK' /\ CleanupDue' /\ Unhurried'
    BY <2>1 DEF ServerInv, FramesOK, FrameOK, CleanupDue, Started, Unhurried
  <2>4. Stages' /\ AbortOnlyIfHurried' /\ CleanExit'
    BY <2>1 DEF ServerInv, Stages, Started, StatsThreadHasComponents, AbortOnlyIfHurried,
                CleanExit
  <2> QED
    BY <2>2, <2>3, <2>4 DEF ServerInv
<1> QED
  BY <1>1, <1>2, <1>3, <1>4 DEF Next

LEMMA ServerInvariant == Spec => []ServerInv
BY InitInv, NextInv, PTL DEF Spec

\* The variables keep their types, whatever the number of components and
\* however many signals arrive.
THEOREM ServerTypeCorrect == Spec => []TypeOK
<1>1. ServerInv => TypeOK
  BY DEF ServerInv
<1> QED
  BY <1>1, ServerInvariant, PTL

\* std::terminate (a join of a thread by itself, or the destruction of a thread
\* that was not joined) needs a second signal during the first, or SIGQUIT in
\* the middle of start.
THEOREM AbortNeedsTwoSignals == Spec => []AbortOnlyIfHurried
<1>1. ServerInv => AbortOnlyIfHurried
  BY DEF ServerInv
<1> QED
  BY <1>1, ServerInvariant, PTL

\* exit(0) and the return of main() come after stop() has done its work, if no
\* signal interrupts another or start; and in any case with the flag down and
\* no thread left.
THEOREM ExitIsClean == Spec => []CleanExit
<1>1. ServerInv => CleanExit
  BY DEF ServerInv
<1> QED
  BY <1>1, ServerInvariant, PTL

\* The statistics thread never runs over components that stop() has released.
THEOREM ComponentsOutliveStats == Spec => []StatsThreadHasComponents
<1>1. ServerInv => StatsThreadHasComponents
  BY DEF ServerInv, Stages
<1> QED
  BY <1>1, ServerInvariant, PTL
=============================================================================
