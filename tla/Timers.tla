-------------------------------- MODULE Timers --------------------------------
(***************************************************************************)
(* uv::Timer (uvpp/uvpp_timer.h), uv::Loop::run, run_once, stop and        *)
(* update_time (uvpp/uvpp_loop.h), and beneath them libuv's timers         *)
(* (win/timer.c) and the phases of uv_run (win/core.c) that they share     *)
(* with one request of any other kind.                                     *)
(*                                                                         *)
(* The loop works with a cached time, moved forward by uv_update_time and  *)
(* by polls that time out, never back; the clock goes on meanwhile.  Times *)
(* are unsigned integers of one width, Word values, and the poll timeout  *)
(* is narrower.  RB_MIN of the tree of timers is the timer with the least  *)
(* due and, among those, start_id: here the order of the last starts.      *)
(*                                                                         *)
(* Everything but the clock and the kernel runs on the loop thread, and    *)
(* the program may call what it likes from any callback.  A field that     *)
(* nothing reads before it is set again is 0 or FALSE meanwhile.           *)
(***************************************************************************)
EXTENDS Integers, SequencesExt

CONSTANTS
  Timers,     \* the timers of one loop
  Settings,   \* the timeouts and repeat values the program gives each
  Word,       \* a uint64_t is in 0..Word-1
  MaxPoll,    \* UINT_MAX - 1, the longest poll
  Horizon     \* bound: the clock stops there

ASSUME TimesAssumption ==
  /\ Word \in Nat /\ Horizon \in Nat /\ Horizon < Word \div 2
  /\ MaxPoll \in 1..(Word \div 2 - 1)
ASSUME TimersAssumption ==
  /\ IsFiniteSet(Timers)
  /\ Settings \in [Timers -> SUBSET [timeout: 0..(Word - 1), repeat: 0..(Word - 1)]]

VARIABLES
  timer,     \* each uv_timer_t with the wrapper's m_functor
  order,     \* the active timers, by start_id
  endgame,   \* loop->endgame_handles
  request,   \* a request: "none", "started", in the "port", or "pending"
  clock,     \* uv__hrtime
  time,      \* loop->time
  stop,      \* loop->stop_flag
  at,        \* where the loop thread is
  run,       \* the local variables of uv_run
  asked,     \* history: when each active timer was meant to be due
  passed     \* history: those that fired while each active timer was due

times == <<clock, time>>
history == <<asked, passed>>
vars == <<timer, order, endgame, request, times, stop, at, run, history>>

Infinite == -1   \* INFINITE, a poll without timeout

\* The callbacks of the program; "onceCb" is that of a timer which the second
\* uv_process_timers of UV_RUN_ONCE calls.
Callback == {"timerCb", "onceCb", "requestCb", "closeCb"}
Place == {"out", "timers", "reqs", "wait", "poll", "endgames", "timersOnce",
          "end"} \union Callback

Fresh(life) ==
  [life |-> life, due |-> 0, repeat |-> 0,
   started |-> FALSE,    \* timer_cb is not NULL
   functor |-> FALSE]    \* m_functor holds a function

NoRun ==
  [mode |-> "none", ran |-> FALSE, timeout |-> 0, until |-> 0,
   awaited |-> FALSE]    \* history: a poll has waited until the first timer
                         \* is due, and none has fired since

Init ==
  /\ timer = [t \in Timers |-> Fresh("open")]
  /\ order = <<>> /\ endgame = <<>> /\ request = "none"
  /\ clock = 0 /\ time = 0 /\ stop = FALSE
  /\ at = "out"
  /\ run = NoRun
  /\ asked = [t \in Timers |-> 0] /\ passed = [t \in Timers |-> {}]

-----------------------------------------------------------------------------
(* The tree of timers.                                                     *)

Active(t) == t \in ToSet(order)
Later(x, y) == IF x > y THEN x ELSE y

WrappedDueTime(timeout) == (time + timeout) % Word      \* mutant of DueTime

\* get_clamped_due_time
DueTime(timeout) ==
  LET sum == (time + timeout) % Word IN
  IF sum < timeout THEN Word - 1 ELSE sum

FirstByDueOnly ==                                        \* mutant of First
  LET due == {timer[t].due : t \in ToSet(order)} IN
  CHOOSE t \in Timers : Active(t) /\ \A d \in due : timer[t].due <= d

\* RB_MIN by uv_timer_compare; there is an active timer.
First ==
  LET due(i) == timer[order[i]].due IN
  order[CHOOSE i \in DOMAIN order : \A j \in DOMAIN order :
          due(i) < due(j) \/ (due(i) = due(j) /\ i <= j)]

Due(t) == Active(t) /\ timer[t].due <= time

\* uv_timer_start, but for the wrapper's part.
Insert(t, timeout, new) ==
  /\ timer' = [timer EXCEPT ![t] = [new EXCEPT !.due = DueTime(timeout),
                                               !.started = TRUE]]
  /\ order' = Append(RemoveFirst(order, t), t)
  /\ asked' = [asked EXCEPT ![t] = time + timeout]
  /\ passed' = [passed EXCEPT ![t] = {}]

\* uv_timer_stop, the timer being new after it.
Take(t, new) ==
  /\ timer' = [timer EXCEPT ![t] = new]
  /\ order' = RemoveFirst(order, t)
  /\ asked' = [asked EXCEPT ![t] = 0]
  /\ passed' = [passed EXCEPT ![t] = {}]

-----------------------------------------------------------------------------
(* What the program does, outside uv_run or in a callback.                 *)

UserTurn == at \in {"out"} \union Callback
Mine(t) == UserTurn /\ timer[t].life = "open"
Elsewhere == UNCHANGED <<endgame, request, times, stop, at, run>>

\* Timer::start
Start(t, set) ==
  /\ Mine(t)
  /\ Insert(t, set.timeout,
            [timer[t] EXCEPT !.repeat = set.repeat, !.functor = TRUE])
  /\ Elsewhere

\* Timer::stop
Stop(t) ==
  /\ Mine(t)
  /\ Take(t, [timer[t] EXCEPT !.due = 0, !.functor = FALSE])
  /\ Elsewhere

\* Timer::again; uv_timer_again does nothing for a timer never started, and
\* leaves one alone that does not repeat.
Again(t) ==
  /\ Mine(t) /\ timer[t].started /\ timer[t].repeat > 0
  /\ Insert(t, timer[t].repeat, timer[t])
  /\ Elsewhere

\* Timer::setRepeat
SetRepeat(t, repeat) ==
  /\ Mine(t)
  /\ timer' = [timer EXCEPT ![t].repeat = repeat]
  /\ UNCHANGED <<order, history>> /\ Elsewhere

\* Handle::close, with uv_close and uv_want_endgame.
Close(t) ==
  /\ Mine(t)
  /\ Take(t, Fresh("closing"))
  /\ endgame' = <<t>> \o endgame
  /\ UNCHANGED <<request, times, stop, at, run>>

\* The program starts a request, as queue_work or write does.
Submit ==
  /\ UserTurn /\ request = "none"
  /\ request' = "started"
  /\ UNCHANGED <<timer, order, endgame, times, stop, at, run, history>>

\* Loop::stop
StopLoop ==
  /\ UserTurn
  /\ stop' = TRUE
  /\ UNCHANGED <<timer, order, endgame, request, times, at, run, history>>

\* uv_update_time
Update == time' = Later(time, clock) /\ UNCHANGED clock

\* Loop::update_time
UpdateTime ==
  /\ UserTurn /\ Update
  /\ UNCHANGED <<timer, order, endgame, request, stop, at, run, history>>

-----------------------------------------------------------------------------
(* uv_run, in the order of its phases.                                     *)

Goto(from, to) == at = from /\ at' = to
Tree == <<timer, order, history>>

\* uv__loop_alive
Alive ==
  \/ order # <<>> \/ request # "none"
  \/ \E t \in Timers : timer[t].life = "closing"

\* The condition of the while loop, then its first lines.
Iterate == Alive /\ ~ stop /\ Update /\ at' = "timers" /\ UNCHANGED stop

\* The end of uv_run.
Leave == at' = "out" /\ stop' = FALSE /\ run' = NoRun

\* Loop::run and Loop::run_once
Enter(mode) ==
  /\ at = "out" /\ Iterate
  /\ run' = [NoRun EXCEPT !.mode = mode]
  /\ UNCHANGED <<Tree, endgame, request>>

\* There is nothing to do, or stop has been called before.
RunInVain ==
  /\ at = "out" /\ (~ Alive \/ stop)
  /\ IF Alive THEN UNCHANGED times ELSE Update
  /\ Leave
  /\ UNCHANGED <<Tree, endgame, request>>

\* A turn of uv_process_timers: uv_timer_stop, uv_timer_again, and timer_cb,
\* which calls m_functor if there is one.
Passing(t) ==
  [u \in Timers |-> IF u # t /\ Due(u) THEN passed[u] \union {t} ELSE passed[u]]

Restart(t) ==
  /\ timer' = [timer EXCEPT ![t].due = DueTime(timer[t].repeat)]
  /\ order' = Append(RemoveFirst(order, t), t)
  /\ asked' = [asked EXCEPT ![t] = time + timer[t].repeat]
  /\ passed' = [Passing(t) EXCEPT ![t] = {}]

Expire(t) ==
  /\ timer' = [timer EXCEPT ![t].due = 0]
  /\ order' = RemoveFirst(order, t)
  /\ asked' = [asked EXCEPT ![t] = 0]
  /\ passed' = [Passing(t) EXCEPT ![t] = {}]

RestartAlways(t) ==                                      \* mutant of Fire
  /\ at \in {"timers", "timersOnce"} /\ order # <<>>
  /\ t = First /\ Due(t)
  /\ Restart(t)
  /\ run' = [run EXCEPT !.awaited = FALSE]
  /\ at' = IF ~ timer[t].functor THEN at
           ELSE IF at = "timers" THEN "timerCb" ELSE "onceCb"
  /\ UNCHANGED <<endgame, request, times, stop>>

Fire(t) ==
  /\ at \in {"timers", "timersOnce"} /\ order # <<>>
  /\ t = First /\ Due(t)
  /\ IF timer[t].repeat > 0 THEN Restart(t) ELSE Expire(t)
  /\ run' = [run EXCEPT !.awaited = FALSE]
  /\ at' = IF ~ timer[t].functor THEN at
           ELSE IF at = "timers" THEN "timerCb" ELSE "onceCb"
  /\ UNCHANGED <<endgame, request, times, stop>>

TimersDone ==
  /\ \A t \in Timers : ~ Due(t)
  /\ Goto("timers", "reqs") \/ Goto("timersOnce", "end")
  /\ UNCHANGED <<Tree, endgame, request, times, stop, run>>

\* uv_process_reqs, which the request's callback ends.
ProcessRequest ==
  /\ request = "pending" /\ Goto("reqs", "requestCb")
  /\ request' = "none"
  /\ run' = [run EXCEPT !.ran = TRUE]
  /\ UNCHANGED <<Tree, endgame, times, stop>>

NoRequest ==
  /\ request # "pending" /\ Goto("reqs", "wait")
  /\ UNCHANGED <<Tree, endgame, request, times, stop, run>>

PollForever ==                                           \* mutant of NextTimeout
  IF order = <<>> \/ timer[First].due - time >= MaxPoll THEN Infinite
  ELSE Later(timer[First].due - time, 0)

\* uv__next_timeout, whose delta is an int64_t.
NextTimeout ==
  LET rest == (timer[First].due - time) % Word
      delta == IF rest >= Word \div 2 THEN rest - Word ELSE rest IN
  IF order = <<>> THEN Infinite
  ELSE IF delta >= MaxPoll THEN MaxPoll
  ELSE Later(delta, 0)

DeafTimeout ==                                           \* mutant of BackendTimeout
  IF ~ Alive \/ request = "pending" \/ endgame # <<>> THEN 0 ELSE NextTimeout

\* uv_backend_timeout
BackendTimeout ==
  IF stop \/ ~ Alive \/ request = "pending" \/ endgame # <<>> THEN 0
  ELSE NextTimeout

BeginPoll ==
  /\ Goto("wait", "poll")
  /\ LET timeout == IF run.mode = "once" /\ run.ran THEN 0
                    ELSE BackendTimeout IN
     run' = [run EXCEPT !.ran = FALSE, !.timeout = timeout,
                        !.until = IF timeout = Infinite THEN 0
                                  ELSE clock + timeout]
  /\ UNCHANGED <<Tree, endgame, request, times, stop>>

\* uv_poll dequeues a packet, and leaves it to uv_process_reqs ...
PollPacket ==
  /\ request = "port" /\ Goto("poll", "endgames")
  /\ request' = "pending"
  /\ Update
  /\ run' = [run EXCEPT !.timeout = 0, !.until = 0]
  /\ UNCHANGED <<Tree, endgame, stop>>

\* The poll lasts until the first timer is due: it does not return at once,
\* and is not cut short at the longest poll.
WaitsForTimer ==
  run.timeout > 0 /\ ~ (run.timeout = MaxPoll /\ timer[First].due - time > MaxPoll)

\* ... or times out, "occasionally a little early" (core.c:303).
PollTimesOut ==
  /\ request # "port" /\ Goto("poll", "endgames")
  /\ run.timeout # Infinite /\ time + run.timeout <= Horizon
  /\ run.timeout > 0 => clock >= run.until - 1 \/ clock = Horizon
  /\ time' = time + run.timeout
  /\ run' = [run EXCEPT !.timeout = 0, !.until = 0,
                        !.awaited = WaitsForTimer]
  /\ UNCHANGED <<Tree, endgame, request, clock, stop>>

\* uv_process_endgames: uv_timer_endgame, and the close callback.
Endgame ==
  /\ endgame # <<>> /\ Goto("endgames", "closeCb")
  /\ timer' = [timer EXCEPT ![Head(endgame)].life = "closed"]
  /\ endgame' = Tail(endgame)
  /\ UNCHANGED <<order, request, times, stop, run, history>>

SkipSecondPass ==                                        \* mutant of EndgamesDone
  /\ endgame = <<>> /\ Goto("endgames", "end")
  /\ UNCHANGED <<Tree, endgame, request, times, stop, run>>

EndgamesDone ==
  /\ endgame = <<>>
  /\ Goto("endgames", IF run.mode = "once" THEN "timersOnce" ELSE "end")
  /\ UNCHANGED <<Tree, endgame, request, times, stop, run>>

\* The end of an iteration.
GoOn ==
  /\ at = "end" /\ run.mode = "default" /\ Iterate
  /\ UNCHANGED <<Tree, endgame, request, run>>

Return ==
  /\ at = "end" /\ (run.mode = "once" \/ ~ Alive \/ stop)
  /\ Leave
  /\ UNCHANGED <<Tree, endgame, request, times>>

CallbackReturns ==
  /\ \/ Goto("timerCb", "timers") \/ Goto("onceCb", "timersOnce")
     \/ Goto("requestCb", "wait") \/ Goto("closeCb", "endgames")
  /\ UNCHANGED <<Tree, endgame, request, times, stop, run>>

-----------------------------------------------------------------------------
\* The kernel completes the request.
Complete ==
  /\ request = "started" /\ request' = "port"
  /\ UNCHANGED <<Tree, endgame, times, stop, at, run>>

\* Time passes in callbacks, in polls and outside uv_run.
Tick ==
  /\ UserTurn \/ at = "poll"
  /\ clock < Horizon /\ clock' = clock + 1
  /\ UNCHANGED <<Tree, endgame, request, time, stop, at, run>>

\* The end of the modelled time, in a poll.
TimeIsUp ==
  /\ at = "poll" /\ request = "none" /\ clock = Horizon
  /\ UNCHANGED vars

User ==
  \/ \E t \in Timers :
       \/ \E set \in Settings[t] : Start(t, set) \/ SetRepeat(t, set.repeat)
       \/ Stop(t) \/ Again(t) \/ Close(t)
  \/ Submit \/ StopLoop \/ UpdateTime

Phases ==
  \/ \E t \in Timers : Fire(t)
  \/ TimersDone \/ ProcessRequest \/ NoRequest \/ BeginPoll \/ PollPacket
  \/ PollTimesOut \/ Endgame \/ EndgamesDone \/ GoOn \/ Return
  \/ CallbackReturns

EnterRun == \E mode \in {"default", "once"} : Enter(mode)

Next ==
  User \/ EnterRun \/ RunInVain \/ Phases \/ Complete \/ Tick \/ TimeIsUp

Spec == Init /\ [][Next]_vars

\* The loop thread goes on, callbacks return and the clock runs.  The program
\* runs the loop again and again, and does not stop it each time before.
Fairness ==
  /\ WF_vars(Phases) /\ WF_vars(RunInVain) /\ SF_vars(Tick)
  /\ SF_vars(EnterRun)

FairSpec == Spec /\ Fairness

-----------------------------------------------------------------------------
(* Properties.                                                             *)

TypeOK ==
  /\ timer \in [Timers -> [life: {"open", "closing", "closed"},
                           due: 0..(Word - 1), repeat: 0..(Word - 1),
                           started: BOOLEAN, functor: BOOLEAN]]
  /\ ToSet(order) \subseteq {t \in Timers : timer[t].life = "open"}
  /\ IsInjective(order) /\ IsInjective(endgame)
  /\ ToSet(endgame) = {t \in Timers : timer[t].life = "closing"}
  /\ request \in {"none", "started", "port", "pending"}
  /\ clock \in 0..Horizon /\ time \in 0..Horizon
  /\ stop \in BOOLEAN /\ at \in Place
  /\ run \in [mode: {"none", "default", "once"}, ran: BOOLEAN,
              timeout: Nat \union {Infinite}, until: Nat, awaited: BOOLEAN]
  /\ asked \in [Timers -> Nat] /\ passed \in [Timers -> SUBSET Timers]

\* A timer fires only when the loop's time has reached the time it was started
\* or restarted for, even if that is past the end of the time's width.
NeverEarly == [][\A t \in Timers : Fire(t) => time >= asked[t]]_vars

\* Among timers that are due, none fires twice before another, whatever the
\* callbacks stop, start and restart, and however often with timeout 0.
NoOvertaking ==
  [][\A t, u \in Timers : t # u /\ Fire(t) /\ Due(u) => t \notin passed[u]]_vars

\* uv_run does not return between the wait for a timer and the timer: when a
\* poll has waited until the first timer is due, that timer fires before
\* uv_run returns, in the second uv_process_timers of UV_RUN_ONCE or in the
\* next iteration, even when the clock was not there yet at the end of the
\* poll (core.c:303).
AwaitedFires == [][Return => ~ run.awaited]_vars

\* In a callback of a timer, the program starts one that is due at once.
StartsDue ==
  /\ at \in {"timerCb", "onceCb"}
  /\ \E t \in Timers : \E set \in Settings[t] :
       set.timeout = 0 /\ Start(t, set)

Spinning == []<><<StartsDue>>_vars

\* No timer due within the modelled time is forgotten while it is active: it
\* fires, unless uv_process_timers is kept going by timers started in their
\* own callbacks with timeout 0.
TimersFire ==
  \/ Spinning
  \/ \A t \in Timers, d \in 0..Horizon : []<> ~ (Active(t) /\ timer[t].due = d)

\* Nothing else keeps uv_process_timers going: the loop polls for requests
\* again and again, with timers that repeat and callbacks that take long.
LoopGoesOn == Spinning \/ []<>(at \in {"poll", "out"})

\* Once stopped, uv_run returns: it does not wait for a request or a timer.
StopIsHeard == Spinning \/ []<> ~ stop
=============================================================================
