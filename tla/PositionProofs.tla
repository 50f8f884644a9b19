---------------------------- MODULE PositionProofs ----------------------------
(***************************************************************************)
(* Theorems about a position of the ICT bot.  While it is open, in the      *)
(* hands of the loop, the watcher, the exchange and restarts (Manage): it   *)
(* is not forgotten, half of it is sold once, and its stop moves one way.   *)
(* Before that, the decision on its entry (Decision): the daily limits stop *)
(* it, and no setup is ordered twice in a row.  For every setting, every    *)
(* trouble and any number of positions, moves, setups, days and crashes.    *)
(***************************************************************************)
EXTENDS Manage, Decision, FiniteSetTheorems, WellFoundedInduction, TLAPS

ManageSpec == ManageInit /\ [][ManageNext]_managed

-----------------------------------------------------------------------------
(* The inductive invariant *)

Stages == {"down", "sleep", "entry", "arm", "setHalf", "be", "half", "halfBe", "trail",
           "flip1", "flip2", "read", "verify", "closed"}
Held == [qty : 0..Full, sl : Nil..Tp, half : 0..Full, trailing : BOOLEAN]
Memory == [qty : 0..Full, sl : Nil..Tp, done : BOOLEAN, onExchange : BOOLEAN,
           armed : BOOLEAN, be : BOOLEAN, target : BOOLEAN]
Bars == [high : Marks, close : Marks]
Ghosts == [sold : Nat, blurred : BOOLEAN]

Typed ==
    /\ style \in Styles /\ market.price \in Marks /\ market.high \in Marks
    /\ ex \in Held /\ mem \in Memory /\ ghost \in Ghosts /\ blind \in BOOLEAN
    /\ step \in [call : Stages, answer : {"ok", "no"}, bar : Bars]
    /\ watch \in [mode : {"off", "ws", "polling"}, last : Nil..Tp,
                  does : {"idle", "verify", "exit1", "exit2"}, answer : {"ok", "no"}]

\* The circumstances under which a stop is never moved back: no answer is lost, and the
\* trail is not combined with locks that move the stop to the entry.
Steady ==
    /\ "lost" \notin Troubles
    /\ \A s \in Styles : "trail" \in s => "be" \notin s /\ "half" \notin s

\* The watcher was told that its order closed the position.
WatcherTold == watch.does \in {"exit1", "exit2"} /\ watch.answer = "ok"

\* The exchange's position, whoever acts on it.
Base ==
    /\ ex.qty = 0 => ex = Flat
    /\ WatcherTold => ex.qty = 0
    /\ ~ghost.blurred => ghost.sold <= 2 /\ ex.half <= 2
    /\ Steady /\ "trail" \notin style => ex.sl <= Entry

\* A memory m of the position that goes with what the exchange has: it says no less than
\* is there; when the exchange has the half order, or half is sold, it says so; and its
\* stop is not below the exchange's.
Fits(m) ==
    /\ m.qty > 0 /\ ex.qty <= m.qty
    /\ ~ghost.blurred => /\ ex.half > 0 => ghost.sold = 0 /\ m.onExchange
                         /\ ghost.sold > 0 /\ ex.qty > 0 => m.done \/ m.onExchange
    /\ m.onExchange => "half" \in style
    /\ Steady => /\ "trail" \notin style => m.sl <= Entry
                 /\ ex.qty > 0 => ex.sl <= m.sl

\* The memory as it will be when the answer the loop waits for is in.
Due(m, call, answer) ==
    CASE call = "be" /\ answer = "ok"      -> [m EXCEPT !.sl = Entry, !.be = TRUE]
      [] call = "half" /\ answer = "ok"    -> [m EXCEPT !.qty = @ - Half(@), !.done = TRUE,
                                                        !.sl = Entry]
      [] call = "setHalf" /\ answer = "ok" -> [m EXCEPT !.onExchange = TRUE]
      [] OTHER -> m

\* A read that failed hides the position, and what was done with it is blurred since.
Hidden == blind /\ ghost.blurred

LoopInv ==
    /\ mem # NoPosition => Fits(Due(mem, step.call, step.answer))
    /\ ex.qty > 0 /\ step.call # "down" => mem # NoPosition \/ Hidden
    /\ step.call = "down" => mem = NoPosition /\ ghost.blurred
                             /\ watch.does = "idle" /\ watch.mode = "off"
    /\ step.call = "closed" => ex.qty = 0 \/ Hidden
    /\ step.call \in {"flip1", "flip2"} /\ step.answer = "ok" => ex.qty = 0
    /\ Steady /\ step.call \in {"be", "half", "halfBe"} => "trail" \notin style
    /\ ~ghost.blurred /\ step.call \in {"entry", "arm", "setHalf"} => ~mem.onExchange /\ ~mem.done

Inv == Typed /\ Base /\ LoopInv

-----------------------------------------------------------------------------
(* Operators *)

\* Half of a quantity is less than it.
LEMMA HalfLess ==
    \A q \in 0..Full : Half(q) \in 0..2 /\ Half(q) <= q /\ (q > 0 => Half(q) < q)
<1> SUFFICES ASSUME NEW q \in 0..Full
             PROVE  Half(q) \in 0..2 /\ Half(q) <= q /\ (q > 0 => Half(q) < q)
    OBVIOUS
<1>1. q = 0 \/ q = 1 \/ q = 2 \/ q = 3 \/ q = 4
  BY DEF Full
<1> QED BY <1>1 DEF Half

\* What is left of the exchange's position when some of it is sold.
LEMMA SoldLeaves ==
    ASSUME ex \in Held, ex.qty > 0, NEW q \in Nat
    PROVE  /\ Sold(q) \in Held /\ Sold(q).qty <= ex.qty
           /\ q >= ex.qty => Sold(q) = Flat
           /\ q < ex.qty => /\ Sold(q).qty = ex.qty - q /\ Sold(q).qty > 0
                            /\ Sold(q).sl = ex.sl /\ Sold(q).half = ex.half
<1> USE DEF Full, Nil, Tp
<1>1. CASE q >= ex.qty
  BY <1>1 DEF Sold, Flat, Held
<1>2. CASE q < ex.qty
  <2>1. Sold(q) = [ex EXCEPT !.qty = ex.qty - q] /\ ex.qty - q \in 1..Full
    BY <1>2 DEF Sold, Held
  <2> QED BY <1>2, <2>1 DEF Held
<1> QED BY <1>1, <1>2 DEF Held

\* A write succeeds, fails, or succeeds without an answer.
LEMMA WriteCases ==
    ASSUME NEW p \in BOOLEAN, NEW after, NEW q, NEW a, NEW g \in BOOLEAN,
           Write(p, after, q, a, g)
    PROVE  \/ a = "ok" /\ p /\ ex' = after /\ ghost' = SoldSoFar(q)
           \/ a = "no" /\ ex' = ex /\ ghost' = ghost
           \/ a = "no" /\ p /\ ex' = after /\ ghost' = Blurred /\ "lost" \in Troubles
BY DEF Write, Trouble

\* What the history becomes.
LEMMA SoldGrows ==
    ASSUME ghost \in Ghosts, NEW q \in Nat
    PROVE  /\ SoldSoFar(q) \in Ghosts /\ SoldSoFar(q).blurred = ghost.blurred
           /\ ~ghost.blurred => SoldSoFar(q).sold = ghost.sold + q
           /\ Blurred \in Ghosts /\ Blurred.blurred
BY DEF SoldSoFar, Ghosts, Blurred

-----------------------------------------------------------------------------
(* What each call of the loop keeps *)

\* The stop does not move away from the price in this step.
Tightens == ex.qty > 0 /\ ex'.qty > 0 /\ ex.sl # Nil => ex'.sl >= ex.sl
WellKept == Inv' /\ (Steady => Tightens)

\* The loop changes nothing of the settings, the market and the watcher's handler.
Frame ==
    /\ style' = style /\ market' = market /\ blind' \in BOOLEAN
    /\ watch' \in [mode : {"off", "ws", "polling"}, last : Nil..Tp,
                   does : {"idle", "verify", "exit1", "exit2"}, answer : {"ok", "no"}]
    /\ watch'.does = watch.does /\ watch'.answer = watch.answer

\* The fields of a step, and when the memory stands for itself.
LEMMA StepFields ==
    ASSUME NEW call \in Stages, NEW a \in {"ok", "no"}, NEW bar \in Bars
    PROVE  /\ At(call, a, bar) \in [call : Stages, answer : {"ok", "no"}, bar : Bars]
           /\ At(call, a, bar).call = call /\ At(call, a, bar).answer = a
           /\ At(call, a, bar).bar = bar
BY DEF At

\* A call that has no effect of its own leaves the memory to write.
LEMMA DueIsMemory ==
    ASSUME NEW m, NEW call, NEW a, call \notin {"be", "half", "setHalf"} \/ a = "no"
    PROVE  Due(m, call, a) = m
BY DEF Due

\* A memory that says something is not NoPosition.
LEMMA KnownIsHeld ==
    /\ NoPosition \in Memory /\ NoPosition.qty = 0 /\ ~NoPosition.target
    /\ ~NoPosition.done /\ ~NoPosition.onExchange
    /\ Flat \in Held /\ Flat.qty = 0 /\ Flat.half = 0 /\ Flat.sl = Nil
BY DEF NoPosition, Flat, Memory, Held, Full, Nil, Tp

\* A pause or a read, with a memory that fits.
LEMMA RestKeeps ==
    ASSUME Typed, Base, Frame, ex' = ex, ghost' = ghost \/ ghost' = Blurred,
           NEW m \in Memory, mem' = m, m # NoPosition => Fits(m),
           m = NoPosition => ex.qty = 0 \/ Hidden',
           NEW call \in {"sleep", "read", "closed"}, call = "closed" => ex.qty = 0 \/ Hidden',
           NEW a \in {"ok", "no"}, NEW bar \in Bars, step' = At(call, a, bar)
    PROVE  WellKept
<1>1. step'.call = call /\ step'.answer = a /\ Typed'
      /\ (ghost' = ghost \/ ghost'.blurred)
  BY StepFields, SoldGrows DEF Typed, Frame, Stages
<1>2. Base'
  BY <1>1 DEF Base, Frame, WatcherTold
<1>3. m # NoPosition => Fits(m)'
  BY <1>1 DEF Fits, Frame
<1>4. Due(mem', step'.call, step'.answer) = m
  BY <1>1, DueIsMemory
<1>5. LoopInv'
  BY <1>1, <1>3, <1>4 DEF LoopInv
<1>6. Tightens
  BY DEF Typed, Tightens, Held, Nil, Tp
<1> QED BY <1>1, <1>2, <1>5, <1>6 DEF WellKept, Inv

\* A stop sent to the exchange is not below the one that is there, and the memory will
\* say as much.
LEMMA StopKeeps ==
    ASSUME Typed, Base, Frame, NEW m \in Memory, mem' = m, Fits(m),
           NEW call \in {"be", "halfBe", "verify", "trail"}, NEW a \in {"ok", "no"},
           NEW bar \in Bars, step' = At(call, a, bar), NEW l \in Nil..Tp,
           Write(StopTaken(l), [ex EXCEPT !.sl = l], 0, a, FALSE),
           Steady => /\ ex.qty > 0 => ex.sl <= l
                     /\ l <= m.sl \/ (call = "be" /\ l = Entry)
                     /\ "trail" \notin style => l <= Entry
                     /\ call \in {"be", "halfBe"} => "trail" \notin style
    PROVE  WellKept
<1> DEFINE after == [ex EXCEPT !.sl = l]
           due == Due(m, call, a)
<1>1. step'.call = call /\ step'.answer = a
      /\ step' \in [call : Stages, answer : {"ok", "no"}, bar : Bars]
  BY StepFields DEF Stages
<1>2. after \in Held /\ after.qty = ex.qty /\ after.half = ex.half /\ after.sl = l
  BY DEF Typed, Held
<1>3. \/ a = "ok" /\ ex.qty > 0 /\ ex' = after /\ ghost' = SoldSoFar(0)
      \/ a = "no" /\ ex' = ex /\ ghost' = ghost
      \/ a = "no" /\ ex.qty > 0 /\ ex' = after /\ ghost' = Blurred /\ "lost" \in Troubles
  <2>1. StopTaken(l) \in BOOLEAN /\ (StopTaken(l) => ex.qty > 0)
    BY DEF StopTaken
  <2> QED BY <2>1, WriteCases
<1>4. Typed'
  <2>1. SoldSoFar(0) \in Ghosts /\ Blurred \in Ghosts /\ ghost \in Ghosts
    BY SoldGrows DEF Typed
  <2>2. ghost' \in Ghosts /\ ex' \in Held
    BY <1>2, <1>3, <2>1 DEF Typed
  <2> HIDE DEF after, due
  <2> QED BY <1>1, <2>2 DEF Typed, Frame
<1>5. /\ ex'.qty = ex.qty /\ ex'.half = ex.half
      /\ ghost'.blurred \/ (~ghost.blurred /\ ghost'.sold = ghost.sold)
  <2>1. ghost \in Ghosts /\ ghost.sold \in Nat /\ 0 \in Nat
    BY DEF Typed, Ghosts
  <2>2. /\ SoldSoFar(0).blurred = ghost.blurred
        /\ ~ghost.blurred => SoldSoFar(0).sold = ghost.sold
        /\ Blurred.blurred
    BY <2>1, SoldGrows
  <2>3. ex'.qty = ex.qty /\ ex'.half = ex.half
    BY <1>2, <1>3
  <2>4. ghost'.blurred \/ (~ghost.blurred /\ ghost'.sold = ghost.sold)
    BY <1>3, <2>2
  <2> QED BY <2>3, <2>4
<1>6. ex.qty = 0 => ex' = ex
  BY <1>3
<1>7. Steady /\ ex.qty > 0 => (a = "ok" /\ ex'.sl = l) \/ (a = "no" /\ ex'.sl = ex.sl)
  BY <1>2, <1>3 DEF Steady
<1>8. Base'
  <2>1. ex.qty = 0 \/ ex.qty > 0
    BY DEF Typed, Held
  <2>2. ex'.qty = 0 => ex' = Flat
    BY <1>5, <1>6 DEF Base
  <2>3. Steady /\ "trail" \notin style' => ex'.sl <= Entry
    BY <1>6, <1>7, <2>1 DEF Base, Frame
  <2> QED BY <1>5, <2>2, <2>3 DEF Base, Frame, WatcherTold
<1>9. /\ due.qty = m.qty /\ due.onExchange = m.onExchange /\ due.done = m.done
      /\ due.sl = IF call = "be" /\ a = "ok" THEN Entry ELSE m.sl
  BY DEF Due, Memory
<1>10. Fits(due)'
  <2>1. Steady => /\ "trail" \notin style => due.sl <= Entry
                  /\ ex.qty > 0 => ex'.sl <= due.sl
    BY <1>7, <1>9 DEF Fits, Entry, Memory, Typed, Held, Nil, Tp
  <2> QED BY <1>5, <1>9, <2>1 DEF Fits, Frame
<1>11. LoopInv'
  BY <1>1, <1>10, KnownIsHeld DEF LoopInv, Fits, Frame
<1>12. Steady => Tightens
  BY <1>7 DEF Tightens, Typed, Held, Nil, Tp
<1> QED BY <1>4, <1>8, <1>11, <1>12 DEF WellKept, Inv

\* Any memory that fitted fits an empty position.
LEMMA FlatFits ==
    ASSUME NEW m \in Memory, Fits(m), ex' = Flat, style' = style
    PROVE  Fits(m)'
BY KnownIsHeld DEF Fits, Memory

\* The order of a flip, or the second attempt at it, closes all of the position.
LEMMA FlipKeeps ==
    ASSUME Typed, Base, Frame, NEW m \in Memory, mem' = m, Fits(m),
           NEW call \in {"flip1", "flip2"}, NEW a \in {"ok", "no"},
           NEW bar \in Bars, step' = At(call, a, bar), NEW again \in BOOLEAN,
           Write(ex.qty > 0, Sold(m.qty), 0, a, again)
    PROVE  WellKept
<1>1. step'.call = call /\ step'.answer = a
      /\ step' \in [call : Stages, answer : {"ok", "no"}, bar : Bars]
  BY StepFields DEF Stages
<1>2. ex.qty > 0 => Sold(m.qty) = Flat
  BY SoldLeaves DEF Typed, Fits, Memory
<1>3. \/ a = "ok" /\ ex' = Flat /\ ghost' = SoldSoFar(0)
      \/ a = "no" /\ ex' = ex /\ ghost' = ghost
      \/ a = "no" /\ ex' = Flat /\ ghost' = Blurred
  <2>1. \/ a = "ok" /\ ex.qty > 0 /\ ex' = Sold(m.qty) /\ ghost' = SoldSoFar(0)
        \/ a = "no" /\ ex' = ex /\ ghost' = ghost
        \/ a = "no" /\ ex.qty > 0 /\ ex' = Sold(m.qty) /\ ghost' = Blurred
    <3>1. (ex.qty > 0) \in BOOLEAN
      OBVIOUS
    <3> QED BY <3>1, WriteCases
  <2> QED BY <1>2, <2>1
<1>4. SoldSoFar(0) \in Ghosts /\ Blurred \in Ghosts /\ ghost \in Ghosts
  BY SoldGrows DEF Typed
<1>5. Typed'
  BY <1>1, <1>3, <1>4, KnownIsHeld DEF Typed, Frame
<1>6. ghost'.blurred \/ (~ghost.blurred /\ ghost'.sold = ghost.sold)
  <2>1. /\ SoldSoFar(0).blurred = ghost.blurred
        /\ ~ghost.blurred => SoldSoFar(0).sold = ghost.sold
        /\ Blurred.blurred
    BY SoldGrows DEF Typed, Ghosts
  <2> QED BY <1>3, <2>1
<1>7. ex' = ex \/ ex' = Flat
  BY <1>3
<1>8. Base'
  BY <1>6, <1>7, KnownIsHeld DEF Base, Frame, WatcherTold, Nil, Entry
<1>9. Fits(m)'
  <2>1. CASE ex' = Flat
    BY <2>1, FlatFits DEF Frame
  <2>2. CASE ex' = ex
    BY <2>2, <1>6 DEF Fits, Frame
  <2> QED BY <1>7, <2>1, <2>2
<1>10. Due(mem', step'.call, step'.answer) = m
  BY <1>1, DueIsMemory
<1>11. LoopInv'
  BY <1>1, <1>3, <1>9, <1>10, KnownIsHeld DEF LoopInv, Fits
<1>12. Tightens
  BY <1>7, KnownIsHeld DEF Tightens, Typed, Held, Nil, Tp
<1> QED BY <1>5, <1>8, <1>11, <1>12 DEF WellKept, Inv

\* The bot sells a half that is neither sold nor waiting at the exchange.
LEMMA HalfKeeps ==
    ASSUME Typed, Base, Frame, NEW m \in Memory, mem' = m, Fits(m),
           ~m.done, ~m.onExchange, Steady => "trail" \notin style,
           NEW a \in {"ok", "no"}, NEW bar \in Bars, step' = At("half", a, bar),
           Write(ex.qty > 0 /\ Half(m.qty) > 0, Sold(Half(m.qty)),
                 Least(Half(m.qty), ex.qty), a, FALSE)
    PROVE  WellKept
<1> DEFINE h == Half(m.qty)
           due == Due(m, "half", a)
           n == Least(h, ex.qty)
<1>1. step'.call = "half" /\ step'.answer = a
      /\ step' \in [call : Stages, answer : {"ok", "no"}, bar : Bars]
  BY StepFields DEF Stages
<1>2. h \in 0..2 /\ h <= m.qty /\ h < m.qty /\ m.qty \in 0..Full /\ m.qty - h \in 0..Full
  BY HalfLess DEF Fits, Memory, Full
<1>3. n \in 0..2 /\ ex.qty \in 0..Full
  BY <1>2 DEF Least, Typed, Held, Full
<1>4. \/ a = "ok" /\ ex.qty > 0 /\ ex' = Sold(h) /\ ghost' = SoldSoFar(n)
      \/ a = "no" /\ ex' = ex /\ ghost' = ghost
      \/ a = "no" /\ ex.qty > 0 /\ ex' = Sold(h) /\ ghost' = Blurred
  BY WriteCases
<1>5. ex.qty > 0 => /\ Sold(h) \in Held /\ Sold(h).qty <= ex.qty
                    /\ Sold(h) = Flat \/ (Sold(h).qty = ex.qty - h /\ Sold(h).qty > 0
                                    /\ Sold(h).sl = ex.sl /\ Sold(h).half = ex.half)
  BY <1>2, SoldLeaves DEF Typed, Held, Full
<1>6. SoldSoFar(n) \in Ghosts /\ Blurred \in Ghosts /\ Blurred.blurred
      /\ SoldSoFar(n).blurred = ghost.blurred
      /\ (~ghost.blurred => SoldSoFar(n).sold = ghost.sold + n)
  BY <1>3, SoldGrows DEF Typed
<1>7. Typed'
  BY <1>1, <1>4, <1>5, <1>6 DEF Typed, Frame
<1>8. /\ a = "ok" => /\ ex' = Flat \/ ex'.qty = ex.qty - h
                     /\ ghost'.blurred = ghost.blurred
                     /\ ~ghost.blurred => ghost'.sold = ghost.sold + n
      /\ a = "no" => (ghost' = ghost /\ ex' = ex) \/ ghost'.blurred
  BY <1>4, <1>5, <1>6
<1>9. ex' = Flat \/ ex' = ex
      \/ (ex.qty > 0 /\ ex'.qty > 0 /\ ex'.qty <= ex.qty /\ ex'.sl = ex.sl /\ ex'.half = ex.half)
  BY <1>4, <1>5
<1>10. ~ghost.blurred => ex.half = 0 /\ (ex.qty > 0 => ghost.sold = 0)
  BY DEF Fits, Typed, Ghosts, Held
<1>11. ~ghost'.blurred => ghost'.sold <= 2 /\ ex'.half <= 2
  BY <1>3, <1>4, <1>8, <1>9, <1>10, KnownIsHeld DEF Base, Full
<1>12. Base'
  <2>1. (ex'.qty = 0 => ex' = Flat) /\ (WatcherTold' => ex'.qty = 0)
    BY <1>9, KnownIsHeld DEF Base, Frame, WatcherTold, Full
  <2>2. Steady /\ "trail" \notin style' => ex'.sl <= Entry
    BY <1>9, KnownIsHeld DEF Base, Frame, Nil, Entry
  <2> QED BY <1>11, <2>1, <2>2 DEF Base
<1>13. /\ due.onExchange = m.onExchange
       /\ a = "ok" => due.qty = m.qty - h /\ due.done /\ due.sl = Entry
       /\ a = "no" => due = m
  BY DEF Due, Memory
<1>14. Fits(due)'
  <2>1. due.qty > 0 /\ ex'.qty <= due.qty
    <3>1. ex.qty <= m.qty /\ m.qty > 0 /\ ex'.qty <= ex.qty
      BY <1>3, <1>9, KnownIsHeld DEF Fits
    <3>2. CASE a = "ok"
      <4>1. ex'.qty = 0 \/ ex'.qty = ex.qty - h
        BY <3>2, <1>8, KnownIsHeld
      <4>2. due.qty = m.qty - h
        BY <3>2, <1>13
      <4> HIDE DEF h, due
      <4> QED BY <3>1, <4>1, <4>2, <1>2, <1>3 DEF Full
    <3>3. CASE a = "no"
      <4>1. ex'.qty \in 0..Full
        BY <1>7 DEF Typed, Held
      <4> QED BY <3>1, <3>3, <4>1, <1>2, <1>3, <1>13 DEF Full
    <3> QED BY <3>2, <3>3
  <2>2. ~ghost'.blurred => /\ ex'.half > 0 => ghost'.sold = 0 /\ due.onExchange
                           /\ ghost'.sold > 0 /\ ex'.qty > 0 => due.done \/ due.onExchange
    BY <1>8, <1>9, <1>10, <1>13, KnownIsHeld DEF Fits
  <2>3. Steady => due.sl <= Entry /\ (ex'.qty > 0 => ex'.sl <= due.sl)
    BY <1>9, <1>13, KnownIsHeld DEF Fits, Base, Entry
  <2> QED BY <1>13, <2>1, <2>2, <2>3 DEF Fits, Frame
<1>15. LoopInv'
  BY <1>1, <1>14, <1>13, KnownIsHeld DEF LoopInv, Fits, Frame
<1>16. Tightens
  BY <1>9, KnownIsHeld DEF Tightens, Typed, Held, Nil, Tp
<1> QED BY <1>7, <1>12, <1>15, <1>16 DEF WellKept, Inv

\* The exchange's trailing is switched on; or the half order is placed, for a position
\* that knows neither of one nor of a half that was sold.
LEMMA SetupKeeps ==
    ASSUME Typed, Base, Frame, NEW m \in Memory, mem' = m, Fits(m),
           ~ghost.blurred => ~m.onExchange /\ ~m.done,
           NEW call \in {"arm", "setHalf"}, call = "setHalf" => "half" \in style,
           NEW bar \in Bars, Call(call, m, bar)
    PROVE  WellKept
<1> DEFINE after == IF call = "arm" THEN [ex EXCEPT !.trailing = TRUE]
                                    ELSE [ex EXCEPT !.half = Half(m.qty)]
<1>1. PICK a \in {"ok", "no"} : /\ step' = At(call, a, bar)
                                /\ Write(ex.qty > 0, after, 0, a, FALSE)
  BY DEF Call
<1> DEFINE due == Due(m, call, a)
<1>2. step'.call = call /\ step'.answer = a
      /\ step' \in [call : Stages, answer : {"ok", "no"}, bar : Bars]
  BY <1>1, StepFields DEF Stages
<1>3. Half(m.qty) \in 0..2
  BY HalfLess DEF Memory
<1>4. /\ after \in Held /\ after.qty = ex.qty /\ after.sl = ex.sl
      /\ after.half = ex.half \/ (call = "setHalf" /\ after.half \in 0..2)
  <2>1. CASE call = "arm"
    BY <2>1 DEF Typed, Held
  <2>2. CASE call = "setHalf"
    <3>1. after = [ex EXCEPT !.half = Half(m.qty)] /\ Half(m.qty) \in 0..Full
      BY <2>2, <1>3 DEF Full
    <3> QED BY <2>2, <3>1, <1>3 DEF Typed, Held
  <2> QED BY <2>1, <2>2
<1>5. \/ a = "ok" /\ ex.qty > 0 /\ ex' = after /\ ghost' = SoldSoFar(0)
      \/ a = "no" /\ ex' = ex /\ ghost' = ghost
      \/ a = "no" /\ ex.qty > 0 /\ ex' = after /\ ghost' = Blurred
  <2>1. (ex.qty > 0) \in BOOLEAN
    OBVIOUS
  <2> QED BY <1>1, <2>1, WriteCases
<1>6. /\ SoldSoFar(0) \in Ghosts /\ SoldSoFar(0).blurred = ghost.blurred
      /\ ~ghost.blurred => SoldSoFar(0).sold = ghost.sold
      /\ Blurred \in Ghosts /\ Blurred.blurred
  BY SoldGrows DEF Typed, Ghosts
<1>7. Typed'
  BY <1>2, <1>4, <1>5, <1>6 DEF Typed, Frame
<1>8. /\ ex'.qty = ex.qty /\ ex'.sl = ex.sl /\ (ex.qty = 0 => ex' = ex)
      /\ ghost'.blurred \/ (~ghost.blurred /\ ghost'.sold = ghost.sold)
      /\ ex'.half = ex.half \/ ghost'.blurred
         \/ (a = "ok" /\ call = "setHalf" /\ ex'.half \in 0..2 /\ ex.qty > 0)
  <2>1. ex'.qty = ex.qty /\ ex'.sl = ex.sl
    BY <1>4, <1>5
  <2>2. ex.qty = 0 => ex' = ex
    BY <1>5
  <2>3. ghost'.blurred \/ (~ghost.blurred /\ ghost'.sold = ghost.sold)
    BY <1>5, <1>6
  <2>4. ex'.half = ex.half \/ ghost'.blurred
         \/ (a = "ok" /\ call = "setHalf" /\ ex'.half \in 0..2 /\ ex.qty > 0)
    BY <1>4, <1>5, <1>6
  <2> QED BY <2>1, <2>2, <2>3, <2>4
<1>9. Base'
  BY <1>8 DEF Base, Frame, WatcherTold
<1>10. /\ due.qty = m.qty /\ due.sl = m.sl /\ due.done = m.done
       /\ due.onExchange = IF call = "setHalf" /\ a = "ok" THEN TRUE ELSE m.onExchange
  BY DEF Due, Memory
<1>11. ~ghost.blurred => ex.half = 0 /\ (ex.qty > 0 => ghost.sold = 0)
  BY DEF Fits, Typed, Ghosts, Held
<1>12. Fits(due)'
  <2>1. ~ghost'.blurred => /\ ex'.half > 0 => ghost'.sold = 0 /\ due.onExchange
                           /\ ghost'.sold > 0 /\ ex'.qty > 0 => due.done \/ due.onExchange
    BY <1>8, <1>10, <1>11
  <2>2. due.onExchange => "half" \in style
    BY <1>10 DEF Fits
  <2> QED BY <1>8, <1>10, <2>1, <2>2 DEF Fits, Frame
<1>13. LoopInv'
  BY <1>2, <1>8, <1>12, <1>10, KnownIsHeld DEF LoopInv, Fits, Frame
<1>14. Tightens
  BY <1>8 DEF Tightens, Typed, Held, Nil, Tp
<1> QED BY <1>7, <1>9, <1>13, <1>14 DEF WellKept, Inv

\* A memory of which only the stop is raised, with no trouble for the exchange's, fits.
LEMMA RaisedFits ==
    ASSUME Typed, NEW m \in Memory, Fits(m), NEW l \in Nil..Tp,
           Steady => m.sl <= l /\ ("trail" \notin style => l <= Entry)
    PROVE  Fits([m EXCEPT !.sl = l]) /\ [m EXCEPT !.sl = l] \in Memory
<1> DEFINE n == [m EXCEPT !.sl = l]
<1>1. n \in Memory /\ n.sl = l /\ n.qty = m.qty /\ n.done = m.done /\ n.onExchange = m.onExchange
  BY DEF Memory
<1> HIDE DEF n
<1> QED BY <1>1 DEF Fits, Typed, Held, Memory, Nil, Tp

-----------------------------------------------------------------------------
(* The stages of a step *)

\* What all stages are given: a memory that fits and a bar.
Ready(m, bar) == Typed /\ Base /\ Frame /\ m \in Memory /\ Fits(m) /\ bar \in Bars

\* The flip.
LEMMA FlipStageKeeps ==
    ASSUME NEW m, NEW bar, Ready(m, bar), FlipStage(m, bar)
    PROVE  WellKept
<1> USE DEF Ready
<1>1. CASE Reads(bar)
  BY <1>1, KnownIsHeld, RestKeeps DEF Reads, FlipStage, Fits
<1>2. CASE Call("flip1", m, bar)
  <2>1. PICK a \in {"ok", "no"} : /\ step' = At("flip1", a, bar)
                                  /\ Write(ex.qty > 0, Sold(m.qty), 0, a, FALSE)
    BY <1>2 DEF Call
  <2> QED BY <2>1, FlipKeeps DEF FlipStage
<1> QED BY <1>1, <1>2 DEF FlipStage

\* The trail: the new stop is above the old one.
LEMMA TrailStageKeeps ==
    ASSUME NEW m, NEW bar, Ready(m, bar), TrailStage(m, bar)
    PROVE  WellKept
<1>1. CASE FlipStage(m, bar)
  BY <1>1, FlipStageKeeps
<1>2. CASE ~FlipStage(m, bar)
  <2>1. PICK l \in Swings(m, bar), a \in {"ok", "no"} :
              /\ step' = At("trail", a, bar) /\ mem' = [m EXCEPT !.sl = l]
              /\ Write(StopTaken(l), [ex EXCEPT !.sl = l], 0, a, FALSE)
    BY <1>2 DEF TrailStage
  <2>2. l \in Nil..Tp /\ l > m.sl /\ "trail" \in style
    BY DEF Swings, Ready, Bars, Marks, Entry, Nil, Tp, Stop0
  <2> DEFINE n == [m EXCEPT !.sl = l]
  <2>3. m.sl <= l /\ l <= l
    BY <2>2 DEF Ready, Memory, Nil, Tp
  <2>6. n \in Memory /\ Fits(n)
    BY <2>2, <2>3, RaisedFits DEF Ready
  <2>7. n.sl = l
    BY DEF Ready, Memory
  <2>4. Steady /\ ex.qty > 0 => ex.sl <= l
    BY <2>2, <2>3 DEF Ready, Fits, Typed, Held, Memory, Nil, Tp
  <2> HIDE DEF n
  <2>5. mem' = n
    BY <2>1 DEF n
  <2> QED BY <2>1, <2>2, <2>3, <2>4, <2>5, <2>6, <2>7, StopKeeps DEF Ready
<1> QED BY <1>1, <1>2

\* The half of the bot.
LEMMA HalfStageKeeps ==
    ASSUME NEW m, NEW bar, Ready(m, bar), HalfStage(m, bar)
    PROVE  WellKept
<1>1. CASE ~WantsHalf(m, bar)
  BY <1>1, TrailStageKeeps DEF HalfStage
<1>2. CASE WantsHalf(m, bar)
  <2>1. mem' = m /\ Call("half", m, bar) /\ "half" \in style /\ ~m.onExchange /\ ~m.done
    BY <1>2 DEF HalfStage, WantsHalf
  <2>2. PICK a \in {"ok", "no"} :
              /\ step' = At("half", a, bar)
              /\ Write(ex.qty > 0 /\ Half(m.qty) > 0, Sold(Half(m.qty)),
                       Least(Half(m.qty), ex.qty), a, FALSE)
    BY <2>1 DEF Call
  <2>3. Steady => "trail" \notin style
    BY <2>1 DEF Steady, Ready, Typed
  <2> QED BY <2>1, <2>2, <2>3, HalfKeeps DEF Ready
<1> QED BY <1>1, <1>2

\* The break-even lock.
LEMMA BeStageKeeps ==
    ASSUME NEW m, NEW bar, Ready(m, bar), BeStage(m, bar)
    PROVE  WellKept
<1>1. CASE ~WantsBe(m, bar)
  BY <1>1, HalfStageKeeps DEF BeStage
<1>2. CASE WantsBe(m, bar)
  <2>1. mem' = m /\ Call("be", m, bar) /\ "be" \in style
    BY <1>2 DEF BeStage, WantsBe
  <2>2. PICK a \in {"ok", "no"} :
              /\ step' = At("be", a, bar)
              /\ Write(StopTaken(Entry), [ex EXCEPT !.sl = Entry], 0, a, FALSE)
    BY <2>1 DEF Call
  <2>3. Steady => "trail" \notin style /\ ex.sl <= Entry
    BY <2>1 DEF Steady, Ready, Typed, Base
  <2>4. Entry \in Nil..Tp /\ Entry <= Entry
    BY DEF Entry, Nil, Tp
  <2> QED BY <2>1, <2>2, <2>3, <2>4, StopKeeps DEF Ready
<1> QED BY <1>1, <1>2

-----------------------------------------------------------------------------
(* The actions of the loop *)

\* An action that is not the bot's leaves what the bot holds alone.
LEMMA OthersFrame == Typed /\ Others => Frame
BY DEF Typed, Others, Frame

\* Nothing is known of a bar that was not read.
LEMMA NoBarTyped == NoBar \in Bars
BY DEF NoBar, Bars, Marks, Stop0, Tp

\* The memory that is due is what the loop goes on with.
LEMMA DueFits ==
    ASSUME Inv, mem # NoPosition
    PROVE  /\ Due(mem, step.call, step.answer) \in Memory
           /\ Fits(Due(mem, step.call, step.answer))
           /\ mem.qty > 0
<1>1. Half(mem.qty) \in 0..2 /\ Half(mem.qty) <= mem.qty /\ mem.qty \in 0..Full
  BY HalfLess DEF Inv, Typed, Memory
<1>2. mem.qty - Half(mem.qty) \in 0..Full
  BY <1>1 DEF Full
<1>3. Due(mem, step.call, step.answer) \in Memory
  <2>1. mem \in Memory /\ Entry \in Nil..Tp
    BY DEF Inv, Typed, Entry, Nil, Tp
  <2>2. CASE step.call = "half" /\ step.answer = "ok"
    BY <2>1, <2>2, <1>2 DEF Due, Memory
  <2>3. CASE ~(step.call = "half" /\ step.answer = "ok")
    BY <2>1, <2>3 DEF Due, Memory
  <2> QED BY <2>2, <2>3
<1>4. Fits(Due(mem, step.call, step.answer))
  BY DEF Inv, LoopInv
<1>5. Due(mem, step.call, step.answer).qty <= mem.qty
  BY <1>1, <1>2 DEF Due, Inv, Typed, Memory
<1>6. Due(mem, step.call, step.answer).qty > 0
  BY <1>4 DEF Fits
<1> HIDE DEF Due
<1>7. mem.qty > 0
  BY <1>1, <1>3, <1>5, <1>6 DEF Memory, Full
<1> QED BY <1>3, <1>4, <1>7

\* The stages of a step, from its beginning and from each of its answers.
LEMMA StagesKeep ==
    ASSUME Inv, StepBegins \/ BeAnswered \/ HalfAnswered \/ HalfBeAnswered \/ TrailAnswered
    PROVE  WellKept
<1> DEFINE due == Due(mem, step.call, step.answer)
<1>1. mem # NoPosition /\ Frame /\ step.bar \in Bars
  BY OthersFrame DEF StepBegins, BeAnswered, HalfAnswered, HalfBeAnswered, TrailAnswered,
                     Waits, Gone, Inv, Typed
<1>2. due \in Memory /\ Fits(due)
  BY <1>1, DueFits
<1>3. Ready(due, step.bar)
  BY <1>1, <1>2 DEF Ready, Inv
<1>4. step.answer \in {"ok", "no"} /\ step.call \in Stages
  BY DEF Inv, Typed
<1>5. CASE StepBegins
  <2>1. due = mem
    BY <1>5, DueIsMemory DEF StepBegins, Waits
  <2> DEFINE bar == [high |-> market.high, close |-> market.price]
  <2>2. bar \in Bars
    BY DEF Inv, Typed, Bars
  <2>3. Ready(mem, bar)
    BY <1>3, <2>1, <2>2 DEF Ready
  <2> QED BY <1>5, <2>3, BeStageKeeps DEF StepBegins
<1>6. CASE BeAnswered
  <2>1. due = IF step.answer = "ok" THEN [mem EXCEPT !.sl = Entry, !.be = TRUE] ELSE mem
    BY <1>6 DEF Due, BeAnswered, Waits
  <2>2. HalfStage(due, step.bar)
    BY <1>6, <2>1 DEF BeAnswered
  <2> QED BY <1>3, <2>2, HalfStageKeeps
<1>7. CASE HalfAnswered /\ step.answer = "ok"
  <2>1. due = [mem EXCEPT !.qty = @ - Half(@), !.done = TRUE, !.sl = Entry]
    BY <1>7 DEF Due, HalfAnswered, Waits
  <2>2. mem' = due /\ Call("halfBe", due, step.bar)
    BY <1>7, <2>1 DEF HalfAnswered
  <2>3. PICK a \in {"ok", "no"} :
              /\ step' = At("halfBe", a, step.bar)
              /\ Write(StopTaken(Entry), [ex EXCEPT !.sl = Entry], 0, a, FALSE)
    BY <2>2 DEF Call
  <2>4. Steady => "trail" \notin style /\ ex.sl <= Entry
    BY <1>7 DEF HalfAnswered, Waits, Inv, LoopInv, Base
  <2>5. due.sl = Entry /\ Entry \in Nil..Tp /\ Entry <= Entry
    BY <2>1 DEF Entry, Nil, Tp, Inv, Typed, Memory
  <2> HIDE DEF due
  <2> QED BY <1>3, <2>2, <2>3, <2>4, <2>5, StopKeeps DEF Ready
<1>8. CASE HalfAnswered /\ step.answer # "ok"
  <2>1. due = mem
    BY <1>4, <1>8, DueIsMemory
  <2> QED BY <1>3, <1>8, <2>1, TrailStageKeeps DEF HalfAnswered
<1>9. CASE HalfBeAnswered
  <2>1. due = mem
    BY <1>9, DueIsMemory DEF HalfBeAnswered, Waits
  <2> QED BY <1>3, <1>9, <2>1, TrailStageKeeps DEF HalfBeAnswered
<1>10. CASE TrailAnswered
  <2>1. due = mem
    BY <1>10, DueIsMemory DEF TrailAnswered, Waits
  <2> QED BY <1>3, <1>10, <2>1, FlipStageKeeps DEF TrailAnswered
<1> QED BY <1>5, <1>6, <1>7, <1>8, <1>9, <1>10

\* What the sync makes of the memory fits what it read.
LEMMA ReconciledFits ==
    ASSUME Typed, Base, mem # NoPosition, Fits(mem), ex.qty > 0
    PROVE  Reconciled(mem, ex.qty) \in Memory /\ Fits(Reconciled(mem, ex.qty))
<1> DEFINE m == Reconciled(mem, ex.qty)
<1>1. /\ mem \in Memory /\ ex.qty \in 0..Full /\ Entry \in Nil..Tp
      /\ m = [mem EXCEPT !.qty = ex.qty]
         \/ (mem.onExchange /\ m = [mem EXCEPT !.qty = ex.qty, !.done = TRUE, !.sl = Entry])
  BY DEF Typed, Held, Entry, Nil, Tp, Reconciled
<1>2. CASE m = [mem EXCEPT !.qty = ex.qty]
  <2>1. m \in Memory /\ m.qty = ex.qty /\ m.done = mem.done /\ m.sl = mem.sl
        /\ m.onExchange = mem.onExchange
    BY <1>1, <1>2 DEF Memory
  <2> HIDE DEF m
  <2>2. Fits(m)
    BY <1>1, <2>1 DEF Fits, Full
  <2> QED BY <2>1, <2>2 DEF m
<1>3. CASE mem.onExchange /\ m = [mem EXCEPT !.qty = ex.qty, !.done = TRUE, !.sl = Entry]
  <2>1. m \in Memory /\ m.qty = ex.qty /\ m.done /\ m.sl = Entry /\ m.onExchange
    BY <1>1, <1>3 DEF Memory
  <2>2. Steady => ex.sl <= Entry
    BY <1>3 DEF Fits, Steady, Typed, Base
  <2> HIDE DEF m
  <2>3. Fits(m)
    BY <1>1, <1>3, <2>1, <2>2 DEF Fits, Full, Entry
  <2> QED BY <2>1, <2>3 DEF m
<1> QED BY <1>1, <1>2, <1>3

\* The end of a step: the flip's answer, the loss of the position, the sync.
LEMMA EndsKeep ==
    ASSUME Inv, \/ StepLosesIt \/ FlipAnswered \/ SyncReads \/ SyncMisreads \/ SyncVerified
                \/ SyncBooks \/ EntryLost
    PROVE  WellKept
<1>1. Frame /\ step.bar \in Bars /\ NoBar \in Bars /\ mem \in Memory /\ Typed /\ Base
  BY OthersFrame, NoBarTyped DEF StepLosesIt, FlipAnswered, SyncReads, SyncMisreads, Frame,
                                 SyncVerified, SyncBooks, EntryLost, Inv, Typed
<1>2. mem # NoPosition /\ step.call \notin {"be", "half", "setHalf"} => Fits(mem)
  BY DueFits, DueIsMemory
<1>3. mem = NoPosition /\ step.call # "down" => ex.qty = 0 \/ Hidden
  BY DEF Inv, LoopInv, Typed, Held
<1>11. Hidden /\ Others /\ ghost' = ghost => Hidden'
  BY DEF Hidden, Others
<1>4. CASE StepLosesIt
  BY <1>1, <1>3, <1>4, <1>11, RestKeeps DEF StepLosesIt, Gone, Reads
<1>5. CASE FlipAnswered
  <2>1. mem # NoPosition /\ Fits(mem)
    BY <1>2, <1>5 DEF FlipAnswered, Gone
  <2>2. CASE step.answer = "no" /\ Waits("flip1")
    <3>1. Call("flip2", mem, step.bar) /\ mem' = mem
      BY <1>5, <2>2 DEF FlipAnswered
    <3>2. PICK a \in {"ok", "no"} : /\ step' = At("flip2", a, step.bar)
                                    /\ Write(ex.qty > 0, Sold(mem.qty), 0, a, TRUE)
      BY <3>1 DEF Call
    <3> QED BY <1>1, <2>1, <3>1, <3>2, FlipKeeps
  <2>3. CASE ~(step.answer = "no" /\ Waits("flip1"))
    <3>1. /\ step' = At("read", "ok", step.bar) /\ ex' = ex /\ ghost' = ghost
          /\ mem' = (IF step.answer = "ok" THEN NoPosition ELSE mem)
      BY <1>5, <2>3 DEF FlipAnswered, Reads
    <3>2. step.answer = "ok" => ex.qty = 0
      BY <1>5 DEF FlipAnswered, Inv, LoopInv
    <3> QED BY <1>1, <2>1, <3>1, <3>2, RestKeeps, KnownIsHeld
  <2> QED BY <2>2, <2>3
<1>6. CASE SyncVerified
  BY <1>1, <1>2, <1>3, <1>6, <1>11, RestKeeps DEF SyncVerified, Waits, Sleeps, Resting
<1>7. CASE EntryLost
  BY <1>1, <1>2, <1>3, <1>7, <1>11, RestKeeps DEF EntryLost, Waits, Sleeps, Resting
<1>8. CASE SyncBooks
  <2>1. ex.qty = 0 \/ Hidden'
    BY <1>8, <1>11 DEF SyncBooks, Waits, Sleeps, Inv, LoopInv
  <2> QED BY <1>1, <1>8, <2>1, RestKeeps, KnownIsHeld DEF SyncBooks, Sleeps, Resting
<1>9. CASE SyncReads /\ ~(mem # NoPosition /\ ex.qty > 0)
  <2>1. step.call = "read" /\ ex' = ex /\ ghost' = ghost /\ mem' = mem
        /\ (step' = Resting \/ (step' = At("closed", "ok", NoBar) /\ ex.qty = 0))
    BY <1>9 DEF SyncReads, Waits, Sleeps, Inv, Typed, Held
  <2>2. mem = NoPosition => ex.qty = 0 \/ Hidden'
    BY <1>3, <1>9, <1>11, <2>1 DEF SyncReads
  <2> QED BY <1>1, <1>2, <2>1, <2>2, RestKeeps DEF Resting
<1>10. CASE SyncReads /\ mem # NoPosition /\ ex.qty > 0
  <2> DEFINE m == Reconciled(mem, ex.qty)
  <2>1. Fits(mem) /\ mem' = m /\ IF ex.sl # m.sl THEN Call("verify", m, NoBar) ELSE Sleeps
    BY <1>2, <1>10 DEF SyncReads, Waits
  <2>2. m \in Memory /\ Fits(m)
    BY <1>1, <1>10, <2>1, ReconciledFits
  <2> HIDE DEF m
  <2>3. CASE Sleeps
    BY <1>1, <2>1, <2>2, <2>3, RestKeeps, KnownIsHeld DEF Sleeps, Resting, Fits
  <2>4. CASE Call("verify", m, NoBar)
    <3>1. PICK a \in {"ok", "no"} : /\ step' = At("verify", a, NoBar)
                                    /\ Write(StopTaken(m.sl), [ex EXCEPT !.sl = m.sl], 0, a, FALSE)
      BY <2>4 DEF Call
    <3>2. m.sl \in Nil..Tp /\ m.sl <= m.sl
      BY <2>2 DEF Memory, Nil, Tp
    <3>3. Steady => (ex.qty > 0 => ex.sl <= m.sl) /\ ("trail" \notin style => m.sl <= Entry)
      BY <2>2 DEF Fits
    <3> QED BY <1>1, <2>1, <2>2, <3>1, <3>2, <3>3, StopKeeps
  <2> QED BY <2>1, <2>3, <2>4
<1>12. CASE SyncMisreads
  <2>1. /\ step' = At("closed", "ok", NoBar) /\ ex' = ex /\ ghost' = Blurred /\ mem' = mem
        /\ mem # NoPosition /\ Fits(mem) /\ blind'
    BY <1>2, <1>12 DEF SyncMisreads, Waits
  <2>2. Hidden'
    BY <2>1, SoldGrows DEF Hidden, Inv, Typed
  <2> QED BY <1>1, <2>1, <2>2, RestKeeps
<1> QED BY <1>4, <1>5, <1>6, <1>7, <1>8, <1>9, <1>10, <1>12

\* A memory that differs in what Fits does not look at fits as well.
LEMMA AlikeFits ==
    ASSUME NEW m \in Memory, NEW n \in Memory, Fits(m), n.qty = m.qty, n.sl = m.sl,
           n.done = m.done, n.onExchange = m.onExchange
    PROVE  Fits(n)
BY DEF Fits

\* The fields of a new position.
LEMMA EnteredFields ==
    /\ \A f \in Held : LET g == [f EXCEPT !.qty = Full, !.sl = Stop0]
                     IN  g \in Held /\ g.qty = Full /\ g.sl = Stop0 /\ g.half = f.half
    /\ \A m \in Memory :
          LET n == [m EXCEPT !.qty = Full, !.sl = Stop0, !.target = TRUE]
          IN  n \in Memory /\ n.qty = Full /\ n.sl = Stop0 /\ n.done = m.done
              /\ n.onExchange = m.onExchange
<1>1. Full \in 0..Full /\ Stop0 \in Nil..Tp
  BY DEF Full, Stop0, Nil, Tp
<1> QED BY <1>1 DEF Held, Memory

\* A position is entered.
LEMMA EntryKeeps == ASSUME Inv, EntryFills PROVE WellKept
<1>1. /\ ex = Flat /\ style' = style /\ watch' = watch /\ ~WatcherTold
      /\ market' = [price |-> Entry, high |-> Entry, trails |-> FALSE]
      /\ ex' = [Flat EXCEPT !.qty = Full, !.sl = Stop0]
      /\ mem' = [NoPosition EXCEPT !.qty = Full, !.sl = Stop0, !.target = TRUE]
      /\ ghost' = [sold |-> 0, blurred |-> FALSE] /\ step' = At("entry", "ok", NoBar)
      /\ blind' = FALSE
  BY DEF EntryFills, WatcherTold
<1>2. ex' \in Held /\ ex'.qty = Full /\ ex'.sl = Stop0 /\ ex'.half = 0
  BY <1>1, EnteredFields, KnownIsHeld
<1>3. mem' \in Memory /\ mem'.qty = Full /\ mem'.sl = Stop0 /\ ~mem'.done /\ ~mem'.onExchange
  BY <1>1, EnteredFields, KnownIsHeld
<1>4. ghost' \in Ghosts /\ ghost'.sold = 0 /\ ~ghost'.blurred
  BY <1>1 DEF Ghosts
<1>5. step'.call = "entry" /\ step'.answer = "ok"
      /\ step' \in [call : Stages, answer : {"ok", "no"}, bar : Bars]
  BY <1>1, StepFields, NoBarTyped DEF Stages
<1>6. Typed'
  <2>1. market'.price \in Marks /\ market'.high \in Marks /\ blind' \in BOOLEAN
    <3>1. market'.price = Entry /\ market'.high = Entry /\ blind' = FALSE
      BY <1>1, Zenon
    <3>2. Entry \in Marks
      BY DEF Marks, Stop0, Entry, Tp
    <3> QED BY <3>1, <3>2, Zenon
  <2> QED BY <1>1, <1>2, <1>3, <1>4, <1>5, <2>1 DEF Inv, Typed
<1>7. Base'
  BY <1>1, <1>2, <1>4 DEF Base, WatcherTold, Full, Stop0, Entry
<1>8. Due(mem', step'.call, step'.answer) = mem'
  BY <1>5, DueIsMemory
<1>9. LoopInv'
  BY <1>2, <1>3, <1>4, <1>5, <1>8, KnownIsHeld DEF LoopInv, Fits, Full, Stop0, Entry
<1>10. Tightens
  BY <1>1, KnownIsHeld DEF Tightens
<1> QED BY <1>6, <1>7, <1>9, <1>10 DEF WellKept, Inv

\* A half order is set, or there is none to set.
LEMMA SetsHalfKeeps ==
    ASSUME NEW m, Ready(m, NoBar), mem' = m, SetsHalf(m),
           ~ghost.blurred => ~m.onExchange /\ ~m.done
    PROVE  WellKept
<1>1. CASE Sleeps
  BY <1>1, RestKeeps, KnownIsHeld DEF Sleeps, Resting, Ready, Fits
<1>2. CASE "half" \in style /\ Call("setHalf", m, NoBar)
  BY <1>2, SetupKeeps DEF Ready
<1> QED BY <1>1, <1>2 DEF SetsHalf

\* What follows an entry.
LEMMA SetupsKeep ==
    ASSUME Inv, EntryArms \/ ArmAnswered \/ HalfSet
    PROVE  WellKept
<1>1. /\ Frame /\ NoBar \in Bars /\ mem \in Memory /\ Typed /\ Base /\ mem # NoPosition
      /\ ~ghost.blurred => ~mem.onExchange /\ ~mem.done
      /\ step.answer \in {"ok", "no"}
  BY OthersFrame, NoBarTyped DEF EntryArms, ArmAnswered, HalfSet, Waits, Gone, Inv, Typed, LoopInv
<1>2. step.call # "setHalf" \/ step.answer = "no" => Fits(mem)
  <2>1. step.call \notin {"be", "half"}
    BY DEF EntryArms, ArmAnswered, HalfSet, Waits
  <2> QED BY <1>1, <2>1, DueFits, DueIsMemory
<1>3. CASE EntryArms
  <2>1. mem' = mem /\ Ready(mem, NoBar) /\ (Call("arm", mem, NoBar) \/ SetsHalf(mem))
    BY <1>1, <1>2, <1>3 DEF EntryArms, Waits, Ready
  <2>2. CASE Call("arm", mem, NoBar)
    BY <1>1, <2>1, <2>2, SetupKeeps DEF Ready
  <2> QED BY <1>1, <2>1, <2>2, SetsHalfKeeps
<1>4. CASE ArmAnswered
  <2> DEFINE m == [mem EXCEPT !.armed = step.answer = "ok"]
  <2>1. mem' = m /\ IF m.target THEN SetsHalf(m) ELSE Sleeps
    BY <1>4 DEF ArmAnswered
  <2>2. m \in Memory /\ m.qty = mem.qty /\ m.sl = mem.sl /\ m.done = mem.done
        /\ m.onExchange = mem.onExchange
    BY <1>1 DEF Memory
  <2>3. Fits(mem)
    BY <1>2, <1>4 DEF ArmAnswered, Waits
  <2> HIDE DEF m
  <2>4. Ready(m, NoBar)
    BY <1>1, <2>2, <2>3, AlikeFits DEF Ready
  <2>5. CASE Sleeps
    BY <2>1, <2>4, <2>5, RestKeeps, KnownIsHeld DEF Sleeps, Resting, Ready, Fits
  <2> QED BY <1>1, <2>1, <2>2, <2>4, <2>5, SetsHalfKeeps
<1>5. CASE HalfSet
  <2> DEFINE m == [mem EXCEPT !.onExchange = step.answer = "ok"]
  <2>1. mem' = m /\ Sleeps
    BY <1>5 DEF HalfSet
  <2>2. m \in Memory /\ m.qty = mem.qty /\ m.sl = mem.sl /\ m.done = mem.done
        /\ m.onExchange = (step.answer = "ok")
    BY <1>1 DEF Memory
  <2>3. CASE step.answer = "ok"
    <3>1. Due(mem, step.call, step.answer) = [mem EXCEPT !.onExchange = TRUE]
      BY <1>5, <2>3 DEF Due, HalfSet, Waits
    <3>2. m = [mem EXCEPT !.onExchange = TRUE]
      BY <2>3
    <3>3. Fits(m)
      BY <1>1, <3>1, <3>2, DueFits
    <3> HIDE DEF m
    <3> QED BY <1>1, <2>1, <2>2, <3>3, RestKeeps, KnownIsHeld DEF Sleeps, Resting, Fits
  <2>4. CASE step.answer = "no"
    <3>1. Fits(mem)
      BY <1>2, <2>4
    <3> HIDE DEF m
    <3>2. Fits(m)
      BY <1>1, <2>2, <2>4, <3>1 DEF Fits
    <3> QED BY <1>1, <2>1, <2>2, <3>2, RestKeeps, KnownIsHeld DEF Sleeps, Resting, Fits
  <2> QED BY <1>1, <2>3, <2>4
<1> QED BY <1>3, <1>4, <1>5

\* A restart adopts what the exchange has.
LEMMA StartKeeps == ASSUME Inv, Starts \/ StartsBlind PROVE WellKept
<1>1. /\ mem = NoPosition /\ ghost.blurred /\ watch.does = "idle" /\ blind' \in BOOLEAN
      /\ watch' = [watch EXCEPT !.mode = "ws"] /\ style' = style /\ market' = market
  BY DEF Starts, StartsBlind, Watch, Inv, Typed, LoopInv
<1>2. Frame /\ NoBar \in Bars /\ Typed /\ Base /\ ex.qty \in 0..Full /\ ex.sl \in Nil..Tp
  BY <1>1, NoBarTyped DEF Frame, Inv, Typed, Held
<1>5. CASE StartsBlind
  <2>1. Hidden' /\ mem' = NoPosition
    BY <1>1, <1>5 DEF StartsBlind, Sleeps, Hidden
  <2> QED BY <1>2, <1>5, <2>1, RestKeeps, KnownIsHeld DEF StartsBlind, Sleeps, Resting
<1>3. CASE Starts /\ ex.qty = 0
  BY <1>1, <1>2, <1>3, RestKeeps, KnownIsHeld DEF Starts, Sleeps, Resting
<1>4. CASE Starts /\ ex.qty # 0
  <2> DEFINE m == [NoPosition EXCEPT !.qty = ex.qty, !.sl = ex.sl, !.done = ex.sl = Entry]
  <2>1. mem' = m /\ (Call("arm", m, NoBar) \/ Sleeps)
    BY <1>4 DEF Starts
  <2>2. m \in Memory /\ m.qty = ex.qty /\ m.sl = ex.sl /\ ~m.onExchange
    BY <1>2 DEF NoPosition, Memory
  <2> HIDE DEF m
  <2>3. Fits(m)
    BY <1>1, <1>2, <1>4, <2>2 DEF Fits, Base, Full, Nil, Tp
  <2>4. CASE Sleeps
    BY <1>2, <2>1, <2>2, <2>3, <2>4, RestKeeps, KnownIsHeld DEF Sleeps, Resting, Fits
  <2>5. CASE Call("arm", m, NoBar)
    BY <1>1, <1>2, <2>1, <2>2, <2>3, <2>5, SetupKeeps
  <2> QED BY <2>1, <2>4, <2>5
<1> QED BY <1>3, <1>4, <1>5

-----------------------------------------------------------------------------
(* The watcher, the market and crashes *)

\* What is due to two memories that are alike is alike.
LEMMA DueAlike ==
    ASSUME NEW m \in Memory, NEW n \in Memory, NEW call, NEW a, n.qty = m.qty, n.sl = m.sl,
           n.done = m.done, n.onExchange = m.onExchange
    PROVE  LET d == Due(m, call, a)
               e == Due(n, call, a)
           IN  e \in Memory /\ e.qty = d.qty /\ e.sl = d.sl /\ e.done = d.done
               /\ e.onExchange = d.onExchange
<1>1. Half(m.qty) \in 0..2 /\ m.qty - Half(m.qty) \in 0..Full /\ Entry \in Nil..Tp
  <2>1. m.qty \in 0..Full /\ Entry \in Nil..Tp
    BY DEF Memory, Entry, Nil, Tp
  <2> QED BY <2>1, HalfLess DEF Full
<1>2. CASE call = "half" /\ a = "ok"
  <2>1. Due(m, call, a) = [m EXCEPT !.qty = m.qty - Half(m.qty), !.done = TRUE, !.sl = Entry]
        /\ Due(n, call, a) = [n EXCEPT !.qty = m.qty - Half(m.qty), !.done = TRUE, !.sl = Entry]
    BY <1>2 DEF Due, Memory
  <2> QED BY <1>1, <2>1 DEF Memory
<1>3. CASE call = "be" /\ a = "ok"
  <2>1. Due(m, call, a) = [m EXCEPT !.sl = Entry, !.be = TRUE]
        /\ Due(n, call, a) = [n EXCEPT !.sl = Entry, !.be = TRUE]
    BY <1>3 DEF Due
  <2> QED BY <1>1, <2>1 DEF Memory
<1>4. CASE call = "setHalf" /\ a = "ok"
  BY <1>4 DEF Due, Memory
<1>5. CASE ~(a = "ok" /\ call \in {"half", "be", "setHalf"})
  BY <1>5 DEF Due
<1> QED BY <1>2, <1>3, <1>4, <1>5

\* A step beside the loop that leaves the exchange's position alone, or empties it, and
\* changes no more of the memory than the target, or forgets it when nothing is held.
LEMMA BesideKeeps ==
    ASSUME Inv, Typed', style' = style, step' = step, blind' = blind, ex' = ex \/ ex' = Flat,
           ghost'.blurred \/ (~ghost.blurred /\ ghost'.sold = ghost.sold),
           ghost.blurred => ghost'.blurred,
           \/ mem' = mem
           \/ mem # NoPosition /\ mem' = [mem EXCEPT !.target = FALSE]
           \/ mem' = NoPosition /\ ex'.qty = 0,
           WatcherTold' => ex'.qty = 0,
           step.call = "down" => watch'.does = "idle" /\ watch'.mode = "off"
    PROVE  WellKept
<1> DEFINE due == Due(mem, step.call, step.answer)
<1>1. mem \in Memory /\ ex \in Held /\ ex.qty \in 0..Full /\ ex.half \in 0..Full
  BY DEF Inv, Typed, Held
<1>2. Base'
  <2>1. ex'.qty = 0 => ex' = Flat
    BY DEF Inv, Base
  <2>2. ~ghost'.blurred => ghost'.sold <= 2 /\ ex'.half <= 2
    BY KnownIsHeld DEF Inv, Base
  <2>3. Steady /\ "trail" \notin style' => ex'.sl <= Entry
    BY KnownIsHeld DEF Inv, Base, Nil, Entry
  <2> QED BY <2>1, <2>2, <2>3 DEF Base
<1>3. mem' # NoPosition /\ mem # NoPosition => Fits(Due(mem, step.call, step.answer))'
  <2> SUFFICES ASSUME mem' # NoPosition, mem # NoPosition
               PROVE  Fits(Due(mem, step.call, step.answer))'
      OBVIOUS
  <2>1. due \in Memory /\ Fits(due)
    BY DueFits
  <2>2. PICK m : m = mem'
    OBVIOUS
  <2>3. m \in Memory /\ m.qty = mem.qty /\ m.sl = mem.sl /\ m.done = mem.done
        /\ m.onExchange = mem.onExchange
    BY <1>1, <2>2 DEF Memory
  <2>4. PICK n : n = Due(m, step.call, step.answer)
    OBVIOUS
  <2>5. n \in Memory /\ n.qty = due.qty /\ n.sl = due.sl /\ n.done = due.done
        /\ n.onExchange = due.onExchange
    BY <1>1, <2>3, <2>4, DueAlike
  <2> HIDE DEF due
  <2>6. Fits(n)
    BY <2>1, <2>5, AlikeFits
  <2>7. CASE ex' = ex
    <3>1. Fits(n)'
      BY <2>6, <2>7 DEF Fits
    <3> QED BY <3>1, <2>2, <2>4 DEF Fits
  <2>8. CASE ex' = Flat
    <3>1. Fits(n)'
      BY <2>5, <2>6, <2>8, FlatFits
    <3> QED BY <3>1, <2>2, <2>4 DEF Fits
  <2> QED BY <2>7, <2>8
<1>4. mem' # NoPosition => mem # NoPosition /\ mem'.done = mem.done
                           /\ mem'.onExchange = mem.onExchange
  BY <1>1 DEF Memory
<1>5. mem # NoPosition => mem.qty > 0
  BY DueFits
<1>6. mem' = NoPosition => mem = NoPosition \/ ex'.qty = 0
  <2>1. mem # NoPosition /\ mem' = [mem EXCEPT !.target = FALSE] => mem'.qty > 0
    BY <1>1, <1>5 DEF Memory
  <2> QED BY <2>1, KnownIsHeld
<1>7. ex'.qty = 0 \/ ex'.qty = ex.qty
  BY KnownIsHeld
<1>13. Hidden => Hidden'
  BY DEF Hidden
<1>8. ex'.qty > 0 /\ step.call # "down" => mem' # NoPosition \/ Hidden'
  BY <1>1, <1>6, <1>7, <1>13 DEF Inv, LoopInv
<1>9. mem' # NoPosition => Fits(Due(mem, step.call, step.answer))'
  BY <1>3, <1>4
<1>10. ~ghost'.blurred /\ step'.call \in {"entry", "arm", "setHalf"}
         => ~mem'.onExchange /\ ~mem'.done
  BY <1>4, KnownIsHeld DEF Inv, LoopInv
<1>11. LoopInv'
  <2>1. step'.call = "down" => mem' = NoPosition /\ ghost'.blurred
    BY <1>4 DEF Inv, LoopInv
  <2>2. /\ step'.call = "closed" => ex'.qty = 0 \/ Hidden'
        /\ step'.call \in {"flip1", "flip2"} /\ step'.answer = "ok" => ex'.qty = 0
    BY <1>7, <1>13 DEF Inv, LoopInv
  <2>3. Steady /\ step'.call \in {"be", "half", "halfBe"} => "trail" \notin style'
    BY DEF Inv, LoopInv
  <2> QED BY <1>8, <1>9, <1>10, <2>1, <2>2, <2>3 DEF LoopInv
<1>12. Tightens
  BY KnownIsHeld DEF Tightens, Inv, Typed, Held, Nil, Tp
<1> QED BY <1>2, <1>11, <1>12 DEF WellKept, Inv

\* An order of the watcher closes all of the position.
LEMMA ExitKeeps ==
    ASSUME Inv, NEW attempt \in {"exit1", "exit2"}, Exit(attempt), mem' = mem, Loop,
           step.call # "down"
    PROVE  WellKept
<1> DEFINE q == IF mem = NoPosition THEN Full ELSE mem.qty
<1>1. PICK a \in {"ok", "no"} :
            /\ watch' = [watch EXCEPT !.does = attempt, !.answer = a]
            /\ Write(ex.qty > 0, Sold(q), 0, a, attempt = "exit2")
  BY DEF Exit, Watch
<1>2. mem \in Memory /\ ex \in Held /\ ghost \in Ghosts /\ mem.qty \in 0..Full
      /\ ex.qty \in 0..Full /\ Half(mem.qty) \in 0..2
  BY HalfLess DEF Inv, Typed, Memory, Held
<1>3. ex.qty > 0 => Sold(q) = Flat
  <2> SUFFICES ASSUME ex.qty > 0 PROVE Sold(q) = Flat
      OBVIOUS
  <2>6. CASE mem = NoPosition
    <3>1. Full \in Nat /\ Full >= ex.qty
      BY <1>2 DEF Full
    <3> QED BY <1>2, <2>6, <3>1, SoldLeaves
  <2> SUFFICES ASSUME mem # NoPosition PROVE Sold(mem.qty) = Flat
      BY <2>6
  <2>1. mem # NoPosition
    OBVIOUS
  <2>2. ex.qty <= Due(mem, step.call, step.answer).qty
    BY <2>1, DueFits DEF Fits
  <2>3. Due(mem, step.call, step.answer).qty <= mem.qty
    BY <1>2, HalfLess DEF Due, Memory, Full
  <2>4. Due(mem, step.call, step.answer).qty \in 0..Full
    BY <2>1, DueFits DEF Memory
  <2>5. mem.qty >= ex.qty
    BY <1>2, <2>2, <2>3, <2>4 DEF Full
  <2> QED BY <1>2, <2>5, SoldLeaves DEF Full
<1>4. \/ a = "ok" /\ ex' = Flat /\ ghost' = SoldSoFar(0)
      \/ a = "no" /\ ex' = ex /\ ghost' = ghost
      \/ a = "no" /\ ex' = Flat /\ ghost' = Blurred
  <2>1. (ex.qty > 0) \in BOOLEAN /\ (attempt = "exit2") \in BOOLEAN
    OBVIOUS
  <2>2. \/ a = "ok" /\ ex.qty > 0 /\ ex' = Sold(q) /\ ghost' = SoldSoFar(0)
        \/ a = "no" /\ ex' = ex /\ ghost' = ghost
        \/ a = "no" /\ ex.qty > 0 /\ ex' = Sold(q) /\ ghost' = Blurred
    BY <1>1, <2>1, WriteCases
  <2> QED BY <1>3, <2>2
<1> HIDE DEF q
<1>5. /\ SoldSoFar(0) \in Ghosts /\ SoldSoFar(0).blurred = ghost.blurred
      /\ ~ghost.blurred => SoldSoFar(0).sold = ghost.sold
      /\ Blurred \in Ghosts /\ Blurred.blurred
  BY <1>2, SoldGrows DEF Ghosts
<1>6. /\ ghost' \in Ghosts /\ ex' \in Held
      /\ ghost'.blurred \/ (~ghost.blurred /\ ghost'.sold = ghost.sold)
      /\ ghost.blurred => ghost'.blurred
  BY <1>2, <1>4, <1>5, KnownIsHeld
<1>7. Typed'
  BY <1>1, <1>6 DEF Inv, Typed, Loop
<1>8. WatcherTold' => ex'.qty = 0
  BY <1>1, <1>4, KnownIsHeld DEF WatcherTold, Inv, Typed
<1>9. style' = style /\ step' = step /\ blind' = blind
  BY DEF Loop
<1>10. ex' = ex \/ ex' = Flat
  BY <1>4
<1> QED BY <1>6, <1>7, <1>8, <1>9, <1>10, BesideKeeps

\* Having no stop is among the values a stop may have.
LEMMA NilTyped == Nil \in Nil..Tp
BY DEF Nil, Tp

\* An empty position has no half order to take away.
LEMMA FlatHasNoHalf == [Flat EXCEPT !.half = 0] = Flat
<1> DEFINE f == [Flat EXCEPT !.half = 0]
<1>1. DOMAIN f = DOMAIN Flat /\ f = [x \in DOMAIN f |-> f[x]] /\ Flat = [x \in DOMAIN Flat |-> Flat[x]]
  BY KnownIsHeld DEF Held
<1>2. \A x \in DOMAIN Flat : f[x] = Flat[x]
  BY KnownIsHeld DEF Held
<1> QED BY <1>1, <1>2

\* The watcher sees a price, acts on one, hears of its order, or loses its connection.
LEMMA WatcherKeeps ==
    ASSUME Inv, Tick \/ WatcherFires \/ WatcherAnswered \/ Disconnects
    PROVE  WellKept
<1>1. style' = style /\ step' = step /\ market' = market /\ blind' = blind
  BY DEF Tick, WatcherFires, WatcherAnswered, Disconnects, Loop
<1>2. /\ Typed /\ mem \in Memory /\ market.price \in Nil..Tp /\ FALSE \in BOOLEAN
      /\ step.call = "down" => mem = NoPosition /\ watch.does = "idle" /\ watch.mode = "off"
      /\ ghost.blurred \in BOOLEAN
  BY DEF Inv, Typed, LoopInv, Marks, Stop0, Nil, Tp, Ghosts
<1>3. CASE Tick
  <2>1. /\ ex' = ex /\ ghost' = ghost /\ step.call # "down"
        /\ mem' = mem \/ (mem.target /\ mem' = [mem EXCEPT !.target = FALSE])
    BY <1>2, <1>3 DEF Tick
  <2>2. PICK d \in {"verify", "idle"} :
              watch' = [watch EXCEPT !.last = market.price, !.does = d]
    BY <1>3 DEF Tick, Watch
  <2>3. mem' \in Memory /\ (mem.target => mem # NoPosition)
    BY <1>2, <2>1, KnownIsHeld DEF Memory
  <2>4. Typed' /\ ~WatcherTold'
    BY <1>1, <1>2, <2>1, <2>2, <2>3 DEF Typed, WatcherTold
  <2> QED BY <1>1, <1>2, <2>1, <2>3, <2>4, BesideKeeps
<1>4. CASE Disconnects
  <2>1. /\ ex' = ex /\ ghost' = ghost /\ step.call # "down" /\ mem' = mem
        /\ \E l \in Nil..Tp : watch' = [watch EXCEPT !.mode = "polling", !.last = l]
    <3> DEFINE l == IF watch.does = "idle" THEN Nil ELSE watch.last
    <3>1. watch' = [watch EXCEPT !.mode = "polling", !.last = l]
      BY <1>4 DEF Disconnects, Watch
    <3>2. l \in Nil..Tp
      BY <1>2, NilTyped DEF Typed
    <3>3. ex' = ex /\ ghost' = ghost /\ step.call # "down" /\ mem' = mem
      BY <1>2, <1>4 DEF Disconnects
    <3> HIDE DEF l
    <3> QED BY <3>1, <3>2, <3>3
  <2>2. Typed' /\ (WatcherTold' => WatcherTold)
    BY <1>1, <1>2, <2>1 DEF Typed, WatcherTold
  <2> QED BY <1>1, <1>2, <2>1, <2>2, BesideKeeps DEF Inv, Base
<1>5. CASE \E attempt \in {"exit1", "exit2"} : Exit(attempt) /\ mem' = mem
  <2>1. step.call # "down"
    BY <1>2, KnownIsHeld DEF Tick, WatcherFires, WatcherAnswered, Disconnects, Exit, Watch
  <2>2. Loop
    BY DEF Tick, WatcherFires, WatcherAnswered, Disconnects
  <2> QED BY <1>5, <2>1, <2>2, ExitKeeps
<1>6. CASE WatcherFires /\ watch' = [watch EXCEPT !.does = "idle"]
  <2>1. ex' = ex /\ ghost' = ghost /\ step.call # "down" /\ mem' = mem
    BY <1>2, <1>6 DEF WatcherFires, Exit, Watch, Typed
  <2>2. Typed' /\ ~WatcherTold'
    BY <1>1, <1>2, <1>6, <2>1 DEF Typed, WatcherTold
  <2> QED BY <1>1, <1>2, <2>1, <2>2, BesideKeeps
<1>7. CASE WatcherAnswered /\ watch' = [watch EXCEPT !.does = "idle", !.answer = "ok"]
  <2>1. ex' = ex /\ ghost' = ghost /\ step.call # "down"
        /\ mem' = IF watch.answer = "ok" THEN NoPosition ELSE mem
    BY <1>2, <1>7 DEF WatcherAnswered, Exit, Watch, Typed
  <2>2. watch.answer = "ok" => ex.qty = 0
    BY <1>7 DEF WatcherAnswered, Inv, Base, WatcherTold
  <2>3. Typed' /\ ~WatcherTold'
    BY <1>1, <1>2, <1>7, <2>1, KnownIsHeld DEF Typed, WatcherTold
  <2> QED BY <1>1, <1>2, <2>1, <2>2, <2>3, BesideKeeps
<1> QED BY <1>3, <1>4, <1>5, <1>6, <1>7 DEF WatcherFires, WatcherAnswered, Watch

\* A new bar.
LEMMA NewBarKeeps == ASSUME Inv, NewBar PROVE WellKept
<1>1. market.price \in Marks /\ market' = [market EXCEPT !.high = market.price]
      /\ UNCHANGED <<style, ex, mem, step, watch, ghost, blind>>
  BY DEF NewBar, Inv, Typed
<1>2. market'.price \in Marks /\ market'.high \in Marks
  BY DEF NewBar, Inv, Typed
<1>3. Typed' /\ (WatcherTold' => WatcherTold)
  BY <1>1, <1>2 DEF Inv, Typed, WatcherTold
<1> QED BY <1>1, <1>3, BesideKeeps DEF Inv, Base, LoopInv, Typed, Ghosts

\* A crash: the memory is gone, and what was sold is no longer known.
LEMMA CrashKeeps == ASSUME Inv, Crash PROVE WellKept
<1>1. /\ UNCHANGED <<style, market, ex>> /\ mem' = NoPosition /\ ghost' = Blurred
      /\ blind' = FALSE
      /\ step' = At("down", "ok", NoBar)
      /\ watch' = [watch EXCEPT !.mode = "off", !.does = "idle", !.last = Nil, !.answer = "ok"]
  BY DEF Crash, Watch
<1>2. Blurred \in Ghosts /\ Blurred.blurred
  BY SoldGrows DEF Inv, Typed
<1>3. step'.call = "down"
      /\ step' \in [call : Stages, answer : {"ok", "no"}, bar : Bars]
  BY <1>1, StepFields, NoBarTyped DEF Stages
<1>4. watch'.does = "idle" /\ watch'.mode = "off"
      /\ watch' \in [mode : {"off", "ws", "polling"}, last : Nil..Tp,
                     does : {"idle", "verify", "exit1", "exit2"}, answer : {"ok", "no"}]
  BY <1>1, NilTyped DEF Inv, Typed
<1>5. Typed'
  BY <1>1, <1>2, <1>3, <1>4, KnownIsHeld DEF Inv, Typed
<1>6. Base'
  BY <1>1, <1>2, <1>4 DEF Inv, Base, WatcherTold
<1>7. LoopInv'
  BY <1>1, <1>2, <1>3, <1>4 DEF LoopInv
<1>8. Tightens
  BY <1>1 DEF Tightens, Inv, Typed, Held, Nil, Tp
<1> QED BY <1>5, <1>6, <1>7, <1>8 DEF WellKept, Inv

\* A price sets off the stop, the target, the half order or the trailing.
LEMMA PriceKeeps == ASSUME Inv, PriceMoves PROVE WellKept
<1>1. PICK p \in Marks \cap {market.price - 1, market.price + 1} :
        LET fills == ex.half > 0 /\ p >= Tp1
            left == IF ~fills THEN ex ELSE [Sold(ex.half) EXCEPT !.half = 0]
        IN  /\ market'.price = p /\ market'.high \in Marks
            /\ ex' = Flat \/ ex' = left
            /\ ghost' = SoldSoFar(IF fills THEN Least(ex.half, ex.qty) ELSE 0)
  BY DEF PriceMoves, Inv, Typed
<1> DEFINE fills == ex.half > 0 /\ p >= Tp1
           n == IF fills THEN Least(ex.half, ex.qty) ELSE 0
           sold == [Sold(ex.half) EXCEPT !.half = 0]
<1>2. /\ UNCHANGED <<style, mem, step, watch, blind>> /\ ex.qty > 0 /\ ex \in Held
      /\ ex.qty \in 0..Full /\ ex.half \in 0..Full /\ ghost \in Ghosts
  BY DEF PriceMoves, Inv, Typed, Held
<1>3. n \in Nat /\ n <= ex.half
  BY <1>2 DEF Least, Full
<1>4. /\ ghost' \in Ghosts /\ ghost'.blurred = ghost.blurred
      /\ ~ghost.blurred => ghost'.sold = ghost.sold + n
  BY <1>1, <1>2, <1>3, SoldGrows
<1>5. fills => /\ sold \in Held /\ sold.half = 0 /\ sold.qty <= ex.qty
               /\ sold = Flat \/ (sold.qty > 0 /\ sold.sl = ex.sl)
  <2>1. ex.half \in Nat
    BY <1>2 DEF Full
  <2>2. PICK q : q = Sold(ex.half)
    OBVIOUS
  <2>3. q \in Held /\ q.qty <= ex.qty /\ (q = Flat \/ (q.qty > 0 /\ q.sl = ex.sl))
    BY <1>2, <2>1, <2>2, SoldLeaves
  <2>4. [q EXCEPT !.half = 0] \in Held /\ [q EXCEPT !.half = 0].half = 0
        /\ [q EXCEPT !.half = 0].qty = q.qty /\ [q EXCEPT !.half = 0].sl = q.sl
    BY <2>3 DEF Held, Full
  <2>5. q = Flat => [q EXCEPT !.half = 0] = Flat
    BY FlatHasNoHalf
  <2> QED BY <2>2, <2>3, <2>4, <2>5
<1> HIDE DEF sold, n
<1>6. ex' = Flat \/ (~fills /\ ex' = ex) \/ (fills /\ ex' = sold)
  BY <1>1 DEF sold
<1>7. /\ ex' \in Held /\ (ex'.qty = 0 => ex' = Flat) /\ ex'.qty <= ex.qty
      /\ ex'.qty > 0 => ex'.sl = ex.sl
      /\ ex'.half = 0 \/ (~fills /\ ex' = ex)
  BY <1>2, <1>5, <1>6, KnownIsHeld DEF Full
<1>8. Typed'
  BY <1>1, <1>2, <1>4, <1>7 DEF Inv, Typed
<1>9. ~ghost.blurred => mem # NoPosition
  BY <1>2 DEF Inv, LoopInv, Hidden
<1> DEFINE due == Due(mem, step.call, step.answer)
<1>10. mem # NoPosition => due \in Memory /\ Fits(due)
  BY DueFits
<1>11. ~ghost.blurred => /\ fills => ghost.sold = 0 /\ due.onExchange /\ n <= 2
                         /\ ~fills => ghost'.sold = ghost.sold
  <2>1. ~fills => n = 0
    BY DEF n
  <2>2. ~ghost.blurred /\ fills => ghost.sold = 0 /\ due.onExchange
    BY <1>9, <1>10 DEF Fits
  <2>3. ~ghost.blurred => ex.half <= 2
    BY DEF Inv, Base
  <2> QED BY <1>2, <1>3, <1>4, <2>1, <2>2, <2>3 DEF Ghosts, Full
<1>12. Base'
  <2>1. ~ghost'.blurred => ghost'.sold <= 2 /\ ex'.half <= 2
    BY <1>3, <1>4, <1>7, <1>11 DEF Inv, Base
  <2>2. Steady /\ "trail" \notin style' => ex'.sl <= Entry
    <3>1. ex'.qty = 0 \/ ex'.qty > 0
      BY <1>7 DEF Held
    <3> QED BY <3>1, <1>2, <1>7, KnownIsHeld DEF Inv, Base, Nil, Entry
  <2>3. WatcherTold' => ex'.qty = 0
    BY <1>2 DEF Inv, Base, WatcherTold
  <2> QED BY <1>7, <2>1, <2>2, <2>3 DEF Base
<1>13. mem # NoPosition => Fits(due)'
  <2> SUFFICES ASSUME mem # NoPosition PROVE Fits(due)'
      OBVIOUS
  <2>1. due' = due
    BY <1>2
  <2> HIDE DEF due
  <2>2. due \in Memory /\ Fits(due)
    BY <1>10 DEF due
  <2>3. due.qty > 0 /\ ex'.qty <= due.qty
    <3>1. ex'.qty \in 0..Full
      BY <1>7 DEF Held
    <3> QED BY <1>2, <1>7, <2>2, <3>1 DEF Fits, Full, Memory
  <2>4. ~ghost.blurred => /\ ex'.half > 0 => ghost'.sold = 0 /\ due.onExchange
                          /\ ghost'.sold > 0 /\ ex'.qty > 0 => due.done \/ due.onExchange
    BY <1>2, <1>7, <1>11, <2>2 DEF Fits
  <2>5. Steady => /\ "trail" \notin style => due.sl <= Entry
                  /\ ex'.qty > 0 => ex'.sl <= due.sl
    BY <1>2, <1>7, <2>2 DEF Fits
  <2> QED BY <1>2, <1>4, <2>1, <2>2, <2>3, <2>4, <2>5 DEF Fits
<1>14. LoopInv'
  <2>1. mem' # NoPosition => Fits(due)'
    BY <1>2, <1>13
  <2>6. Hidden => Hidden'
    BY <1>2, <1>4 DEF Hidden
  <2>2. ex'.qty > 0 /\ step'.call # "down" => mem' # NoPosition \/ Hidden'
    BY <1>2, <2>6 DEF Inv, LoopInv
  <2>3. /\ step'.call = "closed" => Hidden'
        /\ ~(step'.call \in {"flip1", "flip2"} /\ step'.answer = "ok")
    BY <1>2, <2>6 DEF Inv, LoopInv
  <2>4. /\ step'.call = "down" => mem' = NoPosition /\ ghost'.blurred
                                  /\ watch'.does = "idle" /\ watch'.mode = "off"
        /\ Steady /\ step'.call \in {"be", "half", "halfBe"} => "trail" \notin style'
        /\ ~ghost'.blurred /\ step'.call \in {"entry", "arm", "setHalf"}
              => ~mem'.onExchange /\ ~mem'.done
    BY <1>2, <1>4 DEF Inv, LoopInv
  <2> QED BY <2>1, <2>2, <2>3, <2>4 DEF LoopInv
<1>15. Tightens
  BY <1>7 DEF Tightens, Inv, Typed, Held, Nil, Tp
<1> QED BY <1>8, <1>12, <1>14, <1>15 DEF WellKept, Inv

-----------------------------------------------------------------------------
(* The theorems *)

\* The invariant holds at first and is kept by every step.
LEMMA ManageInitInv == ManageInit => Inv
<1> SUFFICES ASSUME ManageInit PROVE Inv
    OBVIOUS
<1>1. /\ style \in Styles /\ market = [price |-> Entry, high |-> Entry, trails |-> FALSE]
      /\ ex = Flat /\ mem = NoPosition /\ step = At("sleep", "ok", NoBar)
      /\ watch = [mode |-> "ws", last |-> Nil, does |-> "idle", answer |-> "ok"]
      /\ ghost = [sold |-> 0, blurred |-> FALSE] /\ blind = FALSE
  BY DEF ManageInit, Resting
<1>2. step.call = "sleep" /\ step.answer = "ok"
      /\ step \in [call : Stages, answer : {"ok", "no"}, bar : Bars]
  BY <1>1, StepFields, NoBarTyped DEF Stages
<1>3. market.price = Entry /\ market.high = Entry /\ Entry \in Marks
  BY <1>1 DEF Entry, Marks, Stop0, Tp
<1>4. ghost \in Ghosts /\ ghost.sold = 0
  BY <1>1 DEF Ghosts
<1>5. watch.does = "idle"
      /\ watch \in [mode : {"off", "ws", "polling"}, last : Nil..Tp,
                    does : {"idle", "verify", "exit1", "exit2"}, answer : {"ok", "no"}]
  BY <1>1, NilTyped
<1>6. Typed
  BY <1>1, <1>2, <1>3, <1>4, <1>5, KnownIsHeld DEF Typed
<1>7. Base
  BY <1>1, <1>4, <1>5, KnownIsHeld DEF Base, WatcherTold, Nil, Entry
<1>8. LoopInv
  BY <1>1, <1>2, KnownIsHeld DEF LoopInv
<1> QED BY <1>6, <1>7, <1>8 DEF Inv

\* Every action of loop, watcher, prices and crashes keeps the invariant.
LEMMA ManageNextInv == ASSUME Inv, ManageNext PROVE WellKept
<1>1. CASE LoopSteps
  BY <1>1, StagesKeep, EndsKeep, SetupsKeep, StartKeeps DEF LoopSteps
<1> QED BY <1>1, EntryKeeps, WatcherKeeps, PriceKeeps, NewBarKeeps, CrashKeeps DEF ManageNext

\* A step that changes nothing keeps everything.
LEMMA ManageStutters == ASSUME Inv, UNCHANGED managed PROVE Inv'
<1>1. UNCHANGED <<style, market, ex, mem, step, watch, ghost, blind>>
  BY DEF managed
<1>2. Typed'
  BY <1>1 DEF Inv, Typed
<1>3. Base'
  BY <1>1 DEF Inv, Base, WatcherTold
<1>4. LoopInv'
  BY <1>1 DEF Inv, LoopInv, Fits, Hidden
<1> QED BY <1>2, <1>3, <1>4 DEF Inv

\* The invariant of an open position's handling holds throughout.
LEMMA ManageInvariant == ManageSpec => []Inv
<1>1. Inv /\ [ManageNext]_managed => Inv'
  BY ManageNextInv, ManageStutters DEF WellKept
<1> QED BY ManageInitInv, <1>1, PTL DEF ManageSpec

\* What is around the position, which its handling does not depend on.
Around ==
    /\ market \in [price : Marks, high : Marks, trails : BOOLEAN]
    /\ checked \in BOOLEAN /\ zone \in [touches : 0..MaxTouches, fired : BOOLEAN]

\* Whatever stage a step reaches, the flip was looked for or not.
LEMMA ChecksOrNot ==
    ASSUME NEW m, NEW bar, BeStage(m, bar) \/ HalfStage(m, bar) \/ TrailStage(m, bar)
                           \/ FlipStage(m, bar) \/ UNCHANGED checked,
           checked \in BOOLEAN
    PROVE  checked' \in BOOLEAN
<1>1. (checked \/ LooksForFlip(m)) \in BOOLEAN
  BY Zenon
<1>2. FlipStage(m, bar) => checked' \in BOOLEAN
  BY <1>1, Zenon DEF FlipStage
<1>3. TrailStage(m, bar) => checked' \in BOOLEAN
  BY <1>2, Zenon DEF TrailStage
<1>4. HalfStage(m, bar) => checked' \in BOOLEAN
  BY <1>3, Zenon DEF HalfStage
<1>5. BeStage(m, bar) => checked' \in BOOLEAN
  BY <1>4, Zenon DEF BeStage
<1> QED BY <1>2, <1>3, <1>4, <1>5, Zenon

\* The loop leaves market and zone alone.
LEMMA LoopAround ==
    ASSUME Around, LoopSteps
    PROVE  Around'
<1>1. UNCHANGED <<market, zone>>
  BY Zenon DEF LoopSteps, StepBegins, StepLosesIt, BeAnswered, HalfAnswered, HalfBeAnswered,
               TrailAnswered, FlipAnswered, SyncReads, SyncMisreads, SyncVerified, SyncBooks,
               EntryArms, EntryLost, ArmAnswered, HalfSet, Starts, StartsBlind, Others
<1>2. \E m, bar : \/ BeStage(m, bar) \/ HalfStage(m, bar) \/ TrailStage(m, bar)
                  \/ FlipStage(m, bar) \/ UNCHANGED checked
  BY Zenon DEF LoopSteps, StepBegins, StepLosesIt, BeAnswered, HalfAnswered, HalfBeAnswered,
               TrailAnswered, FlipAnswered, SyncReads, SyncMisreads, SyncVerified, SyncBooks,
               EntryArms, EntryLost, ArmAnswered, HalfSet, Starts, StartsBlind
<1>3. checked' \in BOOLEAN
  BY <1>2, ChecksOrNot DEF Around
<1> QED BY <1>1, <1>3 DEF Around

\* The watcher counts touches up to the most and fires once.
LEMMA WatcherAround ==
    ASSUME Around, Tick \/ WatcherFires \/ WatcherAnswered \/ Disconnects
    PROVE  Around'
<1>1. UNCHANGED <<market, checked>>
  BY DEF Tick, WatcherFires, WatcherAnswered, Disconnects, Loop
<1>2. zone.touches \in 0..MaxTouches /\ MaxTouches \in Nat
  BY ManageAssumption DEF Around
<1>3. \/ UNCHANGED zone
      \/ \E n : n \in {zone.touches, zone.touches + 1} /\ n <= MaxTouches
                /\ zone' = [zone EXCEPT !.touches = n]
      \/ zone' = [zone EXCEPT !.fired = TRUE]
  <2>1. CASE Tick
    <3>1. PICK n : /\ n = IF Touched(market.price) /\ zone.touches < MaxTouches
                            THEN zone.touches + 1 ELSE zone.touches
                   /\ zone' = [zone EXCEPT !.touches = n]
      BY <2>1, Zenon DEF Tick
    <3>2. n \in {zone.touches, zone.touches + 1} /\ n <= MaxTouches
      BY <1>2, <3>1
    <3> QED BY <3>1, <3>2
  <2>2. CASE WatcherFires
    BY <2>2, Zenon DEF WatcherFires
  <2>3. CASE WatcherAnswered \/ Disconnects
    BY <2>3 DEF WatcherAnswered, Disconnects
  <2> QED BY <2>1, <2>2, <2>3
<1>4. zone' \in [touches : 0..MaxTouches, fired : BOOLEAN]
  <2>1. PICK Counts : Counts = 0..MaxTouches
    OBVIOUS
  <2>2. zone \in [touches : Counts, fired : BOOLEAN]
    BY <2>1 DEF Around
  <2>3. ASSUME NEW n \in Counts, zone' = [zone EXCEPT !.touches = n]
        PROVE  zone' \in [touches : Counts, fired : BOOLEAN]
    BY <2>2, <2>3
  <2>4. ASSUME zone' = [zone EXCEPT !.fired = TRUE]
        PROVE  zone' \in [touches : Counts, fired : BOOLEAN]
    BY <2>2, <2>4
  <2>5. \A n \in {zone.touches, zone.touches + 1} : n <= MaxTouches => n \in Counts
    BY <1>2, <2>1
  <2> QED BY <1>3, <2>1, <2>2, <2>3, <2>4, <2>5
<1> QED BY <1>1, <1>4 DEF Around

\* An entry, a price, a bar or a crash sets market, bar and zone anew.
LEMMA MarketAround ==
    ASSUME Inv, Around, EntryFills \/ PriceMoves \/ NewBar \/ Crash
    PROVE  Around'
<1>1. 0 \in 0..MaxTouches /\ Entry \in Marks
  BY ManageAssumption DEF Entry, Marks, Stop0, Tp
<1>2. CASE EntryFills
  BY <1>1, <1>2 DEF EntryFills, Around
<1>3. CASE PriceMoves
  <2>1. PICK p \in Marks :
          market' = [price |-> p, high |-> IF p > market.high THEN p ELSE market.high,
                     trails |-> ex.trailing /\ (market.trails \/ p >= TrailTrigger)]
    BY <1>3, Zenon DEF PriceMoves
  <2>2. (IF p > market.high THEN p ELSE market.high) \in Marks
    BY DEF Around
  <2>3. PICK h \in Marks, t \in BOOLEAN : market' = [price |-> p, high |-> h, trails |-> t]
    <3>1. (ex.trailing /\ (market.trails \/ p >= TrailTrigger)) \in BOOLEAN
      BY Zenon
    <3> QED BY <2>1, <2>2, <3>1, Zenon
  <2>4. UNCHANGED <<checked, zone>>
    BY <1>3 DEF PriceMoves
  <2> QED BY <2>3, <2>4 DEF Around
<1>4. CASE NewBar
  BY <1>4 DEF NewBar, Around
<1>5. CASE Crash
  BY <1>1, <1>5 DEF Crash, Around
<1> QED BY <1>2, <1>3, <1>4, <1>5

\* Position, memory, calls and watcher stay of their kinds, quantities between nothing and
\* the whole, whatever is refused, lost or killed in between.
THEOREM ManageTypeCorrect == ManageSpec => []ManageTypeOK
<1>1. ManageInit => Around
  <2> SUFFICES ASSUME ManageInit PROVE Around
      OBVIOUS
  <2>1. 0 \in 0..MaxTouches /\ Entry \in Marks
    BY ManageAssumption DEF Entry, Marks, Stop0, Tp
  <2>2. /\ market = [price |-> Entry, high |-> Entry, trails |-> FALSE]
        /\ checked = FALSE /\ zone = [touches |-> 0, fired |-> FALSE]
    BY DEF ManageInit
  <2> QED BY <2>1, <2>2 DEF Around
<1>2. Inv /\ Around /\ [ManageNext]_managed => Around'
  <2>1. CASE UNCHANGED managed
    BY <2>1 DEF managed, Around
  <2> QED BY <2>1, LoopAround, WatcherAround, MarketAround DEF ManageNext
<1>3. Inv /\ Around => ManageTypeOK
  BY DEF Inv, Typed, Around, Held, Memory, Stages, ManageTypeOK
<1> QED BY <1>1, <1>2, <1>3, ManageInvariant, PTL DEF ManageSpec

\* Neither the bot, the exchange's half order nor both of them sell more than half of a
\* position at the first target, as long as no restart, lost answer or failed read blurred
\* what was done.
THEOREM HalfOnceHolds == ManageSpec => []HalfOnce
<1>1. Inv => HalfOnce
  BY DEF Inv, Base, HalfOnce, Half, Full
<1> QED BY <1>1, ManageInvariant, PTL

\* A position the exchange holds is forgotten only where a failed read passed for "no
\* position", in the sync or at a start: not by a flip of the loop that is refused or whose
\* answer is lost, nor by one of the watcher in the middle of a step, nor by a sync or a
\* start that can read.
THEOREM HeldIsKnownHolds == ManageSpec => []HeldIsKnown
<1>1. Inv => HeldIsKnown
  BY DEF Inv, LoopInv, Hidden, HeldIsKnown
<1> QED BY <1>1, ManageInvariant, PTL

\* The stop at the exchange never moves away from the price, if no answer is lost and no
\* setting has the trail together with the locks at the entry.
THEOREM StopOnlyTightensHolds == ASSUME Steady PROVE ManageSpec => StopOnlyTightens
<1>1. Inv /\ [ManageNext]_managed
        => [(ex.qty > 0 /\ ex'.qty > 0 /\ ex.sl # Nil) => ex'.sl >= ex.sl]_managed
  BY ManageNextInv DEF WellKept, Tightens
<1> QED BY <1>1, ManageInvariant, PTL DEF ManageSpec, StopOnlyTightens

-----------------------------------------------------------------------------
(* The decision on an entry: the daily limits *)

\* A limit the bot has seen reached has its flag up, and what the book says is reached
\* has, but for the limit of the loss, which a request can lower.
DayInv ==
    /\ reached \subseteq flags
    /\ Hit(book, limit) \ {"loss"} \subseteq flags

\* On a day that has just begun no limit but that of the loss can be reached.
LEMMA FreshDay ==
    ASSUME NEW read \in BOOLEAN, ResetsNow(read), NEW l
    PROVE  Hit(Reset(book, read), l) \subseteq {"loss"}
<1>1. PairLimit \in Nat \ {0} /\ ProfitLimit \in Nat \ {0}
  BY DailyLimitsAssumption
<1>2. Reset(book, read) = [date |-> date, base |-> TRUE, all |-> 0, pair |-> 0]
  BY Zenon DEF Reset
<1>3. Hit([date |-> date, base |-> TRUE, all |-> 0, pair |-> 0], l) \subseteq {"loss"}
  BY <1>1 DEF Hit
<1> QED BY <1>2, <1>3

\* What is reached after the reset has its flag kept, but for the limit of the loss.
LEMMA KeptDay ==
    ASSUME DayInv, NEW read \in BOOLEAN
    PROVE  /\ Hit(Reset(book, read), limit) \subseteq Kept(flags, read) \cup {"loss"}
           /\ Kept(reached, read) \subseteq Kept(flags, read)
<1>1. CASE ResetsNow(read)
  BY <1>1, FreshDay, Zenon DEF Kept
<1>2. CASE ~ResetsNow(read)
  <2>1. Reset(book, read) = book /\ Kept(flags, read) = flags /\ Kept(reached, read) = reached
    BY <1>2, Zenon DEF Reset, Kept
  <2> QED BY <2>1 DEF DayInv
<1> QED BY <1>1, <1>2

\* The look at the day keeps the invariant: it raises every flag that is due.
LEMMA LookDayKeeps ==
    ASSUME DayInv, NEW read \in BOOLEAN, NEW answer, LookAtDay(read, answer)
    PROVE  DayInv'
<1>1. PICK b, hit : /\ b = Synced(Reset(book, read), answer)
                    /\ hit = IF answer = "raises" THEN {} ELSE Hit(b, limit)
  OBVIOUS
<1>2. /\ book' = b /\ limit' = limit
      /\ flags' = Kept(flags, read) \cup hit /\ reached' = Kept(reached, read) \cup hit
  BY <1>1, Zenon DEF LookAtDay
<1>3. reached' \subseteq flags'
  BY <1>2, KeptDay
<1>4. Hit(b, limit) \subseteq flags' \cup {"loss"}
  <2>1. CASE answer = "raises"
    <3>1. b = Reset(book, read)
      BY <1>1, <2>1 DEF Synced
    <3> QED BY <1>2, <3>1, KeptDay
  <2>2. CASE answer # "raises"
    BY <1>1, <1>2, <2>2
  <2> QED BY <2>1, <2>2
<1>5. Hit(book', limit') \ {"loss"} \subseteq flags'
  BY <1>2, <1>4
<1> QED BY <1>3, <1>5 DEF DayInv

\* The check before an order keeps it as well, and passes only when nothing is reached.
LEMMA CheckDayKeeps ==
    ASSUME DayInv, NEW read \in BOOLEAN, CheckDay(read)
    PROVE  /\ DayInv'
           /\ Barred(read) = {} => reached' = {}
<1>1. PICK B : B = Barred(read)
  OBVIOUS
<1>2. PICK first : first = CHOOSE x \in B : \/ x = "loss"
                                            \/ x = "pair" /\ "loss" \notin B
                                            \/ B = {"profit"}
  OBVIOUS
<1>3. PICK h, k : h = Hit(Reset(book, read), limit) /\ k = Kept(flags, read)
  OBVIOUS
<1>4. /\ book' = Reset(book, read) /\ limit' = limit
      /\ flags' = IF B = {} THEN {} ELSE k \cup {first}
      /\ reached' = Kept(reached, read) \cup Hit(book', limit)
  BY <1>1, <1>2, <1>3, Zenon DEF CheckDay
<1>5. B = k \cup h /\ h \subseteq k \cup {"loss"} /\ Kept(reached, read) \subseteq k
  BY <1>1, <1>3, KeptDay DEF Barred
<1>6. reached' = Kept(reached, read) \cup h /\ Hit(book', limit') = h
  BY <1>3, <1>4
<1>7. CASE B = {}
  BY <1>1, <1>4, <1>5, <1>6, <1>7 DEF DayInv
<1>8. CASE "loss" \in B
  <2>1. first = "loss"
    BY <1>2, <1>8
  <2> QED BY <1>1, <1>4, <1>5, <1>6, <1>8, <2>1 DEF DayInv
<1>9. CASE B # {} /\ "loss" \notin B
  BY <1>1, <1>4, <1>5, <1>6, <1>9 DEF DayInv
<1> QED BY <1>7, <1>8, <1>9

\* A new limit of the loss takes its flag down together with what was seen of it.
LEMMA LimitKeeps ==
    ASSUME DayInv, NEW l, SetLossLimit(l)
    PROVE  DayInv'
<1>1. Hit(book, l) \ {"loss"} \subseteq Hit(book, limit) \ {"loss"}
  BY DEF Hit
<1>2. /\ book' = book /\ limit' = l
      /\ \/ flags' = flags /\ reached' = reached
         \/ flags' = flags \ {"loss"} /\ reached' = reached \ {"loss"}
  BY Zenon DEF SetLossLimit
<1> QED BY <1>1, <1>2 DEF DayInv

\* The bot knows of no day, and a day without a book reaches nothing.
LEMMA DayForgotten ==
    /\ \A l : Hit(NoBook, l) = {}
    /\ ForgetDay => DayInv'
<1>1. \A l : Hit(NoBook, l) = {}
  BY DEF Hit, NoBook
<1>2. ForgetDay => DayInv'
  BY <1>1 DEF ForgetDay, DayInv
<1> QED BY <1>1, <1>2

-----------------------------------------------------------------------------
(* The decision on an entry: its steps *)

\* A coroutine is left as it is, comes to rest, or has a setup to check.
LooksOn(w, v) == v \in {w, Idle} \/ \E s : v = Busy("check", s)

\* No step but the check of the day takes a coroutine on to its order.
AtRest == LooksOn(loop, loop') /\ LooksOn(forced, forced')

\* A coroutine that is at rest or has a setup to check is not at its order, unless it was.
LEMMA RestIsNoOrder ==
    ASSUME AtRest, NEW who \in Workers
    PROVE  ~(Working(who).at = "check" /\ Working(who)'.at = "order")
<1>1. \A w, v : LooksOn(w, v) /\ w.at = "check" => v.at # "order"
  BY DEF LooksOn, Idle, Busy
<1>2. CASE who = "loop"
  BY <1>1, <1>2 DEF AtRest, Working
<1>3. CASE who # "loop"
  BY <1>1, <1>3 DEF AtRest, Working
<1> QED BY <1>2, <1>3

\* What a step leaves alone.
LEMMA RestKept == UNCHANGED <<loop, forced>> => AtRest
  BY DEF AtRest, LooksOn

\* The look at the signal.
LEMMA LookSteps ==
    ASSUME DayInv, Look
    PROVE  DayInv' /\ loop = Idle /\ UNCHANGED forced
           /\ \/ loop' = loop
              \/ \E s : s # last /\ loop' = Busy("check", s) /\ UNCHANGED <<last, repeats>>
           /\ \/ UNCHANGED <<last, repeats>>
              \/ \E s : last' = s /\ repeats' = repeats \cap {s}
<1>1. PICK inWindow \in BOOLEAN : LookAt(inWindow)
  BY DEF Look
<1>2. DayInv'
  <2>1. PICK failed, answer : LookAtDay(~failed, answer)
    BY <1>1, Zenon DEF LookAt
  <2>2. (~failed) \in BOOLEAN
    BY Zenon
  <2> QED BY <2>1, <2>2, LookDayKeeps
<1>3. loop = Idle /\ UNCHANGED forced
  BY <1>1, Zenon DEF LookAt
<1>4. \/ UNCHANGED <<loop, last, judged, repeats>>
      \/ \E s, gate : Judge(s, gate, inWindow)
      \/ JudgeMmbm
  BY <1>1, Zenon DEF LookAt
<1>5. ASSUME NEW s, GoOn(s), s # last
      PROVE  \E z : z # last /\ loop' = Busy("check", z) /\ UNCHANGED <<last, repeats>>
  BY <1>5 DEF GoOn
<1>6. CASE JudgeMmbm
  BY <1>2, <1>3, <1>5, <1>6, Zenon DEF JudgeMmbm
<1>7. ASSUME NEW s, NEW gate, Judge(s, gate, inWindow)
      PROVE  /\ \/ loop' = loop
                \/ \E z : z # last /\ loop' = Busy("check", z) /\ UNCHANGED <<last, repeats>>
             /\ \/ UNCHANGED <<last, repeats>>
                \/ \E z : last' = z /\ repeats' = repeats \cap {z}
  <2>1. \/ loop' = loop /\ Remember(s)
        \/ UNCHANGED <<loop, last, repeats>>
        \/ s # last /\ GoOn(s)
    BY <1>7, Zenon DEF Judge, RefusedByEma
  <2> QED BY <2>1, Zenon DEF Remember, GoOn
<1> QED BY <1>2, <1>3, <1>4, <1>6, <1>7, Zenon

\* The setup in the works is not the one remembered, and only that one counts as ordered
\* since another was.
OrderInv ==
    /\ repeats \subseteq {last}
    /\ loop # Idle => loop.setup # last

DecisionInv == DayInv /\ OrderInv

\* No coroutine goes on to its order while a limit of the day is seen reached.
Stops ==
    \A who \in Workers :
       (Working(who).at = "check" /\ Working(who)'.at = "order") => reached' = {}

\* Steps that leave the memory alone, or remember what they end with.
LEMMA OrderFrame ==
    ASSUME OrderInv,
           \/ UNCHANGED <<loop, last, repeats>>
           \/ loop' = Idle /\ UNCHANGED <<last, repeats>>
           \/ \E s : loop' = Idle /\ last' = s /\ repeats' \subseteq {s}
           \/ \E s, stage : s # last /\ loop' = Busy(stage, s) /\ UNCHANGED <<last, repeats>>
    PROVE  OrderInv'
  BY DEF OrderInv, Busy

\* Steps that leave the book and the flags alone.
LEMMA DayFrame ==
    ASSUME DayInv, UNCHANGED <<book, limit, flags, reached>>
    PROVE  DayInv'
  BY DEF DayInv

\* The market, the clock and closes at the exchange.
LEMMA MarketKeeps ==
    ASSUME DecisionInv, Market
    PROVE  DecisionInv' /\ Stops
<1>1. UNCHANGED <<loop, forced, last, repeats, book, limit, flags, reached>>
  <2>1. CASE SetupForms \/ DayEnds \/ BlockExpires
    BY <2>1 DEF SetupForms, DayEnds, BlockExpires, Outside, limitVars, Midnight
  <2>2. CASE (\E s \in Setups : SetupFades(s)) \/ (\E d \in scene.trends : TrendTurns(d))
    BY <2>2 DEF SetupFades, TrendTurns, Outside, limitVars
  <2>3. CASE \/ \E pnl \in {-1, 1} : OthersRealize(pnl)
             \/ \E pnl \in -1..1, byHand \in BOOLEAN : PositionCloses(pnl, byHand)
    BY <2>3, Zenon DEF OthersRealize, PositionCloses, Realizes, Outside
  <2> QED BY <2>1, <2>2, <2>3, Zenon DEF Market
<1>2. AtRest
  BY <1>1, RestKept
<1> QED BY <1>1, <1>2, RestIsNoOrder, DayFrame, OrderFrame DEF DecisionInv, Stops

\* The look at a signal, in either mode.
LEMMA LooksKeep ==
    ASSUME DecisionInv, Look \/ LookMultiTf
    PROVE  DecisionInv' /\ Stops
<1>1. CASE Look
  <2>1. /\ DayInv' /\ loop = Idle /\ UNCHANGED forced
        /\ \/ loop' = loop
           \/ \E s : s # last /\ loop' = Busy("check", s) /\ UNCHANGED <<last, repeats>>
        /\ \/ UNCHANGED <<last, repeats>>
           \/ \E s : last' = s /\ repeats' = repeats \cap {s}
    BY <1>1, LookSteps DEF DecisionInv
  <2>2. AtRest
    BY <2>1 DEF AtRest, LooksOn
  <2>3. OrderInv'
    <3>1. CASE loop' = loop
      BY <2>1, <3>1, OrderFrame DEF DecisionInv
    <3>2. CASE \E s : s # last /\ loop' = Busy("check", s) /\ UNCHANGED <<last, repeats>>
      BY <3>2, OrderFrame DEF DecisionInv
    <3> QED BY <2>1, <3>1, <3>2
  <2> QED BY <2>1, <2>2, <2>3, RestIsNoOrder DEF DecisionInv, Stops
<1>2. CASE LookMultiTf
  <2>1. /\ UNCHANGED <<forced, book, limit, flags, reached>>
        /\ \/ UNCHANGED <<loop, last, repeats>>
           \/ \E s : s # last /\ loop' = Busy("check", s) /\ UNCHANGED <<last, repeats>>
    BY <1>2 DEF LookMultiTf, GoOn, RefusedByEma, limitVars
  <2>2. AtRest
    BY <2>1 DEF AtRest, LooksOn
  <2>3. OrderInv'
    BY <2>1, OrderFrame DEF DecisionInv
  <2> QED BY <2>1, <2>2, <2>3, RestIsNoOrder, DayFrame DEF DecisionInv, Stops
<1> QED BY <1>1, <1>2

\* A coroutine that gives its setup up is at rest; the loop remembers it.
LEMMA GiveUpSteps ==
    ASSUME DecisionInv, NEW who \in Workers, NEW s, GiveUp(who, s) \/ Ordered(who, s)
    PROVE  OrderInv' /\ AtRest
<1>1. CASE who = "loop"
  <2>1. loop' = Idle /\ last' = s /\ repeats' \subseteq {s} /\ UNCHANGED forced
    BY <1>1 DEF GiveUp, Ordered, Remember
  <2> QED BY <2>1, OrderFrame DEF DecisionInv, AtRest, LooksOn
<1>2. CASE who # "loop"
  <2>1. forced' = Idle /\ UNCHANGED <<loop, last, repeats>>
    BY <1>2 DEF GiveUp, Ordered
  <2> QED BY <2>1, OrderFrame DEF DecisionInv, AtRest, LooksOn
<1> QED BY <1>1, <1>2

\* _execute_setup: it goes on to the order only when no limit of the day is reached.
LEMMA ExecuteKeeps ==
    ASSUME DecisionInv, NEW who \in Workers, Execute(who)
    PROVE  DecisionInv' /\ Stops
<1>1. CASE CheckFails(who) \/ OrderDropped(who) \/ OrderFills(who) \/ OrderRests(who)
  <2>1. \E s : GiveUp(who, s) \/ Ordered(who, s)
    BY <1>1, Zenon DEF CheckFails, OrderDropped, OrderFills, OrderRests
  <2>2. UNCHANGED <<book, limit, flags, reached>>
    BY <1>1 DEF CheckFails, OrderDropped, OrderFills, OrderRests, limitVars
  <2> QED BY <2>1, <2>2, GiveUpSteps, RestIsNoOrder, DayFrame DEF DecisionInv, Stops
<1>2. CASE CheckBarred(who)
  <2>1. PICK failed, s : CheckDay(~failed) /\ GiveUp(who, s)
    BY <1>2, Zenon DEF CheckBarred
  <2>2. (~failed) \in BOOLEAN
    BY Zenon
  <2>3. DayInv'
    BY <2>1, <2>2, CheckDayKeeps DEF DecisionInv
  <2> QED BY <2>1, <2>3, GiveUpSteps, RestIsNoOrder DEF DecisionInv, Stops
<1>3. CASE CheckPasses(who)
  <2>1. PICK failed : Barred(~failed) = {} /\ CheckDay(~failed)
    BY <1>3, Zenon DEF CheckPasses
  <2>2. (~failed) \in BOOLEAN
    BY Zenon
  <2>3. DayInv' /\ reached' = {}
    BY <2>1, <2>2, CheckDayKeeps DEF DecisionInv
  <2>4. OrderInv'
    <3>1. CASE who = "loop"
      <4>1. /\ loop.at = "check" /\ loop' = Busy("order", loop.setup)
            /\ UNCHANGED <<last, repeats>>
        BY <1>3, <3>1 DEF CheckPasses, Working
      <4>2. loop # Idle
        BY <4>1 DEF Idle
      <4> QED BY <4>1, <4>2, OrderFrame DEF DecisionInv, OrderInv
    <3>2. CASE who # "loop"
      <4>1. UNCHANGED <<loop, last, repeats>>
        BY <1>3, <3>2 DEF CheckPasses
      <4> QED BY <4>1, OrderFrame DEF DecisionInv
    <3> QED BY <3>1, <3>2
  <2> QED BY <2>3, <2>4 DEF DecisionInv, Stops
<1> QED BY <1>1, <1>2, <1>3 DEF Execute

\* Requests and restarts.
LEMMA RequestsKeep ==
    ASSUME DecisionInv, ForceAsked \/ Restart \/ \E l \in scene.limits : LossLimitSet(l)
    PROVE  DecisionInv' /\ Stops
<1>1. CASE ForceAsked
  <2>1. /\ forced' = Busy("check", Forced)
        /\ UNCHANGED <<loop, last, repeats, book, limit, flags, reached>>
    BY <1>1 DEF ForceAsked, limitVars
  <2>2. AtRest
    BY <2>1 DEF AtRest, LooksOn
  <2> QED BY <2>1, <2>2, RestIsNoOrder, DayFrame, OrderFrame DEF DecisionInv, Stops
<1>2. CASE Restart
  <2>1. ForgetDay /\ UNCHANGED <<loop, forced>> /\ loop = Idle /\ last' = 0 /\ repeats' = {}
    BY <1>2, Zenon DEF Restart
  <2>2. OrderInv'
    BY <2>1 DEF OrderInv
  <2> QED BY <2>1, <2>2, DayForgotten, RestKept, RestIsNoOrder DEF DecisionInv, Stops
<1>3. CASE \E l \in scene.limits : LossLimitSet(l)
  <2>1. PICK l : SetLossLimit(l) /\ UNCHANGED <<loop, forced, last, repeats>>
    BY <1>3, Zenon DEF LossLimitSet, Outside
  <2> QED BY <2>1, LimitKeeps, OrderFrame, RestKept, RestIsNoOrder DEF DecisionInv, Stops
<1> QED BY <1>1, <1>2, <1>3

\* Every step of the bot, the market and the requests keeps the invariant, and none takes
\* an entry past a limit of the day.
LEMMA DecisionNext ==
    ASSUME DecisionInv, [Next]_vars
    PROVE  DecisionInv' /\ Stops
<1>1. CASE Market
  BY <1>1, MarketKeeps
<1>2. CASE Look \/ LookMultiTf
  BY <1>2, LooksKeep
<1>3. CASE \E who \in Workers : Execute(who)
  BY <1>3, ExecuteKeeps
<1>4. CASE ForceAsked \/ Restart \/ \E l \in scene.limits : LossLimitSet(l)
  BY <1>4, RequestsKeep
<1>5. CASE UNCHANGED vars
  <2>1. UNCHANGED <<loop, forced, last, repeats, book, limit, flags, reached>>
    BY <1>5 DEF vars
  <2> QED BY <2>1, RestKept, RestIsNoOrder, DayFrame, OrderFrame DEF DecisionInv, Stops
<1> QED BY <1>1, <1>2, <1>3, <1>4, <1>5, Zenon DEF Next, Steps

\* The bot begins with no book, no flag and nothing remembered.
LEMMA DecisionInit == Init => DecisionInv
<1> SUFFICES ASSUME Init
             PROVE  DecisionInv
    OBVIOUS
<1>1. book = NoBook /\ flags = {} /\ reached = {} /\ loop = Idle /\ last = 0 /\ repeats = {}
  BY DEF Init, LimitsInit
<1> QED BY <1>1, DayForgotten DEF DecisionInv, DayInv, OrderInv

\* Once the bot has seen a daily limit reached, no entry passes its check until the next
\* daily reset, whatever the result of the day does, reads fail or the limit is set to.
THEOREM DailyStopHolds == Spec => DailyStop
<1>1. DecisionInv /\ [Next]_vars => DecisionInv' /\ [Stops]_vars
  BY DecisionNext
<1>2. [][Stops]_vars => DailyStop
  BY PTL DEF Stops, DailyStop
<1> QED BY <1>1, <1>2, DecisionInit, PTL DEF Spec

\* A setup the bot has ordered is not filled again before it has decided on another one,
\* whatever came of the order.
THEOREM RepeatNeedsOtherHolds == Spec => RepeatNeedsOther
<1> DEFINE Fresh == (loop.at = "order" /\ active' # active) => loop.setup \notin repeats
<1>1. DecisionInv => Fresh
  BY DEF DecisionInv, OrderInv, Idle
<1>2. DecisionInv /\ [Next]_vars => DecisionInv' /\ [Fresh]_vars
  BY <1>1, DecisionNext
<1>3. [][Fresh]_vars => RepeatNeedsOther
  BY PTL DEF RepeatNeedsOther
<1> QED BY <1>2, <1>3, DecisionInit, PTL DEF Spec
-----------------------------------------------------------------------------
(* The decision on an entry: types *)

\* What a bot may be at work on.
Wanted == Setups \cup {Forced}
Remembered == {0} \cup Wanted
AtWork(w) == w = Idle \/ \E s \in Wanted, stage \in {"check", "order"} : w = Busy(stage, s)
Days == [date : Nat, base : BOOLEAN, all : Int, pair : Int]
Results == -scene.pnl..scene.pnl

ChartInv ==
    \E n \in Nat, S \in SUBSET Setups :
        S \subseteq 1..n /\ \E d : chart = [seen |-> n, live |-> S, trend |-> d]

WorkInv == AtWork(loop) /\ AtWork(forced) /\ {last, active} \subseteq Remembered

BookInv ==
    /\ scene \in Scenes /\ date \in Nat
    /\ \E a \in Results, p \in Results : closed = [all |-> a, pair |-> p]
    /\ book \in Days /\ book.date <= date
    /\ flags \subseteq Limits /\ reached \subseteq Limits /\ (flags # {} => book.base)

Shaped == ChartInv /\ WorkInv /\ BookInv

\* The latest of some setups of a chart is one of them.
LEMMA LatestIsOne ==
    ASSUME NEW S \in SUBSET Nat, NEW n \in Nat, S \subseteq 1..n
    PROVE  Latest(S) \in {0} \cup S
<1>1. CASE S = {}
  BY <1>1 DEF Latest
<1>2. CASE S # {}
  <2> DEFINE T == {n - x : x \in S}
  <2>1. T \in SUBSET Nat /\ T # {}
    <3>1. \A x \in S : x \in Nat /\ n - x \in Nat
      OBVIOUS
    <3> QED BY <1>2, <3>1
  <2>2. \E t \in T : \A u \in T : ~ (<<u, t>> \in OpToRel(<, Nat))
    BY <2>1, NatLessThanWellFounded, WFMin
  <2>3. \A t, u \in T : <<u, t>> \in OpToRel(<, Nat) \/ t <= u
    <3> HIDE DEF T
    <3> QED BY <2>1 DEF OpToRel
  <2>4. PICK t \in T : \A u \in T : t <= u
    BY <2>2, <2>3
  <2>5. PICK x \in S : t = n - x
    BY <2>4
  <2>6. \A y \in S : n - y \in T /\ y \in Nat
    OBVIOUS
  <2>7. \A y \in S : n - x <= n - y
    BY <2>4, <2>5, <2>6
  <2>8. \A y \in S : x >= y
    BY <2>6, <2>7
  <2>9. Max(S) \in S
    BY <2>8 DEF Max
  <2> QED BY <1>2, <2>9 DEF Latest
<1> QED BY <1>1, <1>2

\* A signal is a setup of the chart.
LEMMA SignalIsSetup ==
    ASSUME ChartInv
    PROVE  /\ \A d : SignalSetup(d) \in {0} \cup Setups
           /\ Latest(chart.live \cap Mmbm) \in {0} \cup Setups
           /\ chart.live \subseteq Setups
<1>1. PICK n \in Nat, S \in SUBSET Setups : chart.live = S /\ S \subseteq 1..n
  <2>1. PICK n \in Nat, S \in SUBSET Setups :
          S \subseteq 1..n /\ \E d : chart = [seen |-> n, live |-> S, trend |-> d]
    BY DEF ChartInv
  <2>2. chart.live = S
    BY <2>1
  <2> QED BY <2>1, <2>2
<1>2. \A T \in SUBSET S : Latest(T) \in {0} \cup Setups
  <2> SUFFICES ASSUME NEW T \in SUBSET S PROVE Latest(T) \in {0} \cup Setups
      OBVIOUS
  <2>1. T \in SUBSET Nat /\ T \subseteq 1..n
    BY <1>1, DecisionAssumption
  <2>2. Latest(T) \in {0} \cup T
    BY <2>1, LatestIsOne
  <2> QED BY <2>2
<1>3. \A d : {s \in chart.live \ Mmbm : d \in {"none", DirOf[s]}} \in SUBSET S
  BY <1>1
<1>4. (chart.live \cap Mmbm) \in SUBSET S
  BY <1>1
<1>5. \A d : SignalSetup(d) \in {0} \cup Setups
  BY <1>2, <1>3, Zenon DEF SignalSetup
<1> QED BY <1>1, <1>2, <1>4, <1>5

\* What the loop may do with a signal.
LEMMA SignalShaped ==
    ASSUME WorkInv, NEW s \in Wanted, Remember(s) \/ GoOn(s) \/ UNCHANGED <<loop, last>>,
           loop' = loop \/ GoOn(s), UNCHANGED <<forced, active>>
    PROVE  WorkInv'
BY DEF WorkInv, Remember, GoOn, AtWork, Remembered

\* The day, as it may be reset, read and checked.
LEMMA DayShaped ==
    ASSUME BookInv, NEW read \in BOOLEAN
    PROVE  /\ Reset(book, read) \in Days /\ Reset(book, read).date <= date
           /\ (Kept(flags, read) # {} => Reset(book, read).base)
           /\ Kept(flags, read) \subseteq Limits /\ Kept(reached, read) \subseteq Limits
<1>1. CASE ResetsNow(read)
  <2>1. Reset(book, read) = [date |-> date, base |-> TRUE, all |-> 0, pair |-> 0]
        /\ Kept(flags, read) = {} /\ Kept(reached, read) = {}
    BY <1>1, Zenon DEF Reset, Kept
  <2> QED BY <2>1 DEF BookInv, Days
<1>2. CASE ~ResetsNow(read)
  <2>1. Reset(book, read) = book /\ Kept(flags, read) = flags /\ Kept(reached, read) = reached
    BY <1>2, Zenon DEF Reset, Kept
  <2> QED BY <2>1 DEF BookInv
<1> QED BY <1>1, <1>2

\* A limit is reached only on a day that has begun.
LEMMA HitShaped == \A b, l : Hit(b, l) \subseteq Limits /\ (Hit(b, l) # {} => b.base)
BY DEF Hit

\* Setups form, fade and wait; the chart stays one.
LEMMA ChartKept ==
    ASSUME ChartInv, Next
    PROVE  ChartInv'
<1>1. PICK n \in Nat, S \in SUBSET Setups :
        S \subseteq 1..n /\ \E d : chart = [seen |-> n, live |-> S, trend |-> d]
  BY DEF ChartInv
<1>2. PICK d : chart = [seen |-> n, live |-> S, trend |-> d]
  BY <1>1
<1>3. CASE SetupForms
  <2>1. n + 1 \in Setups /\ chart' = [seen |-> n + 1, live |-> S \cup {n + 1}, trend |-> d]
    BY <1>2, <1>3 DEF SetupForms
  <2>2. (S \cup {n + 1}) \in SUBSET Setups /\ n + 1 \in Nat /\ S \cup {n + 1} \subseteq 1..n + 1
    BY <1>1, <2>1
  <2> QED BY <2>1, <2>2 DEF ChartInv
<1>4. ASSUME NEW s \in Setups, SetupFades(s) PROVE ChartInv'
  <2>1. chart' = [seen |-> n, live |-> S \ {s}, trend |-> d]
    BY <1>2, <1>4 DEF SetupFades
  <2>2. (S \ {s}) \in SUBSET Setups /\ S \ {s} \subseteq 1..n
    BY <1>1
  <2> QED BY <2>1, <2>2 DEF ChartInv
<1>5. ASSUME NEW e, TrendTurns(e) PROVE ChartInv'
  <2>1. chart' = [seen |-> n, live |-> S, trend |-> e]
    BY <1>2, <1>5 DEF TrendTurns
  <2> QED BY <1>1, <2>1 DEF ChartInv
<1>6. CASE UNCHANGED chart
  BY <1>6 DEF ChartInv
<1>7. \/ SetupForms
      \/ \E s \in Setups : SetupFades(s)
      \/ \E e \in scene.trends : TrendTurns(e)
      \/ UNCHANGED chart
  BY Zenon DEF Next, Steps, Market, DayEnds, BlockExpires, OthersRealize, PositionCloses, Look,
               LookAt, LookMultiTf, Execute, CheckFails, CheckBarred, CheckPasses, OrderDropped,
               OrderFills, OrderRests, ForceAsked, Restart, LossLimitSet
<1> QED BY <1>3, <1>4, <1>5, <1>6, <1>7

\* The loop takes a signal to check, remembers it, or leaves it.
LEMMA LooksShaped ==
    ASSUME ChartInv, WorkInv, Look \/ LookMultiTf
    PROVE  WorkInv'
<1>0. UNCHANGED <<forced, active>> /\ \A s : GoOn(s) => UNCHANGED last
  BY Zenon DEF Look, LookAt, LookMultiTf, GoOn
<1>1. CASE UNCHANGED <<loop, last>>
  BY <1>0, <1>1 DEF WorkInv
<1>2. ASSUME NEW s \in Setups, GoOn(s) \/ (Remember(s) /\ UNCHANGED loop) PROVE WorkInv'
  BY <1>0, <1>2, SignalShaped DEF Wanted
<1>3. CASE Look
  <2>1. PICK inWindow : LookAt(inWindow)
    BY <1>3 DEF Look
  <2>2. \/ UNCHANGED <<loop, last>>
        \/ \E r, gate : LET s == SignalSetup(Prefer(r)) IN s # 0 /\ Judge(s, gate, inWindow)
        \/ JudgeMmbm
    BY <2>1, Zenon DEF LookAt
  <2>3. ASSUME NEW r, NEW gate, SignalSetup(Prefer(r)) # 0,
               Judge(SignalSetup(Prefer(r)), gate, inWindow)
        PROVE  WorkInv'
    <3>1. PICK s : s = SignalSetup(Prefer(r))
      OBVIOUS
    <3>2. s \in Setups
      BY <2>3, <3>1, SignalIsSetup
    <3>3. UNCHANGED <<loop, last>> \/ GoOn(s) \/ (Remember(s) /\ UNCHANGED loop)
      BY <2>3, <3>1, Zenon DEF Judge, RefusedByEma
    <3> QED BY <1>1, <1>2, <3>2, <3>3
  <2>4. CASE JudgeMmbm
    <3>1. PICK s : s = Latest(chart.live \cap Mmbm)
      OBVIOUS
    <3>2. UNCHANGED <<loop, last>> \/ (s # 0 /\ GoOn(s))
      BY <2>4, <3>1, Zenon DEF JudgeMmbm
    <3>3. s # 0 => s \in Setups
      BY <3>1, SignalIsSetup
    <3> QED BY <1>1, <1>2, <3>2, <3>3
  <2> QED BY <1>1, <2>2, <2>3, <2>4
<1>4. CASE LookMultiTf
  <2>1. PICK s \in chart.live : GoOn(s) \/ UNCHANGED <<loop, last>>
    BY <1>4, Zenon DEF LookMultiTf, RefusedByEma
  <2>2. s \in Setups
    BY <2>1, SignalIsSetup
  <2> QED BY <1>1, <1>2, <2>1, <2>2
<1> QED BY <1>3, <1>4

\* A coroutine at work is at work on a setup.
LEMMA WorkIsWanted ==
    ASSUME WorkInv, NEW who \in Workers, Working(who).at \in {"check", "order"}
    PROVE  Working(who).setup \in Wanted
<1>1. AtWork(Working(who))
  BY DEF WorkInv, Working
<1> QED BY <1>1 DEF AtWork, Idle, Busy

\* It goes on with it, or comes to rest.
LEMMA ExecuteShaped ==
    ASSUME WorkInv, NEW who \in Workers, Execute(who)
    PROVE  WorkInv'
<1>1. PICK s : s = Working(who).setup
  OBVIOUS
<1>2. s \in Wanted
  <2>1. Working(who).at \in {"check", "order"}
    BY Zenon DEF Execute, CheckFails, CheckBarred, CheckPasses, OrderDropped, OrderFills, OrderRests
  <2> QED BY <1>1, <2>1, WorkIsWanted
<1>3. CASE CheckPasses(who)
  <2>1. /\ UNCHANGED <<last, active>>
        /\ \/ loop' = Busy("order", s) /\ UNCHANGED forced
           \/ forced' = Busy("order", s) /\ UNCHANGED loop
    BY <1>1, <1>3, Zenon DEF CheckPasses
  <2> QED BY <1>2, <2>1 DEF WorkInv, AtWork
<1>4. CASE CheckFails(who) \/ CheckBarred(who) \/ OrderDropped(who) \/ OrderFills(who) \/ OrderRests(who)
  <2>1. /\ active' \in {active, s}
        /\ \/ loop' = Idle /\ last' = s /\ UNCHANGED forced
           \/ forced' = Idle /\ UNCHANGED <<loop, last>>
    <3>1. active' \in {active, s} /\ (GiveUp(who, s) \/ Ordered(who, s))
      BY <1>1, <1>4, Zenon DEF CheckFails, CheckBarred, OrderDropped, OrderFills, OrderRests
    <3> QED BY <3>1 DEF GiveUp, Ordered, Remember
  <2> QED BY <1>2, <2>1 DEF WorkInv, AtWork, Remembered
<1> QED BY <1>3, <1>4 DEF Execute

\* Coroutines and memory hold setups, whatever is looked at, ordered or asked for.
LEMMA WorkKept ==
    ASSUME ChartInv, WorkInv, Next
    PROVE  WorkInv'
<1>1. CASE Look \/ LookMultiTf
  BY <1>1, LooksShaped
<1>2. CASE \E who \in Workers : Execute(who)
  BY <1>2, ExecuteShaped
<1>3. CASE ForceAsked
  <2>1. forced' = Busy("check", Forced) /\ UNCHANGED <<loop, last, active>>
    BY <1>3 DEF ForceAsked
  <2> QED BY <2>1 DEF WorkInv, AtWork, Wanted
<1>4. CASE Restart
  <2>1. last' = 0 /\ UNCHANGED <<loop, forced, active>>
    BY <1>4 DEF Restart
  <2> QED BY <2>1 DEF WorkInv, Remembered
<1>5. CASE Market \/ \E l \in scene.limits : LossLimitSet(l)
  <2>1. UNCHANGED <<loop, forced, last>> /\ active' \in {active, 0}
    <3>1. CASE SetupForms \/ DayEnds \/ BlockExpires
      BY <3>1 DEF SetupForms, DayEnds, BlockExpires, Outside
    <3>2. CASE (\E s \in Setups : SetupFades(s)) \/ (\E d \in scene.trends : TrendTurns(d))
      BY <3>2 DEF SetupFades, TrendTurns, Outside
    <3>3. CASE \/ \E pnl \in {-1, 1} : OthersRealize(pnl)
               \/ \E pnl \in -1..1, byHand \in BOOLEAN : PositionCloses(pnl, byHand)
               \/ \E l \in scene.limits : LossLimitSet(l)
      BY <3>3, Zenon DEF OthersRealize, PositionCloses, LossLimitSet, Outside
    <3> QED BY <1>5, <3>1, <3>2, <3>3, Zenon DEF Market
  <2> QED BY <2>1 DEF WorkInv, Remembered
<1> QED BY <1>1, <1>2, <1>3, <1>4, <1>5, Zenon DEF Next, Steps

\* The result of a day is a number.
LEMMA ResultsTyped ==
    ASSUME BookInv
    PROVE  0 \in Results /\ Results \subseteq Int /\ closed.all \in Results /\ closed.pair \in Results
<1>1. PICK n \in Nat : n = scene.pnl
  BY DecisionAssumption DEF BookInv
<1>2. 0 \in -n..n /\ -n..n \subseteq Int
  BY <1>1
<1>3. closed.all \in Results /\ closed.pair \in Results
  BY DEF BookInv
<1> QED BY <1>1, <1>2, <1>3 DEF Results

\* Reading the results keeps the book one.
LEMMA SyncShaped ==
    ASSUME BookInv, NEW b \in Days, b.date <= date, NEW answer
    PROVE  answer \in {"today", "empty", "raises"} =>
             Synced(b, answer) \in Days /\ Synced(b, answer).date = b.date /\ Synced(b, answer).base = b.base
<1>1. \A x, y \in Int : [b EXCEPT !.all = x, !.pair = y] \in Days
        /\ [b EXCEPT !.all = x, !.pair = y].date = b.date
        /\ [b EXCEPT !.all = x, !.pair = y].base = b.base
  BY DEF Days
<1>2. closed.all \in Int /\ closed.pair \in Int
  BY ResultsTyped
<1>3. CASE answer = "today"
  <2>1. Synced(b, answer) = [b EXCEPT !.all = closed.all, !.pair = closed.pair]
    BY <1>3 DEF Synced
  <2>2. PICK x \in Int, y \in Int : x = closed.all /\ y = closed.pair
    BY <1>2
  <2>3. Synced(b, answer) = [b EXCEPT !.all = x, !.pair = y]
    BY <2>1, <2>2
  <2>4. PICK z : z = [b EXCEPT !.all = x, !.pair = y]
    OBVIOUS
  <2>5. z \in Days /\ z.date = b.date /\ z.base = b.base
    BY <1>1, <2>4
  <2> QED BY <2>3, <2>4, <2>5
<1>4. CASE answer = "empty"
  <2>1. Synced(b, answer) = [b EXCEPT !.all = 0, !.pair = 0]
    BY <1>4 DEF Synced
  <2>2. PICK x \in Int : x = 0
    OBVIOUS
  <2>3. PICK z : z = [b EXCEPT !.all = x, !.pair = x]
    OBVIOUS
  <2>4. z \in Days /\ z.date = b.date /\ z.base = b.base
    BY <1>1, <2>3
  <2> QED BY <2>1, <2>2, <2>3, <2>4
<1>5. CASE answer = "raises"
  <2>1. Synced(b, answer) = b
    BY <1>5 DEF Synced
  <2> QED BY <2>1
<1> QED BY <1>3, <1>4, <1>5

\* The look at the day and the check before an order.
LEMMA LookDayShaped ==
    ASSUME BookInv, NEW read \in BOOLEAN, NEW answer \in {"today", "empty", "raises"},
           LookAtDay(read, answer), UNCHANGED scene
    PROVE  BookInv'
<1>1. PICK b, hit : /\ b = Synced(Reset(book, read), answer)
                    /\ hit = IF answer = "raises" THEN {} ELSE Hit(b, limit)
  OBVIOUS
<1>2. /\ book' = b /\ flags' = Kept(flags, read) \cup hit /\ reached' = Kept(reached, read) \cup hit
      /\ date' = date /\ closed' = closed
  BY <1>1, Zenon DEF LookAtDay
<1>3. b \in Days /\ b.date = Reset(book, read).date /\ b.base = Reset(book, read).base
  BY <1>1, DayShaped, SyncShaped
<1>4. hit \subseteq Limits /\ (hit # {} => b.base)
  BY <1>1, HitShaped
<1> QED BY <1>2, <1>3, <1>4, DayShaped DEF BookInv, Results

\* The check raises the flag of the first limit that bars.
LEMMA CheckDayShaped ==
    ASSUME BookInv, NEW read \in BOOLEAN, CheckDay(read), UNCHANGED scene
    PROVE  BookInv'
<1>1. PICK B : B = Barred(read)
  OBVIOUS
<1>2. PICK first : first = CHOOSE x \in B : \/ x = "loss"
                                            \/ x = "pair" /\ "loss" \notin B
                                            \/ B = {"profit"}
  OBVIOUS
<1>3. PICK h, k : h = Hit(Reset(book, read), limit) /\ k = Kept(flags, read)
  OBVIOUS
<1>4. /\ book' = Reset(book, read) /\ limit' = limit /\ date' = date /\ closed' = closed
      /\ flags' = IF B = {} THEN {} ELSE k \cup {first}
      /\ reached' = Kept(reached, read) \cup Hit(book', limit)
  BY <1>1, <1>2, <1>3, Zenon DEF CheckDay
<1>5. B = k \cup h /\ B \subseteq Limits /\ (B # {} => book'.base)
  BY <1>1, <1>3, <1>4, DayShaped, HitShaped DEF Barred
<1>6. B # {} => first \in B
  <2> SUFFICES ASSUME B # {} PROVE first \in B
      OBVIOUS
  <2>1. \E x \in B : (x = "loss") \/ (x = "pair" /\ "loss" \notin B) \/ (B = {"profit"})
    <3>1. CASE "loss" \in B
      BY <3>1
    <3>2. CASE "loss" \notin B /\ "pair" \in B
      BY <3>2
    <3>3. CASE "loss" \notin B /\ "pair" \notin B
      <4>1. B = {"profit"}
        BY <1>5, <3>3 DEF Limits
      <4> QED BY <4>1
    <3> QED BY <3>1, <3>2, <3>3
  <2> QED BY <1>2, <2>1
<1>7. flags' \subseteq Limits /\ (flags' # {} => book'.base)
  BY <1>4, <1>5, <1>6
<1>8. reached' \subseteq Limits
  BY <1>4, DayShaped, HitShaped
<1> QED BY <1>4, <1>7, <1>8, DayShaped DEF BookInv, Results

\* The book and the flags belong to a day that has begun, whatever fails, is asked for or
\* realized.
LEMMA BookKept ==
    ASSUME BookInv, Next
    PROVE  BookInv'
<1>0. UNCHANGED scene
  BY DEF Next
<1>1. CASE UNCHANGED <<date, closed, book, flags, reached>>
  BY <1>0, <1>1 DEF BookInv, Results
<1>2. CASE Look
  <2>1. PICK inWindow : LookAt(inWindow)
    BY <1>2 DEF Look
  <2>2. PICK failed \in BOOLEAN, answer \in {"today", "empty", "raises"} : LookAtDay(~failed, answer)
    BY <2>1 DEF LookAt, Fails
  <2>3. (~failed) \in BOOLEAN
    BY Zenon
  <2> QED BY <1>0, <2>2, <2>3, LookDayShaped
<1>3. ASSUME NEW who \in Workers, CheckBarred(who) \/ CheckPasses(who) PROVE BookInv'
  <2>1. PICK failed : CheckDay(~failed)
    BY <1>3, Zenon DEF CheckBarred, CheckPasses
  <2>2. (~failed) \in BOOLEAN
    BY Zenon
  <2> QED BY <1>0, <2>1, <2>2, CheckDayShaped
<1>4. CASE DayEnds
  <2>1. date' = date + 1 /\ closed' = [all |-> 0, pair |-> 0] /\ UNCHANGED <<book, flags, reached>>
    BY <1>4 DEF DayEnds, Midnight, Nought
  <2>2. 0 \in Results'
    BY <1>0, ResultsTyped DEF Results
  <2>3. book.date <= date + 1
    BY DEF BookInv, Days
  <2> QED BY <1>0, <2>1, <2>2, <2>3 DEF BookInv
<1>5. ASSUME NEW pnl, NEW own, Realizes(pnl, own), Bounded PROVE BookInv'
  <2>1. PICK a, p : closed' = [all |-> a, pair |-> p]
    BY <1>5, Zenon DEF Realizes
  <2>2. closed'.all = a /\ closed'.pair = p
    BY <2>1
  <2>3. a \in Results' /\ p \in Results'
    BY <1>0, <1>5, <2>2 DEF Bounded, Results
  <2>4. UNCHANGED <<date, book, flags, reached>>
    BY <1>5, Zenon DEF Realizes
  <2> QED BY <1>0, <2>1, <2>3, <2>4 DEF BookInv
<1>6. ASSUME NEW l, LossLimitSet(l) PROVE BookInv'
  <2>1. /\ UNCHANGED <<date, closed, book>> /\ flags' \subseteq flags /\ reached' \subseteq reached
    BY <1>6 DEF LossLimitSet, SetLossLimit
  <2> QED BY <1>0, <2>1 DEF BookInv, Results
<1>7. CASE Restart
  <2>1. book' = NoBook /\ flags' = {} /\ reached' = {} /\ UNCHANGED <<date, closed>>
    BY <1>7 DEF Restart, ForgetDay
  <2>2. NoBook \in Days /\ NoBook.date = 0
    BY DEF NoBook, Days
  <2> QED BY <1>0, <2>1, <2>2 DEF BookInv, Results
<1>8. \/ UNCHANGED <<date, closed, book, flags, reached>>
      \/ Look \/ (\E who \in Workers : CheckBarred(who) \/ CheckPasses(who)) \/ DayEnds
      \/ (\E pnl, own : Realizes(pnl, own) /\ Bounded)
      \/ (\E l : LossLimitSet(l)) \/ Restart
  <2>1. CASE Market
    BY <2>1, Zenon DEF Market, SetupForms, BlockExpires, SetupFades, TrendTurns, OthersRealize,
                       PositionCloses, limitVars
  <2>2. CASE \E who \in Workers : Execute(who)
    BY <2>2, Zenon DEF Execute, CheckFails, OrderDropped, OrderFills, OrderRests, limitVars
  <2>3. CASE LookMultiTf \/ ForceAsked
    BY <2>3, Zenon DEF LookMultiTf, ForceAsked, limitVars
  <2> QED BY <2>1, <2>2, <2>3, Zenon DEF Next, Steps
<1> QED BY <1>1, <1>2, <1>3, <1>4, <1>5, <1>6, <1>7, <1>8

\* Coroutines, memory and position hold setups the market has shown or an administrator
\* forced, the book is of no later day than the clock's, and a flag is up only on a day
\* that has begun.
THEOREM DecisionTypeCorrect == Spec => []TypeOK
<1>1. Init => Shaped
  <2> SUFFICES ASSUME Init PROVE Shaped
      OBVIOUS
  <2>1. scene \in Scenes /\ scene.pnl \in Nat
    BY DecisionAssumption DEF Init
  <2>2. ChartInv
    BY DEF Init, ChartInv
  <2>3. WorkInv
    BY DEF Init, WorkInv, AtWork, Remembered
  <2>4. BookInv
    <3>1. NoBook \in Days /\ NoBook.date = 0
      BY DEF NoBook, Days
    <3>2. 0 \in Results
      BY <2>1 DEF Results
    <3> QED BY <2>1, <3>1, <3>2 DEF Init, LimitsInit, BookInv, Nought
  <2> QED BY <2>2, <2>3, <2>4 DEF Shaped
<1>2. Shaped /\ [Next]_vars => Shaped'
  <2>1. CASE UNCHANGED vars
    BY <2>1 DEF vars, Shaped, ChartInv, WorkInv, BookInv, Results
  <2> QED BY <2>1, ChartKept, WorkKept, BookKept DEF Shaped
<1>3. Shaped => TypeOK
  <2> SUFFICES ASSUME Shaped PROVE TypeOK
      OBVIOUS
  <2>1. chart.live \subseteq 1..chart.seen
    <3>1. PICK n \in Nat, S \in SUBSET Setups :
            S \subseteq 1..n /\ \E d : chart = [seen |-> n, live |-> S, trend |-> d]
      BY DEF Shaped, ChartInv
    <3>2. chart.seen = n /\ chart.live = S
      BY <3>1
    <3> QED BY <3>1, <3>2
  <2>2. ASSUME NEW w, AtWork(w)
        PROVE  w.at \in {"idle", "check", "order"} /\ (w.at = "idle" <=> w.setup = 0)
    <3>1. \A s \in Wanted : s # 0
      BY DecisionAssumption DEF Wanted
    <3> QED BY <2>2, <3>1 DEF AtWork, Idle, Busy
  <2>3. \A w \in {loop, forced} : /\ w.at \in {"idle", "check", "order"}
                                  /\ w.at = "idle" <=> w.setup = 0
    BY <2>2 DEF Shaped, WorkInv
  <2>4. {closed.all, closed.pair} \subseteq -scene.pnl..scene.pnl
    BY ResultsTyped DEF Shaped, Results
  <2>5. book.date \in 0..date
    BY DEF Shaped, BookInv, Days
  <2> QED BY <2>1, <2>3, <2>4, <2>5 DEF Shaped, WorkInv, BookInv, Remembered, Wanted, TypeOK
<1> QED BY <1>1, <1>2, <1>3, PTL DEF Spec
=============================================================================
