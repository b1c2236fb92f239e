----------------------------- MODULE TimerWheel -----------------------------
(***************************************************************************)
(* The timer wheel of a worker (include/timer.h).  worker->ts_us is        *)
(* sampled once per run of the worker loop; timer_process then catches the *)
(* wheel up with it, slot by slot, and runs the callback of every timer it *)
(* finds in a slot.  A callback may start, stop and close timers, and so   *)
(* may the application between two runs of the loop.                       *)
(*                                                                         *)
(* deadline is the moment a timer was asked to fire at; the code does not  *)
(* keep it.                                                                *)
(***************************************************************************)
EXTENDS Integers, Sequences, SequencesExt, FiniteSets

CONSTANTS
    Timer,
    NR_SLOT,        \* slots of the wheel
    GRAGNULARITY,   \* time per slot
    Expires,        \* the timeouts timer_start is called with
    MaxStall,       \* the longest time between two runs of the worker loop
    MaxTime         \* bound on time itself

ASSUME WheelAssumption ==
    /\ NR_SLOT \in Nat \ {0} /\ GRAGNULARITY \in Nat \ {0}
    /\ Expires \subseteq Nat /\ MaxStall \in Nat /\ MaxTime \in Nat

VARIABLES
    now,            \* worker->ts_us
    last_run,       \* timer_ctrl->last_run; next_run is one slot later
    curr_slot_idx,  \* modulo NR_SLOT, which divides 2^32
    slots,
    active, closed, slot_idx,
    deadline,
    pc              \* "app", or where timer_process is: "tick", "slot", "cb"

wheelVars == <<now, last_run, curr_slot_idx>>
timerVars == <<slots, active, closed, slot_idx, deadline>>
vars == <<wheelVars, timerVars, pc>>

next_run == last_run + GRAGNULARITY

\* timer_ctrl_init at time 0, timer_init for every timer.
Init ==
    /\ now = 0 /\ last_run = 0 /\ curr_slot_idx = 0
    /\ slots = [i \in 0 .. NR_SLOT - 1 |-> <<>>]
    /\ active = [t \in Timer |-> FALSE]
    /\ closed = [t \in Timer |-> FALSE]
    /\ slot_idx = [t \in Timer |-> 0]
    /\ deadline = [t \in Timer |-> 0]
    /\ pc = "app"

----------------------------------------------------------------------------
\* The slots once t is stopped.
unlinked(t) ==
    IF active[t] THEN [slots EXCEPT ![slot_idx[t]] = Remove(@, t)] ELSE slots

timer_stop_Linked(t) == \* mutant: the timer stays in its slot
    /\ active' = [active EXCEPT ![t] = FALSE]
    /\ UNCHANGED slots

timer_stop(t) ==
    /\ slots' = unlinked(t)
    /\ active' = [active EXCEPT ![t] = FALSE]

timer_close(t) ==
    /\ timer_stop(t)
    /\ closed' = [closed EXCEPT ![t] = TRUE]
    /\ UNCHANGED <<slot_idx, deadline>>

slot_off_Floor(expire) == \* mutant: rounded down
    LET off == (now + expire - last_run) \div GRAGNULARITY
    IN  IF off > NR_SLOT THEN NR_SLOT ELSE IF off < 1 THEN 1 ELSE off
slot_off_Long(expire) == \* mutant: one slot too many
    (now + expire - last_run) \div GRAGNULARITY + 2

\* How many slots ahead of the current one the timer goes.
slot_off(expire) ==
    LET wait == IF expire = 0 THEN 1 ELSE expire
        off  == (now + wait - last_run + GRAGNULARITY - 1) \div GRAGNULARITY
    IN  IF off > NR_SLOT THEN NR_SLOT ELSE off

\* A timer that is already in the right slot stays where it is.
timer_start(t, expire) ==
    LET idx == (slot_off(expire) + curr_slot_idx) % NR_SLOT
    IN  /\ slots' = IF active[t] /\ slot_idx[t] = idx THEN slots
                    ELSE [unlinked(t) EXCEPT ![idx] = Append(@, t)]
        /\ slot_idx' = [slot_idx EXCEPT ![t] = idx]
        /\ active' = [active EXCEPT ![t] = TRUE]
        /\ deadline' = [deadline EXCEPT ![t] = now + expire]
        /\ UNCHANGED closed

\* tsock_init sets the timers of a free socket up again.
timer_init(t) ==
    /\ closed' = [closed EXCEPT ![t] = FALSE]
    /\ slot_idx' = [slot_idx EXCEPT ![t] = 0]
    /\ UNCHANGED <<slots, active, deadline>>

\* Callers start a timer only while its socket is in use.
TimerOp(t) ==
    /\ pc \in {"app", "cb"}
    /\ \/ timer_stop(t) /\ UNCHANGED <<closed, slot_idx, deadline>>
       \/ timer_close(t)
       \/ ~ closed[t] /\ \E e \in Expires : timer_start(t, e)
       \/ pc = "app" /\ closed[t] /\ timer_init(t)
    /\ UNCHANGED <<wheelVars, pc>>

----------------------------------------------------------------------------
\* tpa_worker_run: sample the clock, call timer_process.
tpa_worker_run ==
    /\ pc = "app"
    /\ \E d \in 0 .. MaxStall : now + d <= MaxTime /\ now' = now + d
    /\ pc' = "tick"
    /\ UNCHANGED <<last_run, curr_slot_idx, timerVars>>

timer_tick_Eager == \* mutant: compares with last_run
    /\ pc = "tick"
    /\ IF now >= last_run
       THEN /\ last_run' = last_run + GRAGNULARITY
            /\ curr_slot_idx' = (curr_slot_idx + 1) % NR_SLOT
            /\ pc' = "slot"
       ELSE pc' = "app" /\ UNCHANGED <<last_run, curr_slot_idx>>
    /\ UNCHANGED <<now, timerVars>>

\* The outer loop of timer_process: the next slot, as long as one is due.
timer_tick ==
    /\ pc = "tick"
    /\ IF now >= next_run
       THEN /\ last_run' = last_run + GRAGNULARITY
            /\ curr_slot_idx' = (curr_slot_idx + 1) % NR_SLOT
            /\ pc' = "slot"
       ELSE pc' = "app" /\ UNCHANGED <<last_run, curr_slot_idx>>
    /\ UNCHANGED <<now, timerVars>>

timer_fire_Kept == \* mutant: the timer is not stopped before its callback
    /\ pc = "slot"
    /\ pc' = IF slots[curr_slot_idx] = <<>> THEN "tick" ELSE "cb"
    /\ UNCHANGED <<wheelVars, timerVars>>

\* The inner loop: the first timer of the slot is stopped and called back.
timer_fire ==
    /\ pc = "slot"
    /\ IF slots[curr_slot_idx] = <<>>
       THEN pc' = "tick" /\ UNCHANGED <<slots, active>>
       ELSE timer_stop(Head(slots[curr_slot_idx])) /\ pc' = "cb"
    /\ UNCHANGED <<wheelVars, closed, slot_idx, deadline>>

callback_return ==
    /\ pc = "cb"
    /\ pc' = "slot"
    /\ UNCHANGED <<wheelVars, timerVars>>

timer_process == timer_tick \/ timer_fire \/ callback_return

Next == tpa_worker_run \/ timer_process \/ \E t \in Timer : TimerOp(t)

\* timer_process runs to its end, and every callback returns.
Spec == Init /\ [][Next]_vars /\ WF_vars(timer_process)

----------------------------------------------------------------------------
TypeOK ==
    /\ now \in 0 .. MaxTime /\ last_run \in 0 .. now
    /\ curr_slot_idx \in 0 .. NR_SLOT - 1
    /\ slots \in [0 .. NR_SLOT - 1 -> Seq(Timer)]
    /\ active \in [Timer -> BOOLEAN] /\ closed \in [Timer -> BOOLEAN]
    /\ slot_idx \in [Timer -> 0 .. NR_SLOT - 1]
    /\ deadline \in [Timer -> Nat]
    /\ pc \in {"app", "tick", "slot", "cb"}

(***************************************************************************)
(* active and slot_idx tell where a timer is: an active timer is linked    *)
(* once, in the slot it names, a stopped one nowhere.  timer_stop unlinks  *)
(* by that index, and the asserts of timer_process (the timer is active    *)
(* and not closed) rest on it.                                             *)
(***************************************************************************)
LinkedOnce ==
    \A t \in Timer : \A i \in 0 .. NR_SLOT - 1 :
        LET at == {k \in 1 .. Len(slots[i]) : slots[i][k] = t}
        IN  /\ Cardinality(at) = (IF active[t] /\ slot_idx[t] = i THEN 1 ELSE 0)
            /\ at # {} => ~ closed[t]

(***************************************************************************)
(* A timer never fires before the time it was set to: timer_fire takes a   *)
(* timer only when its deadline has come, on the clock and on the wheel,   *)
(* which lags behind while it catches up.                                  *)
(***************************************************************************)
NeverEarly ==
    [][\A t \in Timer : timer_fire /\ active[t] /\ ~ active'[t] => deadline[t] <= last_run]_vars

(***************************************************************************)
(* No timer is forgotten: when timer_process is done, no timer still waits *)
(* that should have fired a slot or more ago, however long the worker was  *)
(* stalled and whatever the callbacks started on the way.                  *)
(***************************************************************************)
NoneOverdue ==
    \A t \in Timer : pc = "app" /\ active[t] => now < deadline[t] + GRAGNULARITY

(***************************************************************************)
(* timer_process always comes to its end: a callback that starts its timer *)
(* again puts it into a later slot, never back into the one being emptied. *)
(***************************************************************************)
ProcessEnds == (pc = "tick") ~> (pc = "app")
=============================================================================
