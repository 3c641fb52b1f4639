------------------------------- MODULE Watchdog -------------------------------
(***************************************************************************)
(* tws_watchdog: a timer starts a run that loads the state file, checks    *)
(* every stack, recreates a paper container that is down, pushes alarms    *)
(* and recoveries to the operator's phone, and saves the state at the end. *)
(* A push or a recreate may fail, and a run may be cut short.              *)
(***************************************************************************)
EXTENDS Integers

CONSTANTS
    Stacks,          \* the stacks, in any order
    Paper,           \* those that are recreated: is_paper, auto_recreate_paper
    DownThreshold,   \* consecutive runs before an alarm
    RealertAfter,    \* realert_hours, in runs
    CountMax         \* bound on consecutive_down

ASSUME WatchdogAssumption ==
    /\ Paper \subseteq Stacks /\ DownThreshold \in Nat \ {0}
    /\ RealertAfter \in Nat \ {0} /\ CountMax \in Nat

VARIABLES
    condition,   \* of each stack: what docker and the gateway's health say
    file,        \* the state file, per stack
    work,        \* the state of the run under way
    pending,     \* stacks the run has not processed
    running,     \* a run is under way
    phone,       \* history: what the operator was told last of each stack
    cut          \* history: a run was cut short since the stack was last reset

watchdogVars == <<condition, file, work, pending, running, phone, cut>>

\* docker inspect and GET /v1/health as check_stack reads them.
Conditions == {"ok", "starting", "down"}

\* for_stack: no outage, and lastAlert counts the runs since the alarm.
NoAlert == -1
Fresh   == [down |-> 0, lastAlert |-> NoAlert, recreated |-> FALSE]
Entry   == [down : 0..CountMax, lastAlert : NoAlert..RealertAfter, recreated : BOOLEAN]

\* check_stack: a container that starts is not down.
IsUp(s) == condition[s] \in {"ok", "starting"}

Older(e) == IF e.lastAlert \in 0..(RealertAfter - 1) THEN [e EXCEPT !.lastAlert = @ + 1] ELSE e

-----------------------------------------------------------------------------
\* The timer: WatchdogState.load; time has passed since the last run.
StartRun ==
    /\ ~running /\ running' = TRUE /\ pending' = Stacks
    /\ work' = [s \in Stacks |-> Older(file[s])]
    /\ UNCHANGED <<condition, file, phone, cut>>

\* Faulty variant: a recovery is forgotten whether or not it was pushed.
ProcessUpAnyway(s) ==
    /\ running /\ s \in pending /\ IsUp(s)
    /\ \E sent \in BOOLEAN :
         /\ work' = [work EXCEPT ![s] = Fresh]
         /\ phone' = [phone EXCEPT ![s] =
                        IF work[s].down >= DownThreshold /\ sent THEN "ok" ELSE @]
         /\ cut' = [cut EXCEPT ![s] = FALSE]
    /\ pending' = pending \ {s}
    /\ UNCHANGED <<condition, file, running>>

\* process_stack, up: after an outage the recovery is pushed, and pushed again by later
\* runs until that succeeds; only then the outage is over.
ProcessUp(s) ==
    /\ running /\ s \in pending /\ IsUp(s)
    /\ IF work[s].down >= DownThreshold
       THEN \E sent \in BOOLEAN :
              IF sent
              THEN /\ work' = [work EXCEPT ![s] = Fresh]
                   /\ phone' = [phone EXCEPT ![s] = "ok"]
                   /\ cut' = [cut EXCEPT ![s] = FALSE]
              ELSE UNCHANGED <<work, phone, cut>>
       ELSE work' = [work EXCEPT ![s] = Fresh] /\ UNCHANGED <<phone, cut>>
    /\ pending' = pending \ {s}
    /\ UNCHANGED <<condition, file, running>>

\* _should_alert: no alarm yet, or the last one is old.
ShouldAlert(e) == e.lastAlert = NoAlert \/ e.lastAlert >= RealertAfter

\* process_stack, down: count; from the threshold on recreate once, and alarm.
ProcessDown(s) ==
    /\ running /\ s \in pending /\ ~IsUp(s) /\ work[s].down < CountMax
    /\ \E recreate \in BOOLEAN, sent \in BOOLEAN :
         LET n == work[s].down + 1
             heals  == n >= DownThreshold /\ s \in Paper /\ ~work[s].recreated /\ recreate
             alarms == n >= DownThreshold /\ ShouldAlert(work[s]) /\ sent
         IN /\ work' = [work EXCEPT ![s] =
                          [down      |-> n,
                           lastAlert |-> IF alarms THEN 0 ELSE @.lastAlert,
                           recreated |-> @.recreated \/ heals]]
            /\ phone' = [phone EXCEPT ![s] = IF alarms THEN "down" ELSE @]
            /\ condition' = [condition EXCEPT ![s] = IF heals THEN "starting" ELSE @]
    /\ pending' = pending \ {s}
    /\ UNCHANGED <<file, running, cut>>

\* state.save, after the last stack.
SaveState ==
    /\ running /\ pending = {} /\ running' = FALSE
    /\ file' = work
    /\ UNCHANGED <<condition, work, pending, phone, cut>>

\* The run is killed: nothing of it is saved, or the file, which is not replaced
\* atomically, is left unreadable and counts as empty.
RunIsCut ==
    /\ running /\ running' = FALSE /\ pending' = {}
    /\ file' \in {file, [s \in Stacks |-> Fresh]}
    /\ work' = file'
    /\ cut' = [s \in Stacks |-> TRUE]
    /\ UNCHANGED <<condition, phone>>

StackChanges(s) ==
    /\ \E c \in Conditions \ {condition[s]} : condition' = [condition EXCEPT ![s] = c]
    /\ UNCHANGED <<file, work, pending, running, phone, cut>>

WatchdogInit ==
    /\ condition = [s \in Stacks |-> "ok"]
    /\ file = [s \in Stacks |-> Fresh] /\ work = file
    /\ pending = {} /\ running = FALSE
    /\ phone = [s \in Stacks |-> "ok"] /\ cut = [s \in Stacks |-> FALSE]

WatchdogNext ==
    \/ StartRun \/ SaveState \/ RunIsCut
    \/ \E s \in Stacks : ProcessUp(s) \/ ProcessDown(s) \/ StackChanges(s)

WatchdogSpec == WatchdogInit /\ [][WatchdogNext]_watchdogVars

-----------------------------------------------------------------------------
WatchdogTypeOK ==
    /\ condition \in [Stacks -> Conditions]
    /\ file \in [Stacks -> Entry] /\ work \in [Stacks -> Entry]
    /\ pending \subseteq Stacks /\ running \in BOOLEAN
    /\ phone \in [Stacks -> {"ok", "down"}] /\ cut \in [Stacks -> BOOLEAN]

\* The operator is never left with a wrong picture by lost pushes: as long as no run was
\* cut short, the phone says "down" of exactly the stacks whose outage was alarmed and
\* not yet taken back, and an outage is only forgotten once its end was pushed.
PhoneShowsOutages ==
    \A s \in Stacks : ~cut[s] =>
        /\ phone[s] = "down" <=> work[s].lastAlert # NoAlert
        /\ work[s].recreated \/ work[s].lastAlert # NoAlert => work[s].down >= DownThreshold
=============================================================================
