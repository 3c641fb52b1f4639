------------------------------ MODULE OrderFeed ------------------------------
(***************************************************************************)
(* What the order stream promises a reader (v1.md 9.2), without rings,     *)
(* queues or snapshots: the account's events are numbered, a reader is     *)
(* handed them one by one, and resumes behind the last it read by naming   *)
(* it.  As long as a reader follows, it is handed the next event or one    *)
(* that it has had, never one further on; and it only stops following      *)
(* where more events than the window holds were written since, or where    *)
(* the numbers begin again.                                                *)
(***************************************************************************)
EXTENDS Integers

CONSTANTS
    Readers,
    Window     \* events that a reader may be behind without losing one

VARIABLES
    written,   \* events written: the ids are 0 .. written - 1
    last,      \* per reader: the id it read last, or None
    held,      \* per reader: the id it was handed and has not read, or None
    follows    \* readers that will be handed every event after the last

feedVars == <<written, last, held, follows>>

-----------------------------------------------------------------------------
\* Nothing read yet: the id before the first.
None == -1

\* More was written since what r has than is kept for it.
FarBehind(r) ==
    LET newest == IF held[r] = None THEN last[r] ELSE held[r]
    IN  written - (newest + 1) > Window

\* Of the readers rs, nobody stops following that is not far behind, and nobody
\* who has missed an event follows again.
Kept(rs) ==
    /\ rs \cap follows' \subseteq follows
    /\ \A r \in (rs \cap follows) \ follows' : FarBehind(r)'

Write ==
    /\ written' = written + 1
    /\ Kept(Readers)
    /\ UNCHANGED <<last, held>>

\* r reads from the start, which may itself write an event.  To resume is no step.
Begin(r) ==
    /\ held[r] = None
    /\ last' = [last EXCEPT ![r] = None]
    /\ written' \in {written, written + 1}
    /\ UNCHANGED held
    /\ r \in follows' \/ FarBehind(r)'
    /\ Kept(Readers \ {r})

\* r is handed an event: the next one, or one that it has had.
Take(r) ==
    /\ held[r] = None
    /\ \E id \in 0..(written - 1) :
        /\ held' = [held EXCEPT ![r] = id]
        /\ r \in follows => id <= last[r] + 1
    /\ UNCHANGED <<written, last, follows>>

\* r reads it; who missed events before may follow from here.
Read(r) ==
    /\ held[r] # None
    /\ last' = [last EXCEPT ![r] = held[r]]
    /\ held' = [held EXCEPT ![r] = None]
    /\ follows' \in {follows, follows \cup {r}}
    /\ UNCHANGED written

\* r goes: what it was handed and did not read counts as not handed.
Leave(r) ==
    /\ held' = [held EXCEPT ![r] = None]
    /\ UNCHANGED <<written, last>>
    /\ r \in follows => r \in follows' \/ FarBehind(r)'
    /\ Kept(Readers \ {r})

\* While nobody is being served the events are forgotten: no id means anything now.
Forget ==
    /\ \A r \in Readers : held[r] = None
    /\ written' = 0
    /\ follows' = {}
    /\ UNCHANGED <<last, held>>

FeedInit ==
    /\ written = 0
    /\ last = [r \in Readers |-> None]
    /\ held = [r \in Readers |-> None]
    /\ follows = {}

FeedNext ==
    \/ Write
    \/ \E r \in Readers : Begin(r) \/ Take(r) \/ Read(r) \/ Leave(r)
    \/ Forget

FeedSpec == FeedInit /\ [][FeedNext]_feedVars
=============================================================================
